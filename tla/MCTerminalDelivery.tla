------------------------- MODULE MCTerminalDelivery -------------------------
(* Small deliveries for TLC: every client holds one session subscription. *)
EXTENDS TerminalDelivery

CONSTANTS a, b

MCOne == {a}
MCTwo == {a, b}
MCKeys == Clients \X Subscriptions

(* journal is history: no handler reads it, and neither do the properties of *)
(* a run under this view.                                                    *)
WithoutJournal ==
    <<generation, sequence, subscribers, runtimeVars, published, controlVars,
      completed, answer, clientVars>>

=============================================================================
