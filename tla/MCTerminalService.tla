-------------------------- MODULE MCTerminalService --------------------------
(* A small terminal for TLC. *)
EXTENDS TerminalService

CONSTANTS a, b

MCClients == {a, b}
MCOne == {a}
MCNone == {}
MCReaders == Clients \X Subscriptions

(* journal is history that no handler reads: states that differ only there  *)
(* behave the same, so a run whose properties do not mention it skips it.   *)
WithoutJournal ==
    <<generation, sequence, subscribers, runtimeVars, published, controlVars,
      completed, answer>>
=============================================================================
