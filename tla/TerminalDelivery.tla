-------------------------- MODULE TerminalDelivery --------------------------
(***************************************************************************)
(* One terminal and the clients that show it: the server of                *)
(* TerminalService, the session subscription every client polls it by, and *)
(* the client's projection (RemoteSessionCoordinator's terminal entry and  *)
(* RemoteTerminalProjection).                                              *)
(*                                                                         *)
(* A client has one session.poll request in flight.  The user shows and   *)
(* hides the terminal while a response is on its way or half accepted.  A  *)
(* response may be lost to the worker's deadline or a broken connection,   *)
(* and a request its client gave up may still reach the service, its       *)
(* answer going nowhere.  The pipelining of Update and Events frames on    *)
(* the stream is SessionStream's.                                          *)
(***************************************************************************)
EXTENDS TerminalService

CONSTANTS
    LateRequests,       \* may a request that was given up still be served?
    MaxVisibility,      \* bound: visibility generations
    MaxLosses           \* bound: exchanges a client loses

ASSUME DeliveryAssumption ==
    /\ 0 \notin Subscriptions
    /\ Readers = Clients \X Subscriptions
    /\ LateRequests \in BOOLEAN
    /\ MaxVisibility \in Nat /\ MaxLosses \in Nat

VARIABLES
    visible, visGeneration, \* presentation_visible_, visibility_generation_
    needsAttach,            \* batch_needs_attach_
    projection,             \* client_->projection()
    asked,                  \* the request in flight
    inbox,                  \* the response accept_batch() is working through
    late,                   \* a request given up that may still be served
    losses                  \* exchanges lost so far

clientVars == <<visible, visGeneration, needsAttach, projection, asked,
                inbox, late, losses>>
vars == <<serverVars, clientVars>>

-----------------------------------------------------------------------------
(* Requests *)

Request == [visible : BOOLEAN, visGeneration : Nat,
            cursor : [generation : Nat, sequence : Nat]]

NoRequest == [visible |-> FALSE, visGeneration |-> 0, cursor |-> NoCursor]

(* Mutant: the cursor names the event before the last one applied. *)
VersionBehind(p) == [generation |-> p.generation, sequence |-> p.sequence - 1]

Version(p) == [generation |-> p.generation, sequence |-> p.sequence]

(* batch_subscription(): no cursor until an attach has been accepted. *)
BatchSubscription(k) ==
    [visible |-> visible[k],
     visGeneration |-> visGeneration[k],
     cursor |-> IF ~needsAttach[k] /\ projection[k].attached
                THEN Version(projection[k]) ELSE NoCursor]

(* poll_subscription() for one request. *)
Serve(k, request, outcome, budget, live) ==
    IF ~request.visible THEN PollHidden(k, live)
    ELSE \/ PollAttach(k, request.cursor, outcome, live)
         \/ PollResync(k, request.cursor, outcome, live)
         \/ /\ ~RequiresAttach(k, request.cursor)
            /\ PollEvents(k, request.cursor, budget, live)

ServeFails(k, request, live) ==
    request.visible /\ PollAttachFails(k, request.cursor, live)

-----------------------------------------------------------------------------
(* Projections *)

Projection == [attached : BOOLEAN, generation : Nat, sequence : Nat,
               cells : SUBSET Nat, controller : Controllers,
               running : BOOLEAN]

Detached == [attached |-> FALSE, generation |-> 0, sequence |-> 0,
             cells |-> {}, controller |-> NoClient, running |-> FALSE]

(* apply_snapshot() and a full delta replace the cells, a delta adds some. *)
Shows(cells, e) ==
    [attached |-> TRUE, generation |-> e.generation, sequence |-> e.sequence,
     cells |-> IF e.kind \in {"snapshot", "redraw"}
               THEN e.cells ELSE cells \cup e.cells,
     controller |-> e.controller, running |-> e.running]

NotOlder(e, p) ==
    \/ e.generation > p.generation
    \/ e.generation = p.generation /\ e.sequence >= p.sequence

(* Mutant: an event that skips a sequence number is applied. *)
ApplicableWithGaps(p, e) ==
    /\ p.attached
    /\ IF e.kind = "snapshot" THEN NotOlder(e, p)
       ELSE e.generation = p.generation /\ e.sequence > p.sequence

(* RemoteTerminalProjection::apply(). *)
Applicable(p, e) ==
    /\ p.attached
    /\ IF e.kind = "snapshot" THEN NotOlder(e, p)
       ELSE e.generation = p.generation /\ e.sequence = p.sequence + 1

-----------------------------------------------------------------------------
(* The user interface thread *)

SetVisible(k, shows) ==
    /\ visible[k] # shows /\ visGeneration[k] < MaxVisibility
    /\ visible' = [visible EXCEPT ![k] = shows]
    /\ visGeneration' = [visGeneration EXCEPT ![k] = @ + 1]
    /\ needsAttach' = [needsAttach EXCEPT ![k] = TRUE]
    /\ UNCHANGED <<serverVars, projection, asked, inbox, late, losses>>

-----------------------------------------------------------------------------
(* The worker thread *)

SendPoll(k) ==
    /\ asked[k] = NoRequest /\ inbox[k] = NoAnswer
    /\ asked' = [asked EXCEPT ![k] = BatchSubscription(k)]
    /\ UNCHANGED <<serverVars, visible, visGeneration, needsAttach,
                   projection, inbox, late, losses>>

(* accept_batch() drops a response to an earlier visibility; a resync       *)
(* without an attach asks for one with the next request.                    *)
Deliver(k) ==
    /\ asked[k] # NoRequest /\ answer[k] # NoAnswer
    /\ answer' = [answer EXCEPT ![k] = NoAnswer]
    /\ asked' = [asked EXCEPT ![k] = NoRequest]
    /\ IF /\ asked[k].visGeneration = visGeneration[k]
          /\ answer[k].events # <<>>
       THEN /\ inbox' = [inbox EXCEPT ![k] = answer[k]]
            /\ needsAttach' = [needsAttach EXCEPT
                                  ![k] = @ \/ answer[k].kind = "resync"]
       ELSE UNCHANGED <<inbox, needsAttach>>
    /\ UNCHANGED <<logVars, runtimeVars, published, controlVars, completed,
                   visible, visGeneration, projection, late, losses>>

(* accept_attach() clears batch_needs_attach_ under a second lock. *)
AcceptAttach(k) ==
    /\ inbox[k].kind = "attach"
    /\ projection' = [projection EXCEPT ![k] = Shows({}, inbox[k].events[1])]
    /\ needsAttach' = [needsAttach EXCEPT ![k] = FALSE]
    /\ inbox' = [inbox EXCEPT ![k] = NoAnswer]
    /\ UNCHANGED <<serverVars, visible, visGeneration, asked, late, losses>>

(* accept_events() stops at the first event that does not apply. *)
ApplyEvent(k) ==
    /\ inbox[k].kind \in {"resync", "events"}
    /\ LET e == inbox[k].events[1]
           rest == Tail(inbox[k].events)
       IN  IF Applicable(projection[k], e)
           THEN /\ projection' = [projection EXCEPT
                                     ![k] = Shows(projection[k].cells, e)]
                /\ inbox' = [inbox EXCEPT
                                ![k] = IF rest = <<>> THEN NoAnswer
                                       ELSE NewAnswer(inbox[k].kind, rest)]
                /\ UNCHANGED needsAttach
           ELSE /\ needsAttach' = [needsAttach EXCEPT ![k] = TRUE]
                /\ inbox' = [inbox EXCEPT ![k] = NoAnswer]
                /\ UNCHANGED projection
    /\ UNCHANGED <<serverVars, visible, visGeneration, asked, late, losses>>

(* The worker's deadline passes or the connection breaks.  Such failures    *)
(* leave the cursor and batch_needs_attach_ alone; the request may still be *)
(* waiting at the server.                                                   *)
Lose(k) ==
    /\ asked[k] # NoRequest /\ losses < MaxLosses
    /\ losses' = losses + 1
    /\ asked' = [asked EXCEPT ![k] = NoRequest]
    /\ answer' = [answer EXCEPT ![k] = NoAnswer]
    /\ \/ UNCHANGED late
       \/ /\ LateRequests /\ answer[k] = NoAnswer /\ late[k] = NoRequest
          /\ late' = [late EXCEPT ![k] = asked[k]]
    /\ UNCHANGED <<logVars, runtimeVars, published, controlVars, completed,
                   visible, visGeneration, needsAttach, projection, inbox>>

-----------------------------------------------------------------------------
(* The server's state thread *)

ServeAsked(k, outcome, budget) ==
    /\ asked[k] # NoRequest /\ answer[k] = NoAnswer
    /\ Serve(k, asked[k], outcome, budget, TRUE)
    /\ UNCHANGED clientVars

ServeAskedFails(k) ==
    /\ asked[k] # NoRequest /\ answer[k] = NoAnswer
    /\ ServeFails(k, asked[k], TRUE)
    /\ UNCHANGED clientVars

ServeLate(k, outcome, budget) ==
    /\ late[k] # NoRequest
    /\ Serve(k, late[k], outcome, budget, FALSE)
    /\ late' = [late EXCEPT ![k] = NoRequest]
    /\ UNCHANGED <<visible, visGeneration, needsAttach, projection, asked,
                   inbox, losses>>

(* A request cancelled while it waits is skipped. *)
DropLate(k) ==
    /\ late[k] # NoRequest
    /\ late' = [late EXCEPT ![k] = NoRequest]
    /\ UNCHANGED <<serverVars, visible, visGeneration, needsAttach,
                   projection, asked, inbox, losses>>

Terminal ==
    /\ Runtime \/ \E c \in Clients : Commands(c)
    /\ UNCHANGED clientVars

-----------------------------------------------------------------------------
DeliveryInit ==
    /\ Init
    /\ visible = [k \in Keys |-> TRUE]
    /\ visGeneration = [k \in Keys |-> 1]
    /\ needsAttach = [k \in Keys |-> TRUE]
    /\ projection = [k \in Keys |-> Detached]
    /\ asked = [k \in Keys |-> NoRequest]
    /\ inbox = [k \in Keys |-> NoAnswer]
    /\ late = [k \in Keys |-> NoRequest]
    /\ losses = 0

DeliveryNext ==
    \/ Terminal
    \/ \E k \in Keys :
          \/ \E shows \in BOOLEAN : SetVisible(k, shows)
          \/ SendPoll(k) \/ Deliver(k) \/ AcceptAttach(k) \/ ApplyEvent(k)
          \/ Lose(k) \/ ServeAskedFails(k) \/ DropLate(k)
          \/ \E outcome \in SnapshotOutcomes, budget \in EventBudgets :
                ServeAsked(k, outcome, budget) \/ ServeLate(k, outcome, budget)

DeliverySpec == DeliveryInit /\ [][DeliveryNext]_vars

(* The worker thread and the server's loop run; the user and the network    *)
(* owe nothing.  A client that keeps asking is in the end served in full:   *)
(* the rotation of the poll scheduler, and a shell that can be started.     *)
ServeFully(k) ==
    \E budget \in EventBudgets \ {0} : ServeAsked(k, "fits", budget)

Fairness ==
    /\ WF_vars(PumpStatus /\ UNCHANGED clientVars)
    /\ \A k \in Keys :
          /\ WF_vars(SendPoll(k)) /\ WF_vars(Deliver(k))
          /\ WF_vars(AcceptAttach(k)) /\ WF_vars(ApplyEvent(k))
          /\ SF_vars(ServeFully(k))

FairDeliverySpec == DeliverySpec /\ Fairness

-----------------------------------------------------------------------------
(* Properties *)

Stands(g, n) == journal[g][n + 1]

DeliveryTypeOK ==
    /\ visible \in [Keys -> BOOLEAN] /\ visGeneration \in [Keys -> Nat]
    /\ needsAttach \in [Keys -> BOOLEAN]
    /\ projection \in [Keys -> Projection]
    /\ asked \in [Keys -> Request] /\ late \in [Keys -> Request]
    /\ inbox \in [Keys -> Answer]
    /\ losses \in Nat

(* Whatever is lost, coalesced, resynchronised or served late, a client     *)
(* that holds a version shows every write that version stands for and the   *)
(* controller it had (apply, apply_delta, apply_snapshot against the queue  *)
(* of the service).                                                         *)
TruthfulProjection ==
    \A k \in Keys : projection[k].attached =>
        LET p == projection[k]
        IN  /\ p.generation \in 1..Len(journal)
            /\ p.sequence + 1 \in 1..Len(journal[p.generation])
            /\ 1..Stands(p.generation, p.sequence).writes \subseteq p.cells
            /\ p.controller = Stands(p.generation, p.sequence).controller

(* A client never goes back to an earlier version, not even by attaching    *)
(* anew, where apply_snapshot() accepts any version.                        *)
NoRegression ==
    [][\A k \in Keys : projection[k].attached =>
          projection'[k].attached /\ NotOlder(projection'[k], projection[k])
      ]_vars

(* The next event a client works on is the one it can apply: "ordered       *)
(* deltas" after every snapshot.                                            *)
OrderedDelivery ==
    \A k \in Keys : inbox[k].kind \in {"resync", "events"} =>
        Applicable(projection[k], inbox[k].events[1])

(* "A cursor gap ... triggers an authoritative channel snapshot": a response *)
(* without one continues the cursor it answers.                             *)
ContinuesCursor ==
    \A k \in Keys : answer[k].kind = "events" /\ answer[k].events # <<>> =>
        answer[k].events[1].sequence = asked[k].cursor.sequence + 1

(* At rest a visible terminal shows what the server shows: its version, its *)
(* writes, and whether its process runs.                                    *)
UpToDate(k) ==
    /\ Version(projection[k]) = Version(Log)
    /\ projection[k].attached /\ 1..shown \subseteq projection[k].cells
    /\ projection[k].running = (process = "running")

Converges == \A k \in Keys : <>[](visible[k] => UpToDate(k))

=============================================================================
