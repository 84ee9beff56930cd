------------------------ MODULE TerminalDeliveryProofs ------------------------
(***************************************************************************)
(* Proofs about TerminalDelivery.  The service's version log is sound      *)
(* (TerminalServiceProofs), so every event on its way tells the truth      *)
(* about its version; a projection that takes only events it can apply     *)
(* therefore stands for the version it names, and an attach response,      *)
(* built while nothing else is on its way, is never older than it.         *)
(*                                                                         *)
(* The second half is about order: without losses, a client's version and  *)
(* the queue the service keeps for it always meet.                         *)
(***************************************************************************)
EXTENDS TerminalDelivery, TerminalServiceProofs

(* A projection shows what its version stands for. *)
Truthful(p, j) ==
    p.attached =>
        /\ p.generation \in 1..Len(j)
        /\ p.sequence + 1 \in 1..Len(j[p.generation])
        /\ \A i \in 1..j[p.generation][p.sequence + 1].writes : i \in p.cells
        /\ p.controller = j[p.generation][p.sequence + 1].controller

(* An attach response is one snapshot, not older than what the client has. *)
AttachOK(a, p) ==
    a.kind = "attach" =>
        /\ Len(a.events) = 1 /\ a.events[1].kind = "snapshot"
        /\ p.attached => NotOlder(a.events[1], p)

ClientTypes ==
    /\ visible \in [Keys -> BOOLEAN] /\ visGeneration \in [Keys -> Nat]
    /\ needsAttach \in [Keys -> BOOLEAN]
    /\ projection \in [Keys -> Projection]
    /\ asked \in [Keys -> Request] /\ late \in [Keys -> Request]
    /\ inbox \in [Keys -> Answer]
    /\ losses \in Nat

(* A client works on one response before it asks again, and nothing answers *)
(* a request it does not wait for.                                          *)
ExchangeOK(k) ==
    /\ asked[k] = NoRequest => answer[k] = NoAnswer
    /\ inbox[k] # NoAnswer => asked[k] = NoRequest /\ inbox[k].events # <<>>
    /\ AttachOK(answer[k], projection[k])
    /\ AttachOK(inbox[k], projection[k])

ClientOK(k) ==
    /\ Truthful(projection[k], journal)
    /\ EventsSound(inbox[k].events, journal)

DeliveryInv ==
    /\ Inv
    /\ ClientTypes
    /\ \A k \in Keys : ExchangeOK(k) /\ ClientOK(k)

-----------------------------------------------------------------------------
(* Projections                                                              *)

(* A truthful projection stays truthful while the journal goes on.          *)
LEMMA TruthStays ==
    ASSUME NEW j1 \in Journals, NEW j2 \in Journals, Follows(j1, j2),
           NEW p \in Projection, Truthful(p, j1)
    PROVE  Truthful(p, j2)
<1> SUFFICES ASSUME p.attached PROVE Truthful(p, j2)
  BY DEF Truthful
<1> DEFINE g == p.generation
           n == p.sequence + 1
<1>1. /\ g \in 1..Len(j1) /\ n \in 1..Len(j1[g])
      /\ \A i \in 1..j1[g][n].writes : i \in p.cells
      /\ p.controller = j1[g][n].controller
  BY DEF Truthful
<1>2. g \in 1..Len(j2) /\ Len(j1[g]) <= Len(j2[g])
  BY <1>1, LenProperties DEF Follows, Journals
<1>3. n \in 1..Len(j2[g])
  <2>1. Len(j1[g]) \in Nat /\ Len(j2[g]) \in Nat
    BY <1>1, <1>2, ElementOfSeq, LenProperties DEF Journals
  <2> QED
    BY <1>1, <1>2, <2>1
<1>4. /\ j2[g][n].controller = j1[g][n].controller
      /\ j2[g][n].writes <= j1[g][n].writes
  BY <1>1 DEF Follows
<1>5. j1[g][n].writes \in Nat /\ j2[g][n].writes \in Nat
  BY <1>1, <1>2, <1>3, JournalEntry
<1>6. 1..j2[g][n].writes \subseteq 1..j1[g][n].writes
  BY <1>4, <1>5
<1> QED
  BY <1>1, <1>2, <1>3, <1>4, <1>6 DEF Truthful

(* A snapshot, or the next delta, turns a truthful projection into one. *)
LEMMA ShowsTruthful ==
    ASSUME NEW j \in Journals, NEW p \in Projection, Truthful(p, j),
           NEW e, EventSound(e, j), NEW cells \in SUBSET Nat,
           \/ e.kind = "snapshot"
           \/ Applicable(p, e) /\ cells = p.cells
    PROVE  Shows(cells, e) \in Projection /\ Truthful(Shows(cells, e), j)
<1> DEFINE g == e.generation
           n == e.sequence
           q == Shows(cells, e)
<1>1. /\ e \in Event /\ g \in 1..Len(j) /\ n + 1 \in 1..Len(j[g])
      /\ e.controller = j[g][n + 1].controller
      /\ n \in Nat /\ g \in Nat /\ e.cells \in SUBSET Nat
      /\ e.controller \in Controllers /\ e.running \in BOOLEAN
  BY DEF EventSound, Event
<1>2. /\ q.attached = TRUE /\ q.generation = g /\ q.sequence = n
      /\ q.controller = e.controller /\ q.running = e.running
      /\ q.cells = IF e.kind \in {"snapshot", "redraw"}
                   THEN e.cells ELSE cells \cup e.cells
  BY DEF Shows
<1>3. q \in Projection
  BY <1>1 DEF Shows, Projection
<1>4. \A i \in 1..j[g][n + 1].writes : i \in q.cells
  <2>1. CASE e.kind \in {"snapshot", "redraw"}
    BY <1>2, <2>1 DEF EventSound
  <2>2. CASE e.kind \notin {"snapshot", "redraw"}
    <3>1. /\ p.attached /\ g = p.generation /\ n = p.sequence + 1
          /\ cells = p.cells
      BY <2>2 DEF Applicable
    <3>2. \A i \in 1..j[g][n].writes : i \in p.cells
      BY <3>1 DEF Truthful
    <3>3. j[g][n + 1].writes \in Nat /\ n \in 1..Len(j[g])
      BY <1>1, <3>1, JournalEntry DEF Truthful
    <3>4. j[g][n].writes \in Nat
      BY <1>1, <3>3, JournalEntry
    <3>5. \A i \in 1..j[g][n + 1].writes :
             i \in e.cells \/ i <= j[g][n].writes
      BY <2>2 DEF EventSound
    <3>6. \A i \in 1..j[g][n + 1].writes :
             i \in e.cells \/ i \in 1..j[g][n].writes
      BY <3>3, <3>4, <3>5
    <3> QED
      BY <1>2, <2>2, <3>1, <3>2, <3>6
  <2> QED
    BY <2>1, <2>2
<1> HIDE DEF q
<1>5. Truthful(q, j)
  BY <1>1, <1>2, <1>4 DEF Truthful
<1> QED
  BY <1>3, <1>5 DEF q

(* No projection is ahead of the server, so its snapshot is not older. *)
LEMMA SnapshotNotOlder ==
    ASSUME NEW log, NEW w, NEW c, LogOK(log, w, c),
           NEW e, e.generation = log.generation, e.sequence = log.sequence,
           NEW p \in Projection, Truthful(p, log.journal), p.attached
    PROVE  NotOlder(e, p)
<1> DEFINE g == log.generation
           n == log.sequence
<1>1. /\ g \in Nat /\ Len(log.journal) = g
      /\ Len(log.journal[g]) = n + 1 /\ n \in Nat
  BY DEF LogOK
<1>2. /\ p.generation \in 1..Len(log.journal)
      /\ p.sequence + 1 \in 1..Len(log.journal[p.generation])
      /\ p.generation \in Nat /\ p.sequence \in Nat
  BY DEF Truthful, Projection
<1>3. p.generation <= g
  BY <1>1, <1>2
<1>4. ASSUME p.generation = g PROVE p.sequence <= n
  BY <1>1, <1>2, <1>4
<1> QED
  BY <1>1, <1>2, <1>3, <1>4 DEF NotOlder

-----------------------------------------------------------------------------
(* The server's side                                                        *)

(* What a handler that answers k responds. *)
Answers(k, live) ==
    \E a : /\ Respond(k, live, a)
           /\ a.kind = "attach" => a.events = <<Snapshot'>>

(* A handler that lets a subscriber in answers that subscriber only ...     *)
LEMMA JoinAnswers ==
    ASSUME NEW k, NEW announces, NEW live,
           NEW outcome \in {"fits", "deferred", "tooLarge"},
           Join(k, announces, outcome, live)
    PROVE  Answers(k, live)
<1>1. CASE outcome = "fits"
  <2>1. /\ Respond(k, live, NewAnswer("attach", <<Snapshot'>>))
        /\ NewAnswer("attach", <<Snapshot'>>).events = <<Snapshot'>>
    BY <1>1 DEF Join, NewAnswer
  <2> QED
    BY <2>1 DEF Answers
<1>2. CASE outcome = "deferred"
  <2>1. /\ Respond(k, live, NewAnswer("deferred", <<>>))
        /\ NewAnswer("deferred", <<>>).kind # "attach"
    BY <1>2 DEF Join, NewAnswer
  <2> QED
    BY <2>1 DEF Answers
<1>3. CASE outcome = "tooLarge"
  <2>1. /\ Respond(k, live, NewAnswer("error", <<>>))
        /\ NewAnswer("error", <<>>).kind # "attach"
    BY <1>3 DEF Join, NewAnswer
  <2> QED
    BY <2>1 DEF Answers
<1> QED
  BY <1>1, <1>2, <1>3

(* ... and so do the other handlers of a poll.                              *)
LEMMA OtherAnswers ==
    ASSUME NEW k, NEW live, NEW cursor, NEW budget, NEW outcome,
           outcome \in {"fits", "deferred", "tooLarge"},
           \/ PollHidden(k, live)
           \/ PollResync(k, cursor, outcome, live)
           \/ PollEvents(k, cursor, budget, live)
           \/ JoinFails(k, live)
    PROVE  Answers(k, live)
<1>1. ASSUME NEW kind \in AnswerKinds \ {"attach"}, NEW events,
             Respond(k, live, NewAnswer(kind, events))
      PROVE  Answers(k, live)
  <2>1. NewAnswer(kind, events).kind # "attach"
    BY DEF NewAnswer
  <2> QED
    BY <1>1, <2>1 DEF Answers
<1>2. CASE PollHidden(k, live)
  BY <1>1, <1>2 DEF PollHidden, AnswerKinds
<1>3. CASE PollResync(k, cursor, outcome, live)
  <2>1. CASE outcome = "fits"
    BY <1>1, <1>3, <2>1 DEF PollResync, AnswerKinds
  <2>2. CASE outcome = "deferred"
    BY <1>1, <1>3, <2>2 DEF PollResync, AnswerKinds
  <2>3. CASE outcome = "tooLarge"
    BY <1>1, <1>3, <2>3 DEF PollResync, AnswerKinds
  <2> QED
    BY <2>1, <2>2, <2>3
<1>4. CASE PollEvents(k, cursor, budget, live)
  <2>1. PICK events : Respond(k, live, NewAnswer("events", events))
    BY <1>4 DEF PollEvents
  <2> QED
    BY <1>1, <2>1 DEF AnswerKinds
<1>5. CASE JoinFails(k, live)
  BY <1>1, <1>5 DEF JoinFails, AnswerKinds
<1> QED
  BY <1>2, <1>3, <1>4, <1>5

(* Serving a poll keeps the service's invariant.                            *)
LEMMA ServeOK ==
    ASSUME Inv, NEW k \in Keys, NEW request, NEW live,
           NEW outcome \in SnapshotOutcomes, NEW budget \in EventBudgets,
           \/ Serve(k, request, outcome, budget, live)
           \/ ServeFails(k, request, live)
    PROVE  Inv' /\ Follows(journal, journal') /\ Answers(k, live)
<1> USE ChoicesAssumption, LimitsAssumption
<1> DEFINE cursor == request.cursor
<1>1. CASE PollHidden(k, live)
  BY <1>1, PollHiddenOK, OtherAnswers
<1>2. CASE PollAttach(k, cursor, outcome, live)
  <2>1. Join(k, TRUE, outcome, live)
    BY <1>2 DEF PollAttach
  <2> QED
    BY <2>1, JoinOK, JoinAnswers
<1>3. CASE PollResync(k, cursor, outcome, live)
  BY <1>3, PollResyncOK, OtherAnswers
<1>4. CASE PollEvents(k, cursor, budget, live)
  BY <1>4, PollEventsOK, OtherAnswers
<1>5. CASE JoinFails(k, live)
  BY <1>5, JoinFailsOK, OtherAnswers
<1> QED
  BY <1>1, <1>2, <1>3, <1>4, <1>5 DEF Serve, ServeFails, PollAttachFails

(* What happens at the terminal keeps it, and answers nobody.               *)
LEMMA TerminalOK ==
    ASSUME Inv, Terminal
    PROVE  Inv' /\ Follows(journal, journal') /\ UNCHANGED answer
<1>1. Inv' /\ Follows(journal, journal')
  BY CommandsOK, RuntimeStepOK DEF Terminal
<1>2. UNCHANGED answer
  <2>1. Runtime => UNCHANGED answer
    BY DEF Runtime, PumpStatus, ProcessExits, RestartTerminal, PumpOutput
  <2>2. ASSUME NEW c \in Clients, Commands(c) PROVE UNCHANGED answer
    BY <2>2 DEF Commands, ExpireClient, Suspend, Input, Resize, ResizeFails,
                TakeControl, Disconnect, Restart, InputWithOutput
  <2> QED
    BY <2>1, <2>2 DEF Terminal
<1> QED
  BY <1>1, <1>2

(* The client's part of the invariant under a step of the server. *)
LEMMA ServerStep ==
    ASSUME DeliveryInv, Inv', Follows(journal, journal'),
           UNCHANGED <<visible, visGeneration, needsAttach, projection,
                       asked, inbox, losses>>,
           late' \in [Keys -> Request],
           \/ UNCHANGED answer
           \/ \E k \in Keys, live \in BOOLEAN :
                 Answers(k, live) /\ (live => asked[k] # NoRequest)
    PROVE  DeliveryInv'
<1>1. ClientTypes'
  BY DEF DeliveryInv, ClientTypes
<1>2. journal \in Journals /\ journal' \in Journals
  BY DEF DeliveryInv, Inv, LogOK, Log, MakeLog
<1>3. ASSUME NEW i \in Keys
      PROVE  /\ Truthful(projection[i], journal)'
             /\ EventsSound(inbox[i].events, journal)'
  <2>1. /\ projection[i] \in Projection /\ Truthful(projection[i], journal)
        /\ EventsSound(inbox[i].events, journal)
    BY DEF DeliveryInv, ClientTypes, ClientOK
  <2>2. Truthful(projection[i], journal')
    BY <1>2, <2>1, TruthStays
  <2>3. EventsSound(inbox[i].events, journal')
    BY <1>2, <2>1, QueuesStaySound
  <2> QED
    BY <2>2, <2>3
<1>4. ASSUME NEW i \in Keys
      PROVE  /\ asked[i] = NoRequest => answer'[i] = NoAnswer
             /\ AttachOK(answer'[i], projection[i])
  <2>1. /\ asked[i] = NoRequest => answer[i] = NoAnswer
        /\ AttachOK(answer[i], projection[i])
    BY DEF DeliveryInv, ExchangeOK
  <2>2. CASE answer'[i] = answer[i]
    BY <2>1, <2>2
  <2>3. CASE answer'[i] # answer[i]
    <3>1. answer \in [Keys -> Answer]
      BY DEF DeliveryInv, Inv, AnswersOK
    <3>2. PICK k \in Keys, live \in BOOLEAN :
             Answers(k, live) /\ (live => asked[k] # NoRequest)
      BY <2>3
    <3>3. PICK a : /\ Respond(k, live, a)
                   /\ a.kind = "attach" => a.events = <<Snapshot'>>
      BY <3>2 DEF Answers
    <3>4. i = k /\ live /\ answer'[i] = a
      BY <2>3, <3>1, <3>3 DEF Respond
    <3>5. ASSUME a.kind = "attach", projection[i].attached
          PROVE  NotOlder(Snapshot', projection[i])
      <4>1. LogOK(Log', shown', controller') /\ Log'.journal = journal'
        BY DEF Inv, Log, MakeLog
      <4>2. /\ Snapshot'.generation = Log'.generation
            /\ Snapshot'.sequence = Log'.sequence
        BY DEF Snapshot, Stamp, Log, MakeLog
      <4>3. Truthful(projection[i], journal')
        BY <1>3
      <4>4. projection[i] \in Projection
        BY DEF DeliveryInv, ClientTypes
      <4> QED
        BY <3>5, <4>1, <4>2, <4>3, <4>4, SnapshotNotOlder
    <3>6. Snapshot'.kind = "snapshot"
      BY DEF Snapshot, Stamp
    <3>7. AttachOK(a, projection[i])
      <4>1. SUFFICES ASSUME a.kind = "attach" PROVE AttachOK(a, projection[i])
        BY DEF AttachOK
      <4>2. Len(a.events) = 1 /\ a.events[1] = Snapshot'
        BY <3>3, <4>1
      <4> QED
        BY <3>5, <3>6, <4>1, <4>2 DEF AttachOK
    <3> QED
      BY <3>2, <3>4, <3>7
  <2> QED
    BY <2>2, <2>3
<1>5. \A i \in Keys : ExchangeOK(i)' /\ ClientOK(i)'
  <2>1. SUFFICES ASSUME NEW i \in Keys
                 PROVE  ExchangeOK(i)' /\ ClientOK(i)'
    OBVIOUS
  <2>2. ExchangeOK(i)'
    BY <1>4 DEF DeliveryInv, ExchangeOK
  <2>3. ClientOK(i)'
    BY <1>3 DEF ClientOK
  <2> QED
    BY <2>2, <2>3
<1> QED
  BY <1>1, <1>5 DEF DeliveryInv

-----------------------------------------------------------------------------
(* The client's side                                                        *)

(* The client's steps leave the service alone, or take its answer. *)
LEMMA ClientStep ==
    ASSUME Inv, AnswersOK',
           UNCHANGED <<logVars, runtimeVars, published, controlVars, completed>>
    PROVE  Inv' /\ UNCHANGED journal
<1>1. /\ LogOK(Log, shown, controller)' /\ ControlOK'
      /\ UNCHANGED journal
  BY LogUntouched DEF runtimeVars, logVars
<1>2. RuntimeOK' /\ completed' \in Seq(Mutations)
  BY DEF Inv, RuntimeOK, runtimeVars
<1> QED
  BY <1>1, <1>2 DEF Inv

(* No answer has nothing in it, and is none to attach by.                   *)
LEMMA NothingSound ==
    /\ NoAnswer \in Answer /\ NoAnswer.events = <<>>
    /\ NoAnswer.kind # "attach"
    /\ \A j : EventsSound(NoAnswer.events, j)
    /\ NoRequest \in Request
<1>1. NoAnswer \in Answer /\ \A j : EventsSound(NoAnswer.events, j)
  BY NewAnswers DEF NoAnswer, AnswerKinds
<1>2. NoAnswer.events = <<>> /\ NoAnswer.kind # "attach"
  BY DEF NoAnswer, NewAnswer
<1>3. NoRequest \in Request
  BY DEF NoRequest, Request, NoCursor
<1> QED
  BY <1>1, <1>2, <1>3

(* Clearing a client's answer. *)
LEMMA AnswerCleared ==
    ASSUME Inv, NEW k \in Keys, answer' = [answer EXCEPT ![k] = NoAnswer],
           UNCHANGED <<logVars, runtimeVars, published, controlVars, completed>>
    PROVE  /\ Inv' /\ UNCHANGED journal
           /\ answer'[k] = NoAnswer
           /\ \A i \in Keys \ {k} : answer'[i] = answer[i]
<1>1. UNCHANGED journal
  BY DEF logVars
<1>2. AnswersOK'
  BY <1>1, NothingSound DEF Inv, AnswersOK
<1>3. Inv'
  BY <1>2, ClientStep
<1> QED
  BY <1>1, <1>3 DEF Inv, AnswersOK

(* A step of a client leaves the service alone.                             *)
LEMMA ServerKept ==
    ASSUME Inv, UNCHANGED serverVars
    PROVE  Inv' /\ UNCHANGED journal /\ UNCHANGED answer
<1>1. /\ UNCHANGED <<logVars, runtimeVars, published, controlVars, completed>>
      /\ UNCHANGED answer /\ UNCHANGED journal
  BY DEF serverVars, logVars
<1>2. AnswersOK'
  BY <1>1 DEF Inv, AnswersOK
<1> QED
  BY <1>1, <1>2, ClientStep

(* Showing and hiding a terminal keeps the invariant.                       *)
LEMMA SetVisibleOK ==
    ASSUME DeliveryInv, NEW k \in Keys, NEW shows \in BOOLEAN,
           SetVisible(k, shows)
    PROVE  DeliveryInv'
<1>1. Inv' /\ UNCHANGED journal /\ UNCHANGED answer
  BY ServerKept DEF SetVisible, DeliveryInv
<1>2. ClientTypes'
  BY DEF SetVisible, DeliveryInv, ClientTypes
<1> QED
  BY <1>1, <1>2 DEF SetVisible, DeliveryInv, ExchangeOK, ClientOK

(* So does sending a poll ...                                               *)
LEMMA SendPollOK ==
    ASSUME DeliveryInv, NEW k \in Keys, SendPoll(k)
    PROVE  DeliveryInv'
<1>1. Inv' /\ UNCHANGED journal /\ UNCHANGED answer
  BY ServerKept DEF SendPoll, DeliveryInv
<1>2. BatchSubscription(k) \in Request
  <2>1. /\ projection[k] \in Projection
        /\ visible[k] \in BOOLEAN /\ visGeneration[k] \in Nat
    BY DEF DeliveryInv, ClientTypes
  <2> QED
    BY <2>1 DEF BatchSubscription, Request, Version, NoCursor, Projection
<1>3. ClientTypes'
  BY <1>2 DEF SendPoll, DeliveryInv, ClientTypes
<1>4. ASSUME NEW i \in Keys PROVE ExchangeOK(i)' /\ ClientOK(i)'
  <2>1. ExchangeOK(i) /\ ClientOK(i)
    BY DEF DeliveryInv
  <2>2. /\ asked[k] = NoRequest /\ inbox[k] = NoAnswer
        /\ UNCHANGED <<inbox, projection>>
        /\ i # k => asked'[i] = asked[i]
    BY DEF SendPoll, DeliveryInv, ClientTypes
  <2>3. answer[k] = NoAnswer
    BY <2>2 DEF DeliveryInv, ExchangeOK
  <2> QED
    BY <1>1, <2>1, <2>2, <2>3 DEF ExchangeOK, ClientOK
<1> QED
  BY <1>1, <1>3, <1>4 DEF DeliveryInv

(* ... and the arrival of its answer.                                       *)
LEMMA DeliverOK ==
    ASSUME DeliveryInv, NEW k \in Keys, Deliver(k)
    PROVE  DeliveryInv'
<1>1. /\ Inv' /\ UNCHANGED journal /\ answer'[k] = NoAnswer
      /\ \A i \in Keys \ {k} : answer'[i] = answer[i]
  BY AnswerCleared DEF Deliver, DeliveryInv
<1>2. /\ answer[k] \in Answer /\ EventsSound(answer[k].events, journal)
  BY DEF DeliveryInv, Inv, AnswersOK
<1>3. /\ inbox' \in [Keys -> Answer]
      /\ \A i \in Keys \ {k} : inbox'[i] = inbox[i]
      /\ \/ inbox'[k] = inbox[k]
         \/ inbox'[k] = answer[k] /\ answer[k].events # <<>>
  BY <1>2 DEF Deliver, DeliveryInv, ClientTypes
<1>4. needsAttach' \in [Keys -> BOOLEAN]
  BY DEF Deliver, DeliveryInv, ClientTypes
<1>5. /\ asked' \in [Keys -> Request] /\ asked'[k] = NoRequest
      /\ \A i \in Keys \ {k} : asked'[i] = asked[i]
  BY NothingSound DEF Deliver, DeliveryInv, ClientTypes
<1>6. UNCHANGED <<visible, visGeneration, projection, late, losses>>
  BY DEF Deliver
<1>7. ClientTypes'
  BY <1>3, <1>4, <1>5, <1>6 DEF DeliveryInv, ClientTypes
<1>8. ASSUME NEW i \in Keys PROVE ExchangeOK(i)' /\ ClientOK(i)'
  <2>1. ExchangeOK(i) /\ ClientOK(i)
    BY DEF DeliveryInv
  <2>2. CASE i # k
    BY <1>1, <1>3, <1>5, <1>6, <2>1, <2>2 DEF ExchangeOK, ClientOK
  <2>3. CASE i = k
    <3>1. AttachOK(NoAnswer, projection[k])
      BY NothingSound DEF AttachOK
    <3>2. ExchangeOK(k)'
      BY <1>1, <1>3, <1>5, <1>6, <2>1, <2>3, <3>1 DEF ExchangeOK
    <3>3. ClientOK(k)'
      BY <1>1, <1>2, <1>3, <1>6, <2>1, <2>3 DEF ClientOK
    <3> QED
      BY <2>3, <3>2, <3>3
  <2> QED
    BY <2>2, <2>3
<1> QED
  BY <1>1, <1>7, <1>8 DEF DeliveryInv

(* A new projection, made while no answer is on its way. *)
LEMMA ProjectionStep ==
    ASSUME DeliveryInv, NEW k \in Keys, inbox[k] # NoAnswer,
           NEW p \in Projection, Truthful(p, journal),
           projection' = [projection EXCEPT ![k] = p],
           NEW a \in Answer, EventsSound(a.events, journal),
           a.kind # "attach", a # NoAnswer => a.events # <<>>,
           inbox' = [inbox EXCEPT ![k] = a],
           needsAttach' \in [Keys -> BOOLEAN],
           UNCHANGED <<serverVars, visible, visGeneration, asked, late, losses>>
    PROVE  DeliveryInv'
<1>1. Inv' /\ UNCHANGED journal /\ UNCHANGED answer
  BY ServerKept DEF DeliveryInv
<1>2. ClientTypes'
  BY DEF DeliveryInv, ClientTypes
<1>3. ASSUME NEW i \in Keys PROVE ExchangeOK(i)' /\ ClientOK(i)'
  <2>1. ExchangeOK(i) /\ ClientOK(i)
    BY DEF DeliveryInv
  <2>2. CASE i # k
    <3>1. projection'[i] = projection[i] /\ inbox'[i] = inbox[i]
      BY <2>2 DEF DeliveryInv, ClientTypes
    <3> QED
      BY <1>1, <2>1, <3>1 DEF ExchangeOK, ClientOK
  <2>3. CASE i = k
    <3>1. projection'[k] = p /\ inbox'[k] = a
      BY DEF DeliveryInv, ClientTypes
    <3>2. asked[k] = NoRequest /\ answer[k] = NoAnswer
      BY <2>1, <2>3 DEF ExchangeOK
    <3>3. AttachOK(NoAnswer, p) /\ AttachOK(a, p)
      BY NothingSound DEF AttachOK
    <3>4. ExchangeOK(k)'
      BY <1>1, <3>1, <3>2, <3>3 DEF ExchangeOK
    <3>5. ClientOK(k)'
      BY <1>1, <3>1 DEF ClientOK
    <3> QED
      BY <2>3, <3>4, <3>5
  <2> QED
    BY <2>2, <2>3
<1> QED
  BY <1>1, <1>2, <1>3 DEF DeliveryInv

(* What applying an event makes of a projection. *)
Newer(p, q) == p.attached => q.attached /\ NotOlder(q, p)

(* An attach response replaces a projection by one that is not older.       *)
LEMMA AcceptAttachOK ==
    ASSUME DeliveryInv, NEW k \in Keys, AcceptAttach(k)
    PROVE  /\ DeliveryInv'
           /\ \A i \in Keys : Newer(projection[i], projection'[i])
<1> DEFINE e == inbox[k].events[1]
           p == Shows({}, e)
<1>1. /\ inbox[k].kind = "attach" /\ inbox[k] # NoAnswer
      /\ projection' = [projection EXCEPT ![k] = p]
      /\ inbox' = [inbox EXCEPT ![k] = NoAnswer]
      /\ UNCHANGED <<serverVars, visible, visGeneration, asked, late, losses>>
  BY NothingSound DEF AcceptAttach
<1>2. /\ Len(inbox[k].events) = 1 /\ e.kind = "snapshot"
      /\ projection[k].attached => NotOlder(e, projection[k])
      /\ EventsSound(inbox[k].events, journal)
  BY <1>1 DEF DeliveryInv, ExchangeOK, ClientOK, AttachOK
<1>3. EventSound(e, journal)
  BY <1>2 DEF EventsSound
<1>4. /\ projection[k] \in Projection /\ Truthful(projection[k], journal)
      /\ journal \in Journals
  BY DEF DeliveryInv, ClientTypes, ClientOK, Inv, LogOK, Log, MakeLog
<1>5. p \in Projection /\ Truthful(p, journal)
  BY <1>2, <1>3, <1>4, ShowsTruthful
<1>6. needsAttach' \in [Keys -> BOOLEAN]
  BY DEF AcceptAttach, DeliveryInv, ClientTypes
<1>7. /\ p.attached = TRUE /\ p.generation = e.generation
      /\ p.sequence = e.sequence
  BY DEF Shows
<1>8. projection[k].attached => NotOlder(p, projection[k])
  BY <1>2, <1>7 DEF NotOlder
<1> HIDE DEF p, e
<1>9. DeliveryInv'
  BY <1>1, <1>5, <1>6, NothingSound, ProjectionStep
<1>10. ASSUME NEW i \in Keys PROVE Newer(projection[i], projection'[i])
  <2>1. projection[i] \in Projection /\ projection \in [Keys -> Projection]
    BY DEF DeliveryInv, ClientTypes
  <2>2. CASE i = k
    BY <1>1, <1>7, <1>8, <2>1, <2>2 DEF Newer
  <2>3. CASE i # k
    BY <1>1, <2>1, <2>3 DEF Newer, NotOlder, Projection
  <2> QED
    BY <2>2, <2>3
<1> QED
  BY <1>9, <1>10

(* An event that continues a projection makes it the next version.          *)
LEMMA ApplyEventOK ==
    ASSUME DeliveryInv, NEW k \in Keys, ApplyEvent(k)
    PROVE  /\ DeliveryInv'
           /\ \A i \in Keys : Newer(projection[i], projection'[i])
<1> DEFINE e == inbox[k].events[1]
           rest == Tail(inbox[k].events)
           p == projection[k]
           q == Shows(p.cells, e)
           a == IF rest = <<>> THEN NoAnswer ELSE NewAnswer(inbox[k].kind, rest)
<1>1. /\ inbox[k].kind \in {"resync", "events"} /\ inbox[k] # NoAnswer
      /\ UNCHANGED <<serverVars, visible, visGeneration, asked, late, losses>>
      /\ needsAttach' \in [Keys -> BOOLEAN]
  <2>1. \/ needsAttach' = needsAttach
        \/ needsAttach' = [needsAttach EXCEPT ![k] = TRUE]
    BY DEF ApplyEvent
  <2>2. needsAttach' \in [Keys -> BOOLEAN]
    BY <2>1 DEF DeliveryInv, ClientTypes
  <2>3. inbox[k].kind \in {"resync", "events"} /\ inbox[k] # NoAnswer
    BY DEF ApplyEvent, NoAnswer, NewAnswer
  <2> QED
    BY <2>2, <2>3 DEF ApplyEvent
<1>2. /\ inbox[k] \in Answer /\ inbox[k].events # <<>>
      /\ inbox[k].events \in Seq(Event)
      /\ EventsSound(inbox[k].events, journal)
  BY <1>1 DEF DeliveryInv, ClientTypes, ExchangeOK, ClientOK, Answer
<1>3. EventSound(e, journal)
  <2>1. 1 \in 1..Len(inbox[k].events)
    BY <1>2, EmptySeq, LenProperties
  <2> QED
    BY <1>2, <2>1 DEF EventsSound
<1>4. rest \in Seq(Event) /\ EventsSound(rest, journal)
  <2>1. /\ rest \in Seq(Event) /\ Len(rest) = Len(inbox[k].events) - 1
        /\ \A i \in 1..Len(rest) : rest[i] = inbox[k].events[i + 1]
    BY <1>2, HeadTailProperties
  <2>2. Len(inbox[k].events) \in Nat
    BY <1>2, LenProperties
  <2> HIDE DEF rest
  <2> QED
    BY <1>2, <2>1, <2>2 DEF EventsSound
<1>5. /\ p \in Projection /\ Truthful(p, journal) /\ journal \in Journals
      /\ p.cells \in SUBSET Nat /\ projection \in [Keys -> Projection]
  BY DEF DeliveryInv, ClientTypes, ClientOK, Inv, LogOK, Log, MakeLog,
         Projection
<1>6. /\ a \in Answer /\ EventsSound(a.events, journal)
      /\ a.kind # "attach" /\ (a # NoAnswer => a.events # <<>>)
  <2> HIDE DEF rest
  <2>1. CASE rest = <<>>
    BY <2>1, NothingSound
  <2>2. CASE rest # <<>>
    BY <1>1, <1>4, <2>2 DEF NewAnswer, Answer, AnswerKinds
  <2> QED
    BY <2>1, <2>2
<1>7. CASE Applicable(p, e)
  <2>1. /\ projection' = [projection EXCEPT ![k] = q]
        /\ inbox' = [inbox EXCEPT ![k] = a]
    BY <1>7 DEF ApplyEvent
  <2>2. q \in Projection /\ Truthful(q, journal)
    BY <1>3, <1>5, <1>7, ShowsTruthful
  <2>3. /\ q.attached = TRUE /\ q.generation = e.generation
        /\ q.sequence = e.sequence
    BY DEF Shows
  <2>4. p.attached => NotOlder(q, p)
    BY <1>5, <1>7, <2>3 DEF Applicable, NotOlder, Projection
  <2> HIDE DEF q, a, e, rest
  <2>5. DeliveryInv'
    BY <1>1, <1>6, <2>1, <2>2, ProjectionStep
  <2>6. ASSUME NEW i \in Keys PROVE Newer(projection[i], projection'[i])
    <3>1. CASE i = k
      BY <1>5, <2>1, <2>3, <2>4, <3>1 DEF Newer
    <3>2. CASE i # k
      BY <1>5, <2>1, <3>2 DEF Newer, NotOlder, Projection
    <3> QED
      BY <3>1, <3>2
  <2> QED
    BY <2>5, <2>6
<1>8. CASE ~Applicable(p, e)
  <2>1. UNCHANGED projection /\ inbox' = [inbox EXCEPT ![k] = NoAnswer]
    BY <1>8 DEF ApplyEvent
  <2>2. projection' = [projection EXCEPT ![k] = p]
    BY <1>5, <2>1
  <2> HIDE DEF p
  <2>3. DeliveryInv'
    BY <1>1, <1>5, <2>1, <2>2, NothingSound, ProjectionStep
  <2>4. \A i \in Keys : Newer(projection[i], projection'[i])
    BY <1>5, <2>1 DEF Newer, NotOlder, Projection
  <2> QED
    BY <2>3, <2>4
<1> QED
  BY <1>7, <1>8

(* A lost exchange keeps the invariant.                                     *)
LEMMA LoseOK ==
    ASSUME DeliveryInv, NEW k \in Keys, Lose(k)
    PROVE  DeliveryInv'
<1>1. /\ Inv' /\ UNCHANGED journal /\ answer'[k] = NoAnswer
      /\ \A i \in Keys \ {k} : answer'[i] = answer[i]
  BY AnswerCleared DEF Lose, DeliveryInv
<1>2. /\ asked' \in [Keys -> Request] /\ asked'[k] = NoRequest
      /\ \A i \in Keys \ {k} : asked'[i] = asked[i]
  BY NothingSound DEF Lose, DeliveryInv, ClientTypes
<1>3. late' \in [Keys -> Request] /\ losses' \in Nat
  BY DEF Lose, DeliveryInv, ClientTypes
<1>4. UNCHANGED <<visible, visGeneration, needsAttach, projection, inbox>>
  BY DEF Lose
<1>5. ClientTypes'
  BY <1>2, <1>3, <1>4 DEF DeliveryInv, ClientTypes
<1>6. ASSUME NEW i \in Keys PROVE ExchangeOK(i)' /\ ClientOK(i)'
  <2>1. ExchangeOK(i) /\ ClientOK(i) /\ AttachOK(NoAnswer, projection[i])
    BY NothingSound DEF DeliveryInv, AttachOK
  <2>2. CASE i # k
    BY <1>1, <1>2, <1>4, <2>1, <2>2 DEF ExchangeOK, ClientOK
  <2>3. CASE i = k
    BY <1>1, <1>2, <1>4, <2>1, <2>3 DEF ExchangeOK, ClientOK
  <2> QED
    BY <2>2, <2>3
<1> QED
  BY <1>1, <1>5, <1>6 DEF DeliveryInv

-----------------------------------------------------------------------------
(* Every step                                                               *)

(* Everything begins with the invariant.                                    *)
LEMMA DeliveryInitOK == DeliveryInit => DeliveryInv
<1> SUFFICES ASSUME DeliveryInit PROVE DeliveryInv
  OBVIOUS
<1>1. Inv /\ \A k \in Keys : answer[k] = NoAnswer
  BY InitOK DEF DeliveryInit, Init
<1>2. Detached \in Projection /\ ~Detached.attached
  BY DEF Detached, Projection, Controllers
<1>3. ClientTypes
  BY <1>2, NothingSound DEF DeliveryInit, ClientTypes
<1>4. \A k \in Keys : ExchangeOK(k) /\ ClientOK(k)
  BY <1>1, <1>2, NothingSound
     DEF DeliveryInit, ExchangeOK, ClientOK, AttachOK, Truthful
<1> QED
  BY <1>1, <1>3, <1>4 DEF DeliveryInv

(* A projection that is left alone does not go back.                        *)
LEMMA SameProjections ==
    ASSUME DeliveryInv, UNCHANGED projection
    PROVE  \A i \in Keys : Newer(projection[i], projection'[i])
BY DEF DeliveryInv, ClientTypes, Newer, NotOlder, Projection

(* No step breaks the invariant or takes a projection back.                 *)
LEMMA DeliveryStepOK ==
    DeliveryInv /\ [DeliveryNext]_vars =>
        /\ DeliveryInv'
        /\ \A i \in Keys : Newer(projection[i], projection'[i])
<1> SUFFICES ASSUME DeliveryInv, [DeliveryNext]_vars
             PROVE  /\ DeliveryInv'
                    /\ \A i \in Keys : Newer(projection[i], projection'[i])
  OBVIOUS
<1>1. Inv /\ late \in [Keys -> Request] /\ asked \in [Keys -> Request]
  BY DEF DeliveryInv, ClientTypes
<1>2. CASE Terminal
  <2>1. /\ Inv' /\ Follows(journal, journal') /\ UNCHANGED answer
        /\ UNCHANGED clientVars
    BY <1>1, <1>2, TerminalOK DEF Terminal
  <2>2. DeliveryInv'
    BY <1>1, <2>1, ServerStep DEF clientVars
  <2> QED
    BY <2>1, <2>2, SameProjections DEF clientVars
<1>3. ASSUME NEW k \in Keys,
             \/ \E shows \in BOOLEAN : SetVisible(k, shows)
             \/ SendPoll(k) \/ Deliver(k) \/ Lose(k)
      PROVE  /\ DeliveryInv'
             /\ \A i \in Keys : Newer(projection[i], projection'[i])
  <2>1. DeliveryInv'
    BY <1>3, SetVisibleOK, SendPollOK, DeliverOK, LoseOK
  <2>2. UNCHANGED projection
    BY <1>3 DEF SetVisible, SendPoll, Deliver, Lose
  <2> QED
    BY <2>1, <2>2, SameProjections
<1>4. ASSUME NEW k \in Keys, AcceptAttach(k) \/ ApplyEvent(k)
      PROVE  /\ DeliveryInv'
             /\ \A i \in Keys : Newer(projection[i], projection'[i])
  BY <1>4, AcceptAttachOK, ApplyEventOK
<1>5. ASSUME NEW k \in Keys,
             NEW outcome \in SnapshotOutcomes, NEW budget \in EventBudgets,
             ServeAsked(k, outcome, budget) \/ ServeLate(k, outcome, budget)
      PROVE  /\ DeliveryInv'
             /\ \A i \in Keys : Newer(projection[i], projection'[i])
  <2>1. PICK request \in Request, live \in BOOLEAN :
           /\ Serve(k, request, outcome, budget, live)
           /\ live => asked[k] # NoRequest
    BY <1>1, <1>5 DEF ServeAsked, ServeLate
  <2>2. Inv' /\ Follows(journal, journal') /\ Answers(k, live)
    BY <1>1, <2>1, ServeOK
  <2>3. /\ UNCHANGED <<visible, visGeneration, needsAttach, projection, asked,
                       inbox, losses>>
        /\ late' \in [Keys -> Request]
    BY <1>1, <1>5, NothingSound DEF ServeAsked, ServeLate, clientVars
  <2>4. DeliveryInv'
    BY <2>1, <2>2, <2>3, ServerStep
  <2> QED
    BY <2>3, <2>4, SameProjections
<1>6. ASSUME NEW k \in Keys, ServeAskedFails(k)
      PROVE  /\ DeliveryInv'
             /\ \A i \in Keys : Newer(projection[i], projection'[i])
  <2>1. /\ PollAttachFails(k, asked[k].cursor, TRUE)
        /\ asked[k] # NoRequest /\ UNCHANGED clientVars
    BY <1>6 DEF ServeAskedFails, ServeFails
  <2>2. JoinFails(k, TRUE)
    BY <2>1 DEF PollAttachFails
  <2>3. Inv' /\ Follows(journal, journal')
    BY <1>1, <2>2, JoinFailsOK
  <2>4. \E live \in BOOLEAN : Answers(k, live) /\ (live => asked[k] # NoRequest)
    <3>1. Answers(k, TRUE)
      BY <2>2, OtherAnswers
    <3> QED
      BY <2>1, <3>1
  <2>5. DeliveryInv'
    BY <1>1, <2>1, <2>3, <2>4, ServerStep DEF clientVars
  <2> QED
    BY <2>1, <2>5, SameProjections DEF clientVars
<1>7. ASSUME NEW k \in Keys, DropLate(k)
      PROVE  /\ DeliveryInv'
             /\ \A i \in Keys : Newer(projection[i], projection'[i])
  <2>1. /\ UNCHANGED <<visible, visGeneration, needsAttach, projection, asked,
                       inbox, losses>>
        /\ late' \in [Keys -> Request] /\ UNCHANGED serverVars
    BY <1>1, <1>7, NothingSound DEF DropLate
  <2>2. Inv' /\ UNCHANGED journal /\ UNCHANGED answer
    BY <1>1, <2>1, ServerKept
  <2>3. Follows(journal, journal')
    BY <1>1, <2>2, LogFacts
  <2>4. DeliveryInv'
    BY <2>1, <2>2, <2>3, ServerStep
  <2> QED
    BY <2>1, <2>4, SameProjections
<1>8. CASE UNCHANGED vars
  <2>1. UNCHANGED serverVars /\ UNCHANGED clientVars
    BY <1>8 DEF vars
  <2>2. Inv' /\ UNCHANGED journal /\ UNCHANGED answer
    BY <1>1, <2>1, ServerKept
  <2>3. Follows(journal, journal')
    BY <1>1, <2>2, LogFacts
  <2>4. DeliveryInv'
    BY <1>1, <2>1, <2>2, <2>3, ServerStep DEF clientVars
  <2> QED
    BY <2>1, <2>4, SameProjections DEF clientVars
<1> QED
  BY <1>2, <1>3, <1>4, <1>5, <1>6, <1>7, <1>8 DEF DeliveryNext

(* What the invariant says of the properties that the runs check.           *)
LEMMA DeliveryInvImplies ==
    DeliveryInv => DeliveryTypeOK /\ TruthfulProjection
<1> SUFFICES ASSUME DeliveryInv PROVE DeliveryTypeOK /\ TruthfulProjection
  OBVIOUS
<1>1. DeliveryTypeOK
  BY DEF DeliveryInv, ClientTypes, DeliveryTypeOK
<1>2. TruthfulProjection
  BY DEF DeliveryInv, ClientOK, Truthful, TruthfulProjection, Stands
<1> QED
  BY <1>1, <1>2

-----------------------------------------------------------------------------
(***************************************************************************)
(* Order.  When no exchange is lost, no clipboard event is suppressed and  *)
(* no attach response is too large, a client's version and its queue at    *)
(* the service always meet: what was emitted since is queued, without a    *)
(* gap, or the subscriber has to resynchronise.                            *)
(***************************************************************************)
Lossless ==
    MaxLosses = 0 /\ TRUE \notin Copies /\ "tooLarge" \notin SnapshotOutcomes

(* A queue ends with the current version and has no gap.                    *)
QueueGapless(q, g, n) ==
    \A i \in 1..Len(q) :
        /\ q[i].kind # "snapshot" /\ q[i].generation = g
        /\ q[i].sequence = n - Len(q) + i

(* No subscriber's queue has a gap.                                         *)
Gapless(log) ==
    \A k \in Keys :
        QueueGapless(log.subscribers[k].queue, log.generation, log.sequence)

(* A subscriber that may be continued has everything after a version.       *)
Meets(s, g, n, v) ==
    s.present /\ ~s.suspended /\ ~s.needsResync /\ v.generation = g =>
        n <= v.sequence + Len(s.queue)

(* The queue of k meets version v.                                          *)
Fed(log, k, v) == Meets(log.subscribers[k], log.generation, log.sequence, v)

(* Events a projection can take one after the other.                        *)
Contiguous(q, p) ==
    \A i \in 1..Len(q) :
        /\ q[i].kind # "snapshot" /\ q[i].generation = p.generation
        /\ q[i].sequence = p.sequence + i

(* The one snapshot of a resync.                                            *)
Resyncs(q, p) ==
    Len(q) = 1 /\ q[1].kind = "snapshot" /\ p.attached /\ NotOlder(q[1], p)

(* A request with a cursor names the client's version, unless the terminal  *)
(* was shown or hidden since, which makes its answer a stale one.           *)
RequestOK(k) ==
    asked[k] # NoRequest =>
        /\ asked[k].visGeneration <= visGeneration[k]
        /\ asked[k].visGeneration # visGeneration[k] => needsAttach[k]
        /\ IF asked[k].cursor = NoCursor
           THEN needsAttach[k] \/ ~projection[k].attached
           ELSE /\ projection[k].attached
                /\ asked[k].cursor = Version(projection[k])
                /\ needsAttach[k] =>
                      asked[k].visGeneration # visGeneration[k]

(* An answer on its way can be worked through when it is taken up.          *)
AnswerOK(k) ==
    LET r == answer[k]
    IN  /\ r.kind = "attach" => Fed(Log, k, Version(r.events[1]))
        /\ r.kind \in {"resync", "events"} => asked[k].cursor # NoCursor
        /\ r.kind = "resync" => Resyncs(r.events, projection[k])
        /\ r.kind = "events" /\ ~needsAttach[k] =>
              Contiguous(r.events, projection[k])
        /\ r.kind \in {"none", "suspended", "deferred", "error"} =>
              r.events = <<>>

(* So can what is left of the one that was.                                 *)
InboxOK(k) ==
    LET r == inbox[k]
    IN  /\ r.kind = "attach" => Fed(Log, k, Version(r.events[1]))
        /\ r.kind = "resync" =>
              needsAttach[k] /\ Resyncs(r.events, projection[k])
        /\ r.kind = "events" =>
              projection[k].attached /\ Contiguous(r.events, projection[k])
        /\ r.kind \in {"none", "attach", "resync", "events"}

(* The version a client will ask with is met by its queue.                  *)
VersionFed(k) ==
    /\ projection[k].attached /\ ~needsAttach[k]
    /\ answer[k].kind \notin {"attach", "resync"} /\ inbox[k].kind # "attach"
    => Fed(Log, k, Version(projection[k]))

(* Nothing is served late when nothing is lost.                             *)
OrderOK(k) ==
    /\ late[k] = NoRequest
    /\ RequestOK(k) /\ AnswerOK(k) /\ InboxOK(k) /\ VersionFed(k)

OrderInv == Gapless(Log) /\ \A k \in Keys : OrderOK(k)

(* Nobody falls behind from one log to the next.                            *)
(* What a cursor names.                                                     *)
Versions == [generation : Nat, sequence : Nat]

(* A later log that leaves nobody behind.                                   *)
Onward(log, log2) ==
    /\ Gapless(log) => Gapless(log2)
    /\ \A k \in Keys, v \in Versions : Fed(log, k, v) => Fed(log2, k, v)

-----------------------------------------------------------------------------
(* The queues                                                               *)

(* An event is queued after the one before it, or costs a resync.           *)
LEMMA OfferInOrder ==
    ASSUME NEW s \in Subscriber, NEW g \in Nat, NEW n \in Nat,
           QueueOK(s, g, n),
           NEW e \in Event, e.kind # "snapshot", e.generation = g,
           e.sequence = n + 1
    PROVE  /\ QueueGapless(s.queue, g, n)
                => QueueGapless(Offer(s, e).queue, g, n + 1)
           /\ \A v \in Versions :
                 Meets(s, g, n, v) => Meets(Offer(s, e), g, n + 1, v)
<1> DEFINE t == Offer(s, e)
           q == Append(s.queue, e)
<1>1. s.queue \in Seq(Event) /\ Len(s.queue) \in Nat
  BY LenProperties DEF Subscriber
<1>2. CASE ~s.present \/ s.suspended \/ s.needsResync
  <2>1. t = s /\ s.queue = <<>>
    BY <1>2 DEF Offer, QueueOK
  <2>2. Len(s.queue) = 0
    BY <2>1, EmptySeq
  <2> QED
    BY <1>2, <2>1, <2>2 DEF QueueGapless, Meets
<1>3. CASE /\ ~(~s.present \/ s.suspended \/ s.needsResync)
           /\ Len(s.queue) >= QueueLimit
  <2>1. t = [s EXCEPT !.queue = <<>>, !.needsResync = TRUE]
    BY <1>3 DEF Offer, RequireResync
  <2>2. t.queue = <<>> /\ t.needsResync
    BY <2>1 DEF Subscriber
  <2>3. Len(t.queue) = 0
    BY <2>2, EmptySeq
  <2> HIDE DEF t
  <2>4. /\ QueueGapless(t.queue, g, n + 1)
        /\ \A v \in Versions : Meets(t, g, n + 1, v)
    BY <2>2, <2>3 DEF QueueGapless, Meets
  <2> QED
    BY <2>4 DEF t
<1>4. CASE /\ ~(~s.present \/ s.suspended \/ s.needsResync)
           /\ ~(Len(s.queue) >= QueueLimit)
  <2>1. t = [s EXCEPT !.queue = q]
    BY <1>4 DEF Offer
  <2>2. t.queue = q
    BY <2>1 DEF Subscriber
  <2>3. /\ Len(q) = Len(s.queue) + 1 /\ q[Len(s.queue) + 1] = e
        /\ \A i \in 1..Len(s.queue) : q[i] = s.queue[i]
    BY <1>1, AppendProperties
  <2> HIDE DEF t, q
  <2> DEFINE m == Len(s.queue)
  <2>4. ASSUME QueueGapless(s.queue, g, n) PROVE QueueGapless(q, g, n + 1)
    <3>1. \A i \in 1..m : /\ s.queue[i].kind # "snapshot"
                          /\ s.queue[i].generation = g
                          /\ s.queue[i].sequence = n - m + i
      BY <2>4 DEF QueueGapless
    <3> SUFFICES ASSUME NEW i \in 1..Len(q)
                 PROVE  /\ q[i].kind # "snapshot" /\ q[i].generation = g
                        /\ q[i].sequence = n + 1 - Len(q) + i
      BY DEF QueueGapless
    <3> HIDE DEF m
    <3>2. m \in Nat /\ Len(q) = m + 1 /\ q[m + 1] = e
      BY <1>1, <2>3 DEF m
    <3>3. CASE i = m + 1
      BY <3>2, <3>3
    <3>4. CASE i # m + 1
      <4>1. i \in 1..m /\ q[i] = s.queue[i]
        BY <2>3, <3>2, <3>4 DEF m
      <4>2. n + 1 - (m + 1) + i = n - m + i
        BY <3>2
      <4> QED
        BY <3>1, <3>2, <4>1, <4>2
    <3> QED
      BY <3>3, <3>4
  <2>5. ASSUME NEW v \in Versions, Meets(s, g, n, v)
        PROVE  Meets(t, g, n + 1, v)
    <3>1. v.sequence \in Nat
      BY DEF Versions
    <3>2. v.generation = g => n <= v.sequence + m
      BY <1>4, <2>5 DEF Meets
    <3>3. m \in Nat /\ Len(t.queue) = m + 1
      BY <1>1, <2>2, <2>3
    <3> HIDE DEF m
    <3>4. v.generation = g => n + 1 <= v.sequence + Len(t.queue)
      BY <3>1, <3>2, <3>3
    <3> QED
      BY <3>4 DEF Meets
  <2> QED
    BY <2>2, <2>4, <2>5 DEF t
<1> QED
  BY <1>2, <1>3, <1>4 DEF t

(* What a log has for every subscriber.                                     *)
LEMMA LogQueues ==
    ASSUME NEW log, NEW w, NEW c, LogOK(log, w, c), NEW k \in Keys
    PROVE  /\ log.generation \in Nat /\ log.sequence \in Nat
           /\ log.subscribers[k] \in Subscriber
           /\ QueueOK(log.subscribers[k], log.generation, log.sequence)
BY DEF LogOK

(* An event everybody is told of leaves nobody behind.                      *)
LEMMA EmitInOrder ==
    ASSUME NEW log, NEW w, NEW c, LogOK(log, w, c),
           NEW kind \in EventKinds \ {"snapshot", "clipboard"},
           NEW cells \in SUBSET Nat, NEW w2, NEW c2 \in Controllers, NEW p
    PROVE  Onward(log, Emit(log, kind, cells, w2, c2, p))
<1> DEFINE g == log.generation
           n == log.sequence
           e == Stamp(kind, g, n + 1, cells, c2, p)
           log2 == Emit(log, kind, cells, w2, c2, p)
<1>0. g \in Nat /\ n \in Nat
  BY DEF LogOK
<1>1. /\ e \in Event /\ e.kind # "snapshot" /\ e.generation = g
      /\ e.sequence = n + 1 /\ e.kind # "clipboard"
  BY <1>0 DEF Stamp, Event, EventKinds
<1>2. /\ log2.generation = g /\ log2.sequence = n + 1
      /\ log2.subscribers = Broadcast(log.subscribers, e)
  BY DEF Emit, MakeLog
<1> HIDE DEF e, log2
<1>3. \A k \in Keys : log2.subscribers[k] = Offer(log.subscribers[k], e)
  BY <1>1, <1>2 DEF Broadcast
<1>4. ASSUME NEW k \in Keys
      PROVE  /\ QueueGapless(log.subscribers[k].queue, g, n)
                  => QueueGapless(log2.subscribers[k].queue, g, n + 1)
             /\ \A v \in Versions :
                   Meets(log.subscribers[k], g, n, v)
                   => Meets(log2.subscribers[k], g, n + 1, v)
  <2> DEFINE s == log.subscribers[k]
  <2>1. s \in Subscriber /\ QueueOK(s, g, n)
    BY LogQueues
  <2> HIDE DEF s, g, n
  <2>2. /\ QueueGapless(s.queue, g, n)
             => QueueGapless(Offer(s, e).queue, g, n + 1)
        /\ \A v \in Versions :
              Meets(s, g, n, v) => Meets(Offer(s, e), g, n + 1, v)
    BY <1>0, <1>1, <2>1, OfferInOrder
  <2>3. log2.subscribers[k] = Offer(s, e)
    BY <1>3 DEF s
  <2> QED
    BY <2>2, <2>3 DEF s
<1>5. Gapless(log) => Gapless(log2)
  BY <1>2, <1>4 DEF Gapless
<1>6. \A k \in Keys, v \in Versions : Fed(log, k, v) => Fed(log2, k, v)
  BY <1>2, <1>4 DEF Fed
<1> QED
  BY <1>5, <1>6 DEF Onward, log2

(* A new generation is continued by nobody.                                 *)
LEMMA GenerationInOrder ==
    ASSUME NEW log, NEW w, NEW c, LogOK(log, w, c), NEW c2
    PROVE  Onward(log, NextGeneration(log, c2))
<1> DEFINE log2 == NextGeneration(log, c2)
<1>1. \A k \in Keys :
         log2.subscribers[k] = RequireResync(log.subscribers[k])
  BY DEF NextGeneration, MakeLog
<1> HIDE DEF log2
<1>2. ASSUME NEW k \in Keys
      PROVE  /\ Len(log2.subscribers[k].queue) = 0
             /\ log2.subscribers[k].present => log2.subscribers[k].needsResync
  <2> DEFINE s == log.subscribers[k]
             t == RequireResync(s)
  <2>1. s \in Subscriber /\ (~s.present => s.queue = <<>>)
    BY LogQueues DEF QueueOK
  <2> HIDE DEF s
  <2>2. t.queue = <<>> /\ (t.present => t.needsResync)
    BY <2>1 DEF RequireResync, Subscriber
  <2> QED
    BY <1>1, <2>2, EmptySeq DEF s
<1> QED
  BY <1>2 DEF Onward, Gapless, QueueGapless, Fed, Meets, log2

(* A log with the same version and subscribers is one with the same order.  *)
LEMMA SameOrder ==
    ASSUME NEW log, NEW log2, log2.generation = log.generation,
           log2.sequence = log.sequence, log2.subscribers = log.subscribers
    PROVE  Onward(log, log2)
BY DEF Onward, Gapless, Fed

(* Two such steps make one.                                                 *)
LEMMA OnwardTransitive ==
    ASSUME NEW l1, NEW l2, NEW l3, Onward(l1, l2), Onward(l2, l3)
    PROVE  Onward(l1, l3)
BY DEF Onward

(* A subscriber with nothing queued takes the place of another: the others  *)
(* are where they were.                                                     *)
LEMMA ReplaceInOrder ==
    ASSUME NEW log, NEW w, NEW c, LogOK(log, w, c), NEW k \in Keys,
           NEW s, QueueGapless(s.queue, log.generation, log.sequence)
    PROVE  LET log2 == SetSubscriber(log, k, s)
           IN  /\ Gapless(log) => Gapless(log2)
               /\ log2.subscribers[k] = s
               /\ log2.generation = log.generation
               /\ log2.sequence = log.sequence
               /\ \A i \in Keys \ {k} :
                     log2.subscribers[i] = log.subscribers[i]
<1> DEFINE log2 == SetSubscriber(log, k, s)
<1>1. /\ log2.generation = log.generation /\ log2.sequence = log.sequence
      /\ log2.subscribers = [log.subscribers EXCEPT ![k] = s]
  BY DEF SetSubscriber, MakeLog
<1> HIDE DEF log2
<1>2. /\ log2.subscribers[k] = s
      /\ \A i \in Keys \ {k} : log2.subscribers[i] = log.subscribers[i]
  BY <1>1 DEF LogOK
<1>3. Gapless(log) => Gapless(log2)
  BY <1>1, <1>2 DEF Gapless
<1> QED
  BY <1>1, <1>2, <1>3 DEF log2

-----------------------------------------------------------------------------
(* The service                                                              *)

(* The log a handler stores is the next one.                                *)
LEMMA StoredInOrder ==
    ASSUME NEW log, Store(log), Onward(Log, log)
    PROVE  Onward(Log, Log')
<1>1. /\ Log'.generation = log.generation /\ Log'.sequence = log.sequence
      /\ Log'.subscribers = log.subscribers
  BY DEF Store, Log, MakeLog
<1> DEFINE log2 == Log'
<1> HIDE DEF log2
<1>2. Onward(log, log2)
  BY <1>1, SameOrder DEF log2
<1> QED
  BY <1>2, OnwardTransitive DEF log2

(* A log that is left alone leaves nobody behind.                           *)
LEMMA UntouchedInOrder ==
    ASSUME UNCHANGED <<generation, sequence, subscribers>>
    PROVE  Onward(Log, Log')
<1>1. /\ Log'.generation = Log.generation /\ Log'.sequence = Log.sequence
      /\ Log'.subscribers = Log.subscribers
  BY DEF Log, MakeLog
<1> DEFINE log2 == Log'
<1> HIDE DEF log2
<1> QED
  BY <1>1, SameOrder DEF log2

(* An event of the current version, whoever controls the terminal.          *)
LEMMA ToldInOrder ==
    ASSUME Inv,
           NEW kind \in EventKinds \ {"snapshot", "clipboard"},
           NEW cells \in SUBSET Nat, NEW w2, NEW c2 \in Controllers, NEW p,
           Store(Emit(Log, kind, cells, w2, c2, p))
    PROVE  Onward(Log, Log')
<1> DEFINE log == Emit(Log, kind, cells, w2, c2, p)
<1>1. Onward(Log, log)
  BY LogFacts, EmitInOrder
<1> HIDE DEF log
<1> QED
  BY <1>1, StoredInOrder DEF log

(* What the shell wrote is told to everybody, unless the clipboard is set.  *)
LEMMA FedInOrder ==
    ASSUME Inv, NEW w \in Nat, NEW hold \in BOOLEAN
    PROVE  Onward(Log, FedLog(w, hold, FALSE))
<1>1. CASE hold
  BY <1>1, SameOrder DEF FedLog
<1>2. CASE ~hold
  <2> DEFINE cells == (shown + 1)..(screen + w)
             n == screen + w
             kind == "delta"
  <2>1. /\ kind \in EventKinds \ {"snapshot", "clipboard"}
        /\ cells \in SUBSET Nat /\ controller \in Controllers
    BY LogFacts DEF EventKinds
  <2>2. FedLog(w, hold, FALSE) = Emit(Log, kind, cells, n, controller, process)
    BY <1>2 DEF FedLog
  <2> HIDE DEF cells, n, kind
  <2>3. Onward(Log, Emit(Log, kind, cells, n, controller, process))
    BY <2>1, LogFacts, EmitInOrder
  <2> QED
    BY <2>2, <2>3
<1> QED
  BY <1>1, <1>2

(* What the terminal's program wrote, pumped or held, is queued in order.   *)
LEMMA OutputInOrder ==
    ASSUME Inv, NEW w \in Nat, NEW hold \in BOOLEAN,
           PumpOutput(w, hold, FALSE)
    PROVE  Onward(Log, Log')
<1> DEFINE writes == IF hold THEN shown ELSE screen + w
           fed == FedLog(w, hold, FALSE)
           kind == "controller"
           told == Emit(fed, kind, {}, writes, controller, process)
<1>1. LogOK(fed, writes, controller) /\ Onward(Log, fed)
  BY FedLogOK, FedInOrder
<1>2. Store(IF process = published THEN fed ELSE told)
  BY DEF PumpOutput
<1>3. /\ controller \in Controllers /\ {} \in SUBSET Nat
      /\ kind \in EventKinds \ {"snapshot", "clipboard"}
  BY LogFacts DEF EventKinds
<1> HIDE DEF fed, writes, kind
<1>4. Onward(fed, told)
  BY <1>1, <1>3, EmitInOrder
<1> HIDE DEF told
<1>5. Onward(Log, told)
  BY <1>1, <1>4, OnwardTransitive
<1> QED
  BY <1>1, <1>2, <1>5, StoredInOrder

(* Restarting the shell, or failing to.                                     *)
LEMMA RestartInOrder ==
    ASSUME Inv, RestartRuntime \/ RestartFails
    PROVE  Onward(Log, Log')
<1>1. CASE RestartRuntime
  <2> DEFINE log == NextGeneration(Log, controller)
  <2>1. Onward(Log, log) /\ Store(log)
    BY <1>1, LogFacts, GenerationInOrder DEF RestartRuntime
  <2> HIDE DEF log
  <2> QED
    BY <2>1, StoredInOrder
<1>2. CASE RestartFails
  <2>1. UNCHANGED <<generation, sequence, subscribers>>
    BY <1>2 DEF RestartFails, Store, Wiped, Log, MakeLog
  <2> QED
    BY <2>1, UntouchedInOrder
<1> QED
  BY <1>1, <1>2

(* A client that goes takes its queues with it.                             *)
LEMMA DisconnectInOrder ==
    ASSUME Inv, NEW c \in Clients, DisconnectClient(c)
    PROVE  Onward(Log, Log')
<1> DEFINE subs == [k \in Keys |-> IF Owner(k) = c THEN Absent
                                   ELSE subscribers[k]]
           left == MakeLog(generation, sequence, journal, subs)
           kind == "controller"
           log == Emit(left, kind, {}, shown, NoClient, process)
<1>1. /\ left.subscribers = subs /\ left.journal = Log.journal
      /\ left.generation = Log.generation /\ left.sequence = Log.sequence
  BY DEF MakeLog, Log
<1>2. \A k \in Keys : subs[k] = Absent \/ subs[k] = Log.subscribers[k]
  BY LogFacts
<1>3. Absent.queue = <<>> /\ ~Absent.present /\ Len(<<>>) = 0
  BY EmptySeq DEF Absent, EmptyQueue
<1>4. subs \in [Keys -> Subscriber]
  BY LogFacts, EmptySubscribers
<1> HIDE DEF subs, left
<1>5. LogOK(left, shown, controller)
  <2>1. \A k \in Keys : /\ QueueOK(subs[k], Log.generation, Log.sequence)
                        /\ EventsSound(subs[k].queue, Log.journal)
    BY <1>2, LogFacts, EmptySubscribers DEF LogOK
  <2> QED
    BY <1>1, <1>4, <2>1, LogFacts DEF LogOK
<1>6. Onward(Log, left)
  <2>1. Gapless(Log) => Gapless(left)
    BY <1>1, <1>2, <1>3 DEF Gapless, QueueGapless
  <2>2. \A k \in Keys, v \in Versions : Fed(Log, k, v) => Fed(left, k, v)
    BY <1>1, <1>2, <1>3 DEF Fed, Meets
  <2> QED
    BY <2>1, <2>2 DEF Onward
<1>7. /\ NoClient \in Controllers /\ {} \in SUBSET Nat
      /\ kind \in EventKinds \ {"snapshot", "clipboard"}
  BY DEF EventKinds, Controllers
<1>8. Store(left) \/ Store(log)
  BY DEF DisconnectClient, left, subs
<1> HIDE DEF kind
<1>9. Onward(left, log)
  BY <1>5, <1>7, EmitInOrder
<1> HIDE DEF log
<1>10. Onward(Log, log)
  BY <1>6, <1>9, OnwardTransitive
<1> QED
  BY <1>6, <1>8, <1>10, StoredInOrder

(* Whatever happens at the terminal, nobody falls behind.                   *)
LEMMA CommandInOrder ==
    ASSUME Inv, Lossless, NEW c \in Clients, Commands(c)
    PROVE  Onward(Log, Log')
<1>1. c \in Controllers /\ controller \in Controllers /\ {} \in SUBSET Nat
  BY LogFacts DEF Controllers
<1>2. /\ "controller" \in EventKinds \ {"snapshot", "clipboard"}
      /\ "redraw" \in EventKinds \ {"snapshot", "clipboard"}
  BY DEF EventKinds
<1>3. CASE ExpireClient(c)
  BY <1>3, DisconnectInOrder DEF ExpireClient
<1>4. ASSUME NEW id \in RequestIds, Suspend(c, id) PROVE Onward(Log, Log')
  BY <1>4, DeliveryAssumption DEF Suspend, Keys
<1>5. ASSUME NEW id \in RequestIds, Input(c, id) PROVE Onward(Log, Log')
  BY <1>5, UntouchedInOrder DEF Input, logVars
<1>6. ASSUME NEW id \in RequestIds, Resize(c, id) PROVE Onward(Log, Log')
  <2> DEFINE n == screen + 1
             cells == 1..n
  <2>1. cells \in SUBSET Nat
    BY LogFacts
  <2>2. Store(Emit(Log, "redraw", cells, n, controller, process))
    BY <1>6 DEF Resize
  <2> HIDE DEF n, cells
  <2> QED
    BY <1>1, <1>2, <2>1, <2>2, ToldInOrder
<1>7. ASSUME NEW id \in RequestIds, ResizeFails(c, id) PROVE Onward(Log, Log')
  BY <1>7, UntouchedInOrder DEF ResizeFails, Store, Wiped, Log, MakeLog
<1>8. ASSUME NEW id \in RequestIds, TakeControl(c, id) PROVE Onward(Log, Log')
  <2>1. CASE controller = c
    BY <1>8, <2>1, UntouchedInOrder DEF TakeControl, logVars
  <2>2. CASE controller # c
    <3>1. Store(Emit(Log, "controller", {}, shown, c, process))
      BY <1>8, <2>2 DEF TakeControl
    <3> QED
      BY <1>1, <1>2, <3>1, ToldInOrder
  <2> QED
    BY <2>1, <2>2
<1>9. ASSUME NEW id \in RequestIds, Disconnect(c, id) PROVE Onward(Log, Log')
  BY <1>9, DisconnectInOrder DEF Disconnect
<1>10. ASSUME NEW id \in RequestIds, Restart(c, id) PROVE Onward(Log, Log')
  BY <1>10, RestartInOrder DEF Restart
<1>11. ASSUME NEW id \in RequestIds, NEW w \in 0..1, NEW hold \in BOOLEAN,
              NEW copied \in Copies, InputWithOutput(c, id, w, hold, copied)
       PROVE  Onward(Log, Log')
  <2>0. w \in Nat
    OBVIOUS
  <2>1. copied = FALSE
    BY <1>11, ChoicesAssumption DEF Lossless
  <2> DEFINE log == FedLog(w, hold, FALSE)
  <2>2. Onward(Log, log) /\ Store(log)
    BY <1>11, <2>0, <2>1, FedInOrder DEF InputWithOutput
  <2> HIDE DEF log
  <2> QED
    BY <2>2, StoredInOrder
<1> QED
  BY <1>3, <1>4, <1>5, <1>6, <1>7, <1>8, <1>9, <1>10, <1>11 DEF Commands

(* Whatever the terminal or a command does, nobody falls behind.            *)
LEMMA TerminalInOrder ==
    ASSUME Inv, Lossless, Terminal
    PROVE  Onward(Log, Log')
<1>1. ASSUME PumpStatus PROVE Onward(Log, Log')
  <2>1. /\ "controller" \in EventKinds \ {"snapshot", "clipboard"}
        /\ controller \in Controllers /\ {} \in SUBSET Nat
    BY LogFacts DEF EventKinds
  <2>2. Store(Emit(Log, "controller", {}, shown, controller, process))
    BY <1>1 DEF PumpStatus
  <2> QED
    BY <2>1, <2>2, ToldInOrder
<1>2. ASSUME ProcessExits PROVE Onward(Log, Log')
  BY <1>2, UntouchedInOrder DEF ProcessExits, logVars
<1>3. ASSUME RestartTerminal PROVE Onward(Log, Log')
  BY <1>3, RestartInOrder DEF RestartTerminal
<1>4. ASSUME NEW w \in 0..1, NEW hold \in BOOLEAN, NEW copied \in Copies,
             PumpOutput(w, hold, copied)
      PROVE  Onward(Log, Log')
  <2>0. w \in Nat
    OBVIOUS
  <2>1. copied = FALSE
    BY <1>4, ChoicesAssumption DEF Lossless
  <2> QED
    BY <1>4, <2>0, <2>1, OutputInOrder
<1> QED
  BY <1>1, <1>2, <1>3, <1>4, CommandInOrder DEF Terminal, Runtime

-----------------------------------------------------------------------------
(* A poll                                                                   *)

(* Letting a subscriber in leaves nobody else behind.                       *)
LEMMA JoinedInOrder ==
    ASSUME Inv, Gapless(Log), NEW k \in Keys
    PROVE  /\ Gapless(JoinedLog(k))
           /\ JoinedLog(k).subscribers[k] = Fresh
           /\ \A i \in Keys \ {k}, v \in Versions :
                 Fed(Log, i, v) => Fed(JoinedLog(k), i, v)
<1> DEFINE w == IF MustRestart THEN 0 ELSE shown
           joined == SetSubscriber(EnsuredLog, k, Fresh)
           kind == "controller"
           claimed == Emit(joined, kind, {}, w, Owner(k), "running")
           final == SetSubscriber(claimed, k, Fresh)
<1>1. LogOK(EnsuredLog, w, controller)
  BY EnsuredLogOK
<1>2. Onward(Log, EnsuredLog)
  <2>1. CASE MustRestart
    BY <2>1, LogFacts, GenerationInOrder DEF EnsuredLog
  <2>2. CASE ~MustRestart
    BY <2>2, SameOrder DEF EnsuredLog
  <2> QED
    BY <2>1, <2>2
<1>3. Len(Fresh.queue) = 0 /\ \A g, n : QueueGapless(Fresh.queue, g, n)
  BY EmptySubscribers, EmptySeq DEF QueueGapless
<1>4. /\ Gapless(EnsuredLog) => Gapless(joined)
      /\ joined.subscribers[k] = Fresh
      /\ joined.generation = EnsuredLog.generation
      /\ joined.sequence = EnsuredLog.sequence
      /\ \A i \in Keys \ {k} :
            joined.subscribers[i] = EnsuredLog.subscribers[i]
  BY <1>1, <1>3, ReplaceInOrder
<1>5. LogOK(joined, w, controller)
  BY <1>1, EmptySubscribers, SetSubscriberOK
<1> HIDE DEF joined
<1>6. /\ Gapless(joined)
      /\ \A i \in Keys \ {k}, v \in Versions :
            Fed(Log, i, v) => Fed(joined, i, v)
  <2>1. \A i \in Keys \ {k}, v \in Versions :
           Fed(EnsuredLog, i, v) => Fed(joined, i, v)
    BY <1>4 DEF Fed
  <2> QED
    BY <1>2, <1>4, <2>1 DEF Onward
<1>7. CASE ~MayClaim(Owner(k))
  <2>1. JoinedLog(k) = joined
    BY <1>7 DEF JoinedLog, joined
  <2> QED
    BY <1>4, <1>6, <2>1
<1>8. CASE MayClaim(Owner(k))
  <2>1. /\ kind \in EventKinds \ {"snapshot", "clipboard"}
        /\ {} \in SUBSET Nat /\ Owner(k) \in Controllers
    BY OwnerClient DEF EventKinds, Controllers
  <2>2. LogOK(claimed, w, Owner(k))
    BY <1>1, <1>5, LogFacts, OwnerClient, ControllerEventOK
  <2>3. JoinedLog(k) = final
    BY <1>8 DEF JoinedLog, joined
  <2> HIDE DEF kind, w
  <2>4. Onward(joined, claimed)
    BY <1>5, <2>1, EmitInOrder
  <2> HIDE DEF claimed
  <2>5. /\ Gapless(claimed) => Gapless(final)
        /\ final.subscribers[k] = Fresh
        /\ final.generation = claimed.generation
        /\ final.sequence = claimed.sequence
        /\ \A i \in Keys \ {k} :
              final.subscribers[i] = claimed.subscribers[i]
    BY <1>3, <2>2, ReplaceInOrder
  <2> HIDE DEF final
  <2>6. \A i \in Keys \ {k}, v \in Versions :
           Fed(claimed, i, v) => Fed(final, i, v)
    BY <2>5 DEF Fed
  <2> QED
    BY <1>6, <2>3, <2>4, <2>5, <2>6 DEF Onward
<1> QED
  BY <1>7, <1>8

(* What serving k does to the log: the others are where they were.          *)
OthersFed(k) ==
    /\ Gapless(Log')
    /\ \A i \in Keys \ {k}, v \in Versions : Fed(Log, i, v) => Fed(Log', i, v)

(* A handler that stores one new subscriber leaves the others' queues.      *)
LEMMA ReplacedInOrder ==
    ASSUME Inv, Gapless(Log), NEW k \in Keys, NEW s,
           QueueGapless(s.queue, generation, sequence),
           Store(SetSubscriber(Log, k, s))
    PROVE  /\ OthersFed(k) /\ Log'.subscribers[k] = s
           /\ Log'.generation = generation /\ Log'.sequence = sequence
<1> DEFINE log == SetSubscriber(Log, k, s)
<1>1. /\ Gapless(log) /\ log.subscribers[k] = s
      /\ log.generation = Log.generation /\ log.sequence = Log.sequence
      /\ \A i \in Keys \ {k} : log.subscribers[i] = Log.subscribers[i]
  BY LogFacts, ReplaceInOrder
<1> HIDE DEF log
<1>2. /\ Log'.generation = log.generation /\ Log'.sequence = log.sequence
      /\ Log'.subscribers = log.subscribers
  BY DEF Store, Log, MakeLog, log
<1>3. Gapless(Log')
  BY <1>1, <1>2 DEF Gapless
<1>4. \A i \in Keys \ {k}, v \in Versions : Fed(Log, i, v) => Fed(Log', i, v)
  BY <1>1, <1>2 DEF Fed
<1> QED
  BY <1>1, <1>2, <1>3, <1>4, LogFacts DEF OthersFed

(* Neither does a poll that joins.                                          *)
LEMMA JoinInOrder ==
    ASSUME Inv, Gapless(Log), NEW k \in Keys, NEW announces, NEW live,
           NEW outcome \in {"fits", "deferred"},
           Join(k, announces, outcome, live)
    PROVE  /\ OthersFed(k)
           /\ Log'.subscribers[k] = IF outcome = "fits" THEN Fresh ELSE Deferred
<1> DEFINE log == JoinedLog(k)
           w == IF MustRestart THEN 0 ELSE shown
           c == IF MayClaim(Owner(k)) THEN Owner(k) ELSE controller
           log2 == SetSubscriber(log, k, Deferred)
           log3 == IF outcome = "deferred" THEN log2 ELSE log
<1>1. /\ Gapless(log) /\ log.subscribers[k] = Fresh
      /\ \A i \in Keys \ {k}, v \in Versions : Fed(Log, i, v) => Fed(log, i, v)
      /\ LogOK(log, w, c)
  BY JoinedInOrder, JoinedLogOK
<1>2. Store(log3)
  BY DEF Join
<1> HIDE DEF log, w, c
<1>3. \A g, n : QueueGapless(Deferred.queue, g, n)
  BY EmptySubscribers, EmptySeq DEF QueueGapless
<1>4. /\ Gapless(log2) /\ log2.subscribers[k] = Deferred
      /\ log2.generation = log.generation /\ log2.sequence = log.sequence
      /\ \A i \in Keys \ {k} : log2.subscribers[i] = log.subscribers[i]
  BY <1>1, <1>3, ReplaceInOrder
<1> HIDE DEF log2
<1>5. \A i \in Keys \ {k}, v \in Versions : Fed(log, i, v) => Fed(log2, i, v)
  BY <1>4 DEF Fed
<1>6. /\ Gapless(log3)
      /\ log3.subscribers[k] = IF outcome = "fits" THEN Fresh ELSE Deferred
      /\ \A i \in Keys \ {k}, v \in Versions : Fed(Log, i, v) => Fed(log3, i, v)
  BY <1>1, <1>4, <1>5
<1> HIDE DEF log3
<1>7. /\ Log'.generation = log3.generation /\ Log'.sequence = log3.sequence
      /\ Log'.subscribers = log3.subscribers
  BY <1>2 DEF Store, Log, MakeLog
<1>8. Gapless(Log')
  BY <1>6, <1>7 DEF Gapless
<1>9. \A i \in Keys \ {k}, v \in Versions : Fed(Log, i, v) => Fed(Log', i, v)
  BY <1>6, <1>7 DEF Fed
<1> QED
  BY <1>6, <1>7, <1>8, <1>9 DEF OthersFed

(* What a poll that finds no answer on its way leaves of k's order.         *)
Served(k) == OthersFed(k) /\ AnswerOK(k)' /\ VersionFed(k)'

(* An answer without events.                                                *)
LEMMA NothingAnswered ==
    ASSUME NEW k \in Keys, NEW kind \in {"suspended", "deferred", "error"},
           answer'[k] = NewAnswer(kind, <<>>)
    PROVE  AnswerOK(k)'
BY DEF AnswerOK, NewAnswer

(* A subscriber that cannot be continued is not behind.                     *)
LEMMA CannotContinue ==
    ASSUME NEW log, NEW k, log.subscribers[k] \in {Suspended, Deferred, Absent}
    PROVE  \A v : Fed(log, k, v)
BY DEF Fed, Meets, Suspended, Deferred, Absent, EmptyQueue

(* A version of the client is one.                                          *)
LEMMA ClientVersions ==
    ASSUME DeliveryInv, NEW k \in Keys
    PROVE  /\ projection[k] \in Projection
           /\ Version(projection[k]) \in Versions
           /\ answer[k].kind = "attach" =>
                 Version(answer[k].events[1]) \in Versions
           /\ inbox[k].kind = "attach" =>
                 Version(inbox[k].events[1]) \in Versions
<1>1. projection[k] \in Projection
  BY DEF DeliveryInv, ClientTypes
<1>2. answer[k] \in Answer /\ inbox[k] \in Answer
  BY DEF DeliveryInv, ClientTypes, Inv, AnswersOK
<1>3. ASSUME NEW r \in Answer, AttachOK(r, projection[k]), r.kind = "attach"
      PROVE  Version(r.events[1]) \in Versions
  <2>1. r.events \in Seq(Event) /\ 1 \in 1..Len(r.events)
    BY <1>3 DEF AttachOK, Answer
  <2>2. /\ r.events[1].sequence \in Nat /\ r.events[1].generation \in Nat
    BY <2>1, QueuedEvent
  <2> QED
    BY <2>2 DEF Version, Versions
<1> QED
  BY <1>1, <1>2, <1>3
     DEF DeliveryInv, ExchangeOK, Version, Versions, Projection

(* Serving a poll that waits.                                               *)
Waits(k) ==
    /\ DeliveryInv /\ Gapless(Log) /\ OrderOK(k)
    /\ asked[k] # NoRequest /\ answer[k] = NoAnswer
    /\ UNCHANGED <<needsAttach, projection, asked, inbox>>

(* A hidden terminal's poll empties its queue and suspends it.              *)
LEMMA HiddenInOrder ==
    ASSUME NEW k \in Keys, Waits(k), PollHidden(k, TRUE)
    PROVE  Served(k)
<1>1. /\ Store(SetSubscriber(Log, k, Suspended))
      /\ answer' = [answer EXCEPT ![k] = NewAnswer("suspended", <<>>)]
      /\ Inv /\ Gapless(Log) /\ answer \in [Keys -> Answer]
  BY DEF PollHidden, Respond, Waits, DeliveryInv, Inv, AnswersOK
<1>2. \A g, n : QueueGapless(Suspended.queue, g, n)
  BY EmptySubscribers, EmptySeq DEF QueueGapless
<1>3. OthersFed(k) /\ Log'.subscribers[k] = Suspended
  BY <1>1, <1>2, ReplacedInOrder
<1>4. AnswerOK(k)'
  BY <1>1, NothingAnswered
<1>5. VersionFed(k)'
  <2> DEFINE log == Log'
  <2> HIDE DEF log
  <2>1. \A v : Fed(log, k, v)
    BY <1>3, CannotContinue DEF log
  <2> QED
    BY <2>1 DEF VersionFed, log
<1> QED
  BY <1>3, <1>4, <1>5 DEF Served

(* An attach brings the current version, and its queue begins there.        *)
LEMMA AttachInOrder ==
    ASSUME NEW k \in Keys, Waits(k), Inv', NEW cursor,
           NEW outcome \in {"fits", "deferred"},
           PollAttach(k, cursor, outcome, TRUE)
    PROVE  Served(k)
<1>1. Join(k, TRUE, outcome, TRUE)
  BY DEF PollAttach
<1>2. /\ OthersFed(k)
      /\ Log'.subscribers[k] = IF outcome = "fits" THEN Fresh ELSE Deferred
  BY <1>1, JoinInOrder DEF Waits, DeliveryInv
<1>3. answer \in [Keys -> Answer]
  BY DEF Waits, DeliveryInv, Inv, AnswersOK
<1>4. CASE outcome = "fits"
  <2> DEFINE e == Snapshot'
             v == Version(e)
             log == Log'
  <2>1. answer'[k] = NewAnswer("attach", <<e>>)
    BY <1>1, <1>3, <1>4 DEF Join, Respond
  <2>2. /\ v.generation = log.generation /\ v.sequence = log.sequence
        /\ log.sequence \in Nat
    <3>1. sequence' \in Nat
      BY DEF Inv, LogOK, Log, MakeLog
    <3> QED
      BY <3>1 DEF Snapshot, Stamp, Version, Log, MakeLog
  <2>3. log.subscribers[k].queue = <<>> /\ Len(<<>>) = 0
    BY <1>2, <1>4, EmptySubscribers, EmptySeq
  <2> HIDE DEF v, log
  <2>4. Fed(log, k, v)
    BY <2>2, <2>3 DEF Fed, Meets
  <2>5. answer'[k].kind = "attach" /\ answer'[k].events[1] = e
    BY <2>1 DEF NewAnswer
  <2> HIDE DEF e
  <2>6. AnswerOK(k)'
    BY <2>4, <2>5 DEF AnswerOK, v, log
  <2>7. VersionFed(k)'
    BY <2>5 DEF VersionFed
  <2> QED
    BY <1>2, <2>6, <2>7 DEF Served
<1>5. CASE outcome = "deferred"
  <2>1. answer'[k] = NewAnswer("deferred", <<>>)
    BY <1>1, <1>3, <1>5 DEF Join, Respond
  <2>2. AnswerOK(k)'
    BY <2>1, NothingAnswered
  <2> DEFINE log == Log'
  <2>3. log.subscribers[k] = Deferred
    BY <1>2, <1>5
  <2> HIDE DEF log
  <2>4. \A v : Fed(log, k, v)
    BY <2>3, CannotContinue
  <2>5. VersionFed(k)'
    BY <2>4 DEF VersionFed, log
  <2> QED
    BY <1>2, <2>2, <2>5 DEF Served
<1> QED
  BY <1>4, <1>5

(* A resync is not older than what the client shows.                        *)
LEMMA ResyncInOrder ==
    ASSUME NEW k \in Keys, Waits(k), NEW outcome \in {"fits", "deferred"},
           PollResync(k, asked[k].cursor, outcome, TRUE)
    PROVE  Served(k)
<1>1. /\ Inv /\ Gapless(Log) /\ answer \in [Keys -> Answer]
      /\ asked[k].cursor # NoCursor /\ projection[k].attached
      /\ projection[k] \in Projection
      /\ asked'[k] = asked[k] /\ projection'[k] = projection[k]
  BY DEF PollResync, CanDeliver, Waits, DeliveryInv, Inv, AnswersOK, OrderOK,
         RequestOK, ClientTypes
<1>2. CASE outcome = "fits"
  <2>1. /\ Store(SetSubscriber(Log, k, Fresh))
        /\ answer'[k] = NewAnswer("resync", <<Snapshot>>)
    BY <1>1, <1>2 DEF PollResync, Respond
  <2>2. \A g, n : QueueGapless(Fresh.queue, g, n)
    BY EmptySubscribers, EmptySeq DEF QueueGapless
  <2>3. OthersFed(k)
    BY <1>1, <2>1, <2>2, ReplacedInOrder
  <2> DEFINE e == Snapshot
  <2>4. /\ e.kind = "snapshot" /\ e.generation = Log.generation
        /\ e.sequence = Log.sequence
    BY DEF Snapshot, Stamp, Log, MakeLog
  <2>5. /\ answer'[k].kind = "resync" /\ answer'[k].events[1] = e
        /\ Len(answer'[k].events) = 1
    BY <2>1 DEF NewAnswer
  <2> HIDE DEF e
  <2>6. Truthful(projection[k], Log.journal)
    BY LogFacts DEF Waits, DeliveryInv, ClientOK
  <2>7. NotOlder(e, projection[k])
    BY <1>1, <2>4, <2>6, LogFacts, SnapshotNotOlder
  <2>8. AnswerOK(k)'
    BY <1>1, <2>4, <2>5, <2>7 DEF AnswerOK, Resyncs
  <2>9. VersionFed(k)'
    BY <2>5 DEF VersionFed
  <2> QED
    BY <2>3, <2>8, <2>9 DEF Served
<1>3. CASE outcome = "deferred"
  <2>1. /\ Store(Log) /\ answer'[k] = NewAnswer("deferred", <<>>)
    BY <1>1, <1>3 DEF PollResync, Respond
  <2>2. Onward(Log, Log')
    BY <2>1, SameOrder, StoredInOrder
  <2>3. OthersFed(k)
    BY <1>1, <2>2 DEF OthersFed, Onward
  <2>4. AnswerOK(k)'
    BY <2>1, NothingAnswered
  <2>5. VersionFed(k)'
    <3>1. answer[k].kind = "none" /\ VersionFed(k)
      BY DEF Waits, OrderOK, NoAnswer, NewAnswer
    <3>2. Version(projection[k]) \in Versions
      BY ClientVersions DEF Waits
    <3>3. UNCHANGED <<needsAttach, projection, inbox>>
      BY DEF Waits
    <3> QED
      BY <2>2, <3>1, <3>2, <3>3 DEF VersionFed, Onward
  <2> QED
    BY <2>3, <2>4, <2>5 DEF Served
<1> QED
  BY <1>2, <1>3

(* What follows a place of a sequence, and what comes before one.           *)
LEMMA TailOf ==
    ASSUME NEW q \in Seq(Event), NEW m \in 0..Len(q)
    PROVE  LET left == SubSeq(q, m + 1, Len(q))
           IN  /\ left \in Seq(Event) /\ Len(left) = Len(q) - m
               /\ Len(left) \in Nat
               /\ \A i \in 1..(Len(q) - m) : left[i] = q[m + i]
<1> DEFINE left == SubSeq(q, m + 1, Len(q))
           n == Len(q)
<1>1. n \in Nat /\ \A i \in 1..n : q[i] \in Event
  BY LenProperties, ElementOfSeq
<1>2. \A i \in (m + 1)..n : q[i] \in Event
  BY <1>1
<1>3. /\ left \in Seq(Event)
      /\ Len(left) = IF m + 1 <= n THEN n - (m + 1) + 1 ELSE 0
      /\ \A i \in 1..(n - (m + 1) + 1) : left[i] = q[(m + 1) + i - 1]
  BY <1>1, <1>2, SubSeqProperties
<1> HIDE DEF left, n
<1>4. m \in Nat /\ m <= n
  BY <1>1 DEF n
<1>5. n - (m + 1) + 1 = n - m /\ \A i \in 1..(n - m) : (m + 1) + i - 1 = m + i
  BY <1>1, <1>4
<1>6. /\ left \in Seq(Event) /\ Len(left) = n - m /\ n - m \in Nat
      /\ \A i \in 1..(n - m) : left[i] = q[m + i]
  BY <1>1, <1>3, <1>4, <1>5
<1> QED
  BY <1>6 DEF left, n

(* The first events of a sequence are the sequence's.                       *)
LEMMA HeadOf ==
    ASSUME NEW q \in Seq(Event), NEW m \in Nat, m <= Len(q)
    PROVE  LET r == SubSeq(q, 1, m)
           IN  /\ r \in Seq(Event) /\ Len(r) = m
               /\ \A i \in 1..m : r[i] = q[i]
<1> DEFINE r == SubSeq(q, 1, m)
<1>1. Len(q) \in Nat /\ \A i \in 1..Len(q) : q[i] \in Event
  BY LenProperties, ElementOfSeq
<1>2. \A i \in 1..m : q[i] \in Event
  BY <1>1
<1>3. /\ r \in Seq(Event)
      /\ Len(r) = IF 1 <= m THEN m - 1 + 1 ELSE 0
      /\ \A i \in 1..(m - 1 + 1) : r[i] = q[1 + i - 1]
  BY <1>2, SubSeqProperties
<1> HIDE DEF r
<1>4. m - 1 + 1 = m /\ \A i \in 1..m : 1 + i - 1 = i
  OBVIOUS
<1>5. /\ r \in Seq(Event) /\ Len(r) = m
      /\ \A i \in 1..m : r[i] = q[i]
  BY <1>3, <1>4
<1> QED
  BY <1>5 DEF r

(* A queue of version n, the first m events of which sequence number s      *)
(* acknowledges; of the rest, a few are sent.                               *)
Acknowledged(q, g, n, m, sent, s) ==
    LET left == SubSeq(q, m + 1, Len(q))
    IN  /\ q \in Seq(Event) /\ g \in Nat /\ n \in Nat /\ m \in 0..Len(q)
        /\ sent \in Nat /\ sent <= Len(left)
        /\ QueueGapless(q, g, n)
        /\ s \in Nat /\ n <= s + Len(q)
        /\ \A i \in 1..m : q[i].sequence <= s
        /\ left # <<>> => left[1].sequence > s

(* Events one after the other, from a version on.                           *)
Continues(q, g, s) ==
    \A i \in 1..Len(q) :
        /\ q[i].kind # "snapshot" /\ q[i].generation = g
        /\ q[i].sequence = s + i

(* What the queue has after a cursor is what the client needs next.         *)
LEMMA QueueAfter ==
    ASSUME NEW q, NEW g, NEW n, NEW m, NEW sent, NEW s,
           Acknowledged(q, g, n, m, sent, s)
    PROVE  LET left == SubSeq(q, m + 1, Len(q))
           IN  /\ n <= s + Len(left)
               /\ Continues(SubSeq(left, 1, sent), g, s)
<1>0. /\ q \in Seq(Event) /\ g \in Nat /\ n \in Nat /\ m \in 0..Len(q)
      /\ sent \in Nat /\ sent <= Len(SubSeq(q, m + 1, Len(q)))
      /\ QueueGapless(q, g, n) /\ s \in Nat /\ n <= s + Len(q)
      /\ \A i \in 1..m : q[i].sequence <= s
  BY DEF Acknowledged
<1> DEFINE left == SubSeq(q, m + 1, Len(q))
           r == SubSeq(left, 1, sent)
           len == Len(q)
<1>1. len \in Nat /\ m \in Nat /\ m <= len
  BY <1>0, LenProperties
<1>2. /\ left \in Seq(Event) /\ Len(left) = len - m
      /\ \A i \in 1..(len - m) : left[i] = q[m + i]
  BY <1>0, <1>1, TailOf DEF len
<1>3. /\ r \in Seq(Event) /\ Len(r) = sent
      /\ \A i \in 1..sent : r[i] = left[i]
  BY <1>0, <1>2, HeadOf
<1> HIDE DEF left, r, len
<1>4. \A i \in 1..len : /\ q[i].kind # "snapshot" /\ q[i].generation = g
                        /\ q[i].sequence = n - len + i
  BY <1>0 DEF QueueGapless, len
<1>5. n - len + m <= s
  <2>1. CASE m = 0
    BY <1>0, <1>1, <2>1 DEF len
  <2>2. CASE m # 0
    <3>1. m \in 1..m /\ m \in 1..len
      BY <1>1, <2>2
    <3>2. q[m].sequence <= s /\ q[m].sequence = n - len + m
      BY <1>0, <1>4, <3>1
    <3> QED
      BY <3>2
  <2> QED
    BY <2>1, <2>2
<1>6. ASSUME m < len PROVE n - len + m = s
  <2>1. 1 \in 1..(len - m) /\ m + 1 \in 1..len
    BY <1>1, <1>6
  <2>2. left # <<>>
    <3>1. Len(left) # 0
      BY <1>1, <1>2, <1>6
    <3> QED
      BY <3>1, EmptySeq
  <2>3. left[1] = q[m + 1] /\ left[1].sequence > s
    BY <1>2, <2>1, <2>2 DEF left, len, Acknowledged
  <2>4. q[m + 1].sequence = n - len + (m + 1)
    BY <1>4, <2>1
  <2>5. n - len + (m + 1) > s
    BY <2>3, <2>4
  <2> QED
    BY <1>0, <1>1, <1>5, <2>5
<1>7. n <= s + Len(left)
  BY <1>0, <1>1, <1>2, <1>5
<1>8. ASSUME NEW i \in 1..Len(r)
      PROVE  /\ r[i].kind # "snapshot" /\ r[i].generation = g
             /\ r[i].sequence = s + i
  <2>1. sent <= len - m
    BY <1>0, <1>2 DEF left, len
  <2>2. i \in 1..sent /\ i \in 1..(len - m) /\ m + i \in 1..len /\ m < len
    BY <1>0, <1>1, <1>3, <2>1
  <2>3. r[i] = q[m + i]
    BY <1>2, <1>3, <2>2
  <2>4. n - len + (m + i) = s + i
    BY <1>0, <1>1, <1>6, <2>2
  <2> QED
    BY <1>4, <2>2, <2>3, <2>4
<1> QED
  BY <1>7, <1>8 DEF left, r, Continues

(* The events that are acknowledged leave the queue without a gap.          *)
LEMMA LeftGapless ==
    ASSUME NEW q \in Seq(Event), NEW g \in Nat, NEW n \in Nat,
           QueueGapless(q, g, n), NEW m \in 0..Len(q)
    PROVE  QueueGapless(SubSeq(q, m + 1, Len(q)), g, n)
<1> DEFINE left == SubSeq(q, m + 1, Len(q))
           len == Len(q)
<1>1. len \in Nat /\ m \in Nat /\ m <= len
  BY LenProperties
<1>2. /\ Len(left) = len - m
      /\ \A i \in 1..(len - m) : left[i] = q[m + i]
  BY <1>1, TailOf DEF len
<1> HIDE DEF left, len
<1>4. \A i \in 1..len : /\ q[i].kind # "snapshot" /\ q[i].generation = g
                        /\ q[i].sequence = n - len + i
  BY DEF QueueGapless, len
<1>5. ASSUME NEW i \in 1..Len(left)
      PROVE  /\ left[i].kind # "snapshot" /\ left[i].generation = g
             /\ left[i].sequence = n - Len(left) + i
  <2>1. i \in 1..(len - m) /\ m + i \in 1..len
    BY <1>1, <1>2
  <2>2. n - len + (m + i) = n - (len - m) + i
    BY <1>1
  <2> QED
    BY <1>2, <1>4, <2>1, <2>2
<1> QED
  BY <1>5 DEF QueueGapless, left

(* The events of a poll continue the client's version.                      *)
LEMMA EventsInOrder ==
    ASSUME NEW k \in Keys, Waits(k), NEW budget \in Nat,
           PollEvents(k, asked[k].cursor, budget, TRUE)
    PROVE  Served(k)
<1> DEFINE s == subscribers[k]
           q == s.queue
           cursor == asked[k].cursor
           p == projection[k]
<1>1. /\ Inv /\ Gapless(Log) /\ answer \in [Keys -> Answer]
      /\ cursor # NoCursor /\ p.attached
      /\ p \in Projection /\ cursor = Version(p)
      /\ asked'[k] = asked[k] /\ projection'[k] = p
      /\ needsAttach' = needsAttach
  BY DEF PollEvents, CanDeliver, Waits, DeliveryInv, Inv, AnswersOK, OrderOK,
         RequestOK, ClientTypes
<1>2. /\ q \in Seq(Event) /\ Len(q) \in Nat /\ s \in Subscriber
      /\ QueueGapless(q, generation, sequence)
      /\ generation \in Nat /\ sequence \in Nat
  <2>1. s \in Subscriber
    BY <1>1, LogFacts
  <2>2. QueueGapless(q, generation, sequence)
    BY <1>1, LogFacts DEF Gapless
  <2> QED
    BY <1>1, <2>1, <2>2, LogFacts, LenProperties DEF Subscriber
<1>3. /\ s.present /\ ~s.suspended /\ ~s.needsResync
      /\ p.generation = generation /\ cursor.sequence = p.sequence
  BY <1>1 DEF PollEvents, CanDeliver, Outdated, Version
<1>4. PICK m \in 0..Len(q) :
         LET left == SubSeq(q, m + 1, Len(q))
             sent == IF budget < Len(left) THEN budget ELSE Len(left)
         IN  /\ \A i \in 1..m : q[i].sequence <= cursor.sequence
             /\ left # <<>> => left[1].sequence > cursor.sequence
             /\ Store(SetSubscriber(Log, k, [s EXCEPT !.queue = left]))
             /\ Respond(k, TRUE, NewAnswer("events", SubSeq(left, 1, sent)))
  BY DEF PollEvents
<1> DEFINE left == SubSeq(q, m + 1, Len(q))
           sent == IF budget < Len(left) THEN budget ELSE Len(left)
           r == SubSeq(left, 1, sent)
           t == [s EXCEPT !.queue = left]
<1>5. /\ t.queue = left /\ t.present = s.present
      /\ t.suspended = s.suspended /\ t.needsResync = s.needsResync
  BY <1>2 DEF Subscriber
<1>6. QueueGapless(left, generation, sequence)
  BY <1>2, LeftGapless
<1>7. /\ Store(SetSubscriber(Log, k, t))
      /\ answer'[k] = NewAnswer("events", r)
  BY <1>1, <1>4 DEF Respond
<1>8. sent \in Nat /\ sent <= Len(left)
  <2>1. Len(left) \in Nat
    BY <1>2, TailOf
  <2> HIDE DEF left
  <2> QED
    BY <2>1
<1>9. ASSUME ~needsAttach[k]
      PROVE  /\ sequence <= p.sequence + Len(left)
             /\ Contiguous(r, p)
  <2>1. sequence <= p.sequence + Len(q)
    <3>1. answer[k].kind = "none" /\ inbox[k].kind = "none"
      BY DEF Waits, NoAnswer, NewAnswer, DeliveryInv, ExchangeOK
    <3>2. Fed(Log, k, Version(p))
      BY <1>1, <1>9, <3>1 DEF Waits, OrderOK, VersionFed
    <3> QED
      BY <1>1, <1>3, <3>2, LogFacts DEF Fed, Meets, Version
  <2>2. p.sequence \in Nat
    BY <1>1 DEF Projection
  <2>3. /\ \A i \in 1..m : q[i].sequence <= p.sequence
        /\ left # <<>> => left[1].sequence > p.sequence
    BY <1>3, <1>4
  <2> DEFINE v == p.sequence
  <2> HIDE DEF q, p, sent, v
  <2>4. /\ sequence <= v + Len(left)
        /\ Continues(r, generation, v)
    <3>1. v \in Nat /\ sequence <= v + Len(q)
      BY <2>1, <2>2 DEF v
    <3>2. /\ \A i \in 1..m : q[i].sequence <= v
          /\ left # <<>> => left[1].sequence > v
      BY <2>3 DEF v
    <3>3. Acknowledged(q, generation, sequence, m, sent, v)
      BY <1>2, <1>8, <3>1, <3>2 DEF Acknowledged
    <3> QED
      BY <3>3, QueueAfter
  <2> QED
    BY <1>3, <2>4 DEF Contiguous, Continues, v
<1> HIDE DEF left, sent, r, t
<1>10. /\ OthersFed(k) /\ Log'.subscribers[k] = t
       /\ Log'.generation = generation /\ Log'.sequence = sequence
  BY <1>1, <1>5, <1>6, <1>7, ReplacedInOrder
<1>11. AnswerOK(k)'
  <2>1. answer'[k].kind = "events" /\ answer'[k].events = r
    BY <1>7 DEF NewAnswer
  <2> QED
    BY <1>1, <1>9, <2>1 DEF AnswerOK
<1>12. VersionFed(k)'
  <2>1. SUFFICES ASSUME ~needsAttach[k]
                 PROVE  Fed(Log, k, Version(projection[k]))'
    BY <1>1 DEF VersionFed
  <2> DEFINE log == Log'
  <2> HIDE DEF log, p
  <2>2. Fed(log, k, Version(p))
    BY <1>5, <1>9, <1>10, <2>1 DEF Fed, Meets, Version, log
  <2> QED
    BY <1>1, <2>2 DEF log, p
<1> QED
  BY <1>10, <1>11, <1>12 DEF Served

(* A refused poll leaves everything as it was, or a generation later.       *)
LEMMA RefusedInOrder ==
    ASSUME NEW k \in Keys, Waits(k), JoinFails(k, TRUE)
    PROVE  Served(k)
<1>1. Onward(Log, Log')
  <2>1. CASE MustRestart
    BY <2>1, RestartInOrder DEF JoinFails, Waits, DeliveryInv
  <2>2. CASE ~MustRestart
    BY <2>2, UntouchedInOrder DEF JoinFails, logVars
  <2> QED
    BY <2>1, <2>2
<1>2. answer'[k] = NewAnswer("error", <<>>)
  BY DEF JoinFails, Respond, Waits, DeliveryInv, Inv, AnswersOK
<1>3. OthersFed(k)
  BY <1>1 DEF OthersFed, Onward, Waits
<1>4. AnswerOK(k)'
  BY <1>2, NothingAnswered
<1>5. VersionFed(k)'
  <2>1. answer[k].kind = "none" /\ VersionFed(k)
    BY DEF Waits, OrderOK, NoAnswer, NewAnswer
  <2>2. Version(projection[k]) \in Versions
    BY ClientVersions DEF Waits
  <2>3. UNCHANGED <<needsAttach, projection, inbox>>
    BY DEF Waits
  <2> QED
    BY <1>1, <2>1, <2>2, <2>3 DEF VersionFed, Onward
<1> QED
  BY <1>3, <1>4, <1>5 DEF Served

-----------------------------------------------------------------------------
(* Order, step by step                                                      *)

(* A step of the log leaves k's versions met by its queue.                  *)
StaysFed(k) == \A v \in Versions : Fed(Log, k, v) => Fed(Log', k, v)

(* A client that is left alone keeps its order while the log goes on.       *)
LEMMA OrderKept ==
    ASSUME DeliveryInv, NEW i \in Keys, OrderOK(i), StaysFed(i),
           asked'[i] = asked[i], answer'[i] = answer[i],
           inbox'[i] = inbox[i], needsAttach'[i] = needsAttach[i],
           projection'[i] = projection[i],
           visGeneration'[i] = visGeneration[i], late'[i] = late[i]
    PROVE  OrderOK(i)'
<1> DEFINE log == Log'
           v == Version(projection[i])
           x == Version(answer[i].events[1])
           y == Version(inbox[i].events[1])
<1>1. /\ v \in Versions
      /\ answer[i].kind = "attach" => x \in Versions
      /\ inbox[i].kind = "attach" => y \in Versions
  BY ClientVersions
<1>2. /\ Fed(Log, i, v) => Fed(log, i, v)
      /\ answer[i].kind = "attach" /\ Fed(Log, i, x) => Fed(log, i, x)
      /\ inbox[i].kind = "attach" /\ Fed(Log, i, y) => Fed(log, i, y)
  <2> HIDE DEF log, v, x, y
  <2> QED
    BY <1>1 DEF StaysFed, log
<1> HIDE DEF log
<1>3. RequestOK(i)' /\ late'[i] = NoRequest
  BY DEF OrderOK, RequestOK
<1>4. AnswerOK(i)'
  BY <1>2 DEF OrderOK, AnswerOK, log
<1>5. InboxOK(i)'
  BY <1>2 DEF OrderOK, InboxOK, log
<1>6. VersionFed(i)'
  BY <1>2 DEF OrderOK, VersionFed, log
<1> QED
  BY <1>3, <1>4, <1>5, <1>6 DEF OrderOK

(* The service's log, untouched, keeps meeting every version.               *)
LEMMA UntouchedFed ==
    ASSUME UNCHANGED logVars, Gapless(Log)
    PROVE  Gapless(Log') /\ \A k \in Keys : StaysFed(k)
BY UntouchedInOrder DEF logVars, Onward, StaysFed

(* A step of the terminal or of a command.                                  *)
LEMMA TerminalOrder ==
    ASSUME DeliveryInv, Lossless, OrderInv, Terminal
    PROVE  OrderInv'
<1>1. /\ Onward(Log, Log') /\ UNCHANGED answer /\ UNCHANGED clientVars
  BY TerminalInOrder, TerminalOK DEF DeliveryInv, Terminal
<1>2. Gapless(Log)' /\ \A k \in Keys : StaysFed(k)
  BY <1>1 DEF OrderInv, Onward, StaysFed
<1>3. ASSUME NEW i \in Keys PROVE OrderOK(i)'
  BY <1>1, <1>2, OrderKept DEF OrderInv, clientVars
<1> QED
  BY <1>2, <1>3 DEF OrderInv

(* A poll that waits is served, or refused for want of a shell.             *)
LEMMA ServedOrder ==
    ASSUME DeliveryInv, Lossless, OrderInv, NEW k \in Keys,
           \/ ServeAskedFails(k)
           \/ \E outcome \in SnapshotOutcomes, budget \in EventBudgets :
                 ServeAsked(k, outcome, budget)
    PROVE  OrderInv'
<1>1. /\ Waits(k) /\ Inv /\ OrderOK(k)
      /\ UNCHANGED clientVars
  BY DEF ServeAsked, ServeAskedFails, Waits, clientVars, OrderInv, DeliveryInv
<1>2. Served(k) /\ Answers(k, TRUE)
  <2>1. CASE ServeAskedFails(k)
    <3>1. JoinFails(k, TRUE)
      BY <2>1 DEF ServeAskedFails, ServeFails, PollAttachFails
    <3> QED
      BY <1>1, <3>1, RefusedInOrder, OtherAnswers
  <2>2. ASSUME NEW outcome \in SnapshotOutcomes, NEW budget \in EventBudgets,
               ServeAsked(k, outcome, budget)
        PROVE  Served(k) /\ Answers(k, TRUE)
    <3>1. outcome \in {"fits", "deferred"} /\ budget \in Nat
      BY ChoicesAssumption, LimitsAssumption DEF Lossless
    <3>2. /\ Serve(k, asked[k], outcome, budget, TRUE)
      BY <2>2 DEF ServeAsked
    <3>3. Inv' /\ Answers(k, TRUE)
      BY <1>1, <3>2, ServeOK
    <3>4. CASE PollHidden(k, TRUE)
      BY <1>1, <3>3, <3>4, HiddenInOrder
    <3>5. CASE PollAttach(k, asked[k].cursor, outcome, TRUE)
      BY <1>1, <3>1, <3>3, <3>5, AttachInOrder
    <3>6. CASE PollResync(k, asked[k].cursor, outcome, TRUE)
      BY <1>1, <3>1, <3>3, <3>6, ResyncInOrder
    <3>7. CASE PollEvents(k, asked[k].cursor, budget, TRUE)
      BY <1>1, <3>1, <3>3, <3>7, EventsInOrder
    <3> QED
      BY <3>2, <3>4, <3>5, <3>6, <3>7 DEF Serve
  <2> QED
    BY <2>1, <2>2
<1>3. ASSUME NEW i \in Keys PROVE OrderOK(i)'
  <2>1. CASE i = k
    <3>1. /\ RequestOK(k)' /\ late'[k] = NoRequest
      BY <1>1 DEF OrderOK, RequestOK, clientVars
    <3>2. inbox'[k] = NoAnswer
      BY <1>1 DEF Waits, DeliveryInv, ExchangeOK, clientVars
    <3>3. InboxOK(k)'
      BY <3>2 DEF InboxOK, NoAnswer, NewAnswer
    <3> QED
      BY <1>2, <2>1, <3>1, <3>3 DEF Served, OrderOK
  <2>2. CASE i # k
    <3>1. StaysFed(i)
      BY <1>2, <2>2 DEF Served, OthersFed, StaysFed
    <3>2. answer'[i] = answer[i]
      BY <1>1, <1>2, <2>2 DEF Answers, Respond, Inv, AnswersOK
    <3> QED
      BY <1>1, <3>1, <3>2, OrderKept DEF OrderInv, clientVars
  <2> QED
    BY <2>1, <2>2
<1> QED
  BY <1>2, <1>3 DEF Served, OthersFed, OrderInv

(* A step of k's client leaves the log and the other clients alone.         *)
Alone(k) ==
    /\ UNCHANGED logVars
    /\ \A i \in Keys \ {k} :
          /\ asked'[i] = asked[i] /\ answer'[i] = answer[i]
          /\ inbox'[i] = inbox[i] /\ needsAttach'[i] = needsAttach[i]
          /\ projection'[i] = projection[i]
          /\ visGeneration'[i] = visGeneration[i] /\ late'[i] = late[i]

(* It is enough, then, to look at k.                                        *)
LEMMA ClientOrder ==
    ASSUME DeliveryInv, OrderInv, NEW k \in Keys, Alone(k), OrderOK(k)'
    PROVE  OrderInv'
<1>1. Gapless(Log)' /\ \A i \in Keys : StaysFed(i)
  BY UntouchedFed DEF Alone, OrderInv
<1>2. ASSUME NEW i \in Keys \ {k} PROVE OrderOK(i)'
  BY <1>1, <1>2, OrderKept DEF Alone, OrderInv
<1> QED
  BY <1>1, <1>2 DEF OrderInv

(* A version that was met still is.                                         *)
LEMMA SameFed ==
    ASSUME UNCHANGED logVars
    PROVE  \A k, v : Fed(Log, k, v) = Fed(Log', k, v)
<1>1. /\ Log'.generation = Log.generation /\ Log'.sequence = Log.sequence
      /\ Log'.subscribers = Log.subscribers
  BY DEF Log, MakeLog, logVars
<1> QED
  BY <1>1 DEF Fed

(* Showing or hiding a terminal makes the next request ask for an attach.   *)
LEMMA SetVisibleOrder ==
    ASSUME DeliveryInv, OrderInv, NEW k \in Keys, NEW shows \in BOOLEAN,
           SetVisible(k, shows)
    PROVE  OrderInv'
<1>1. /\ UNCHANGED <<logVars, answer, projection, asked, inbox, late>>
      /\ needsAttach'[k] = TRUE /\ visGeneration'[k] = visGeneration[k] + 1
      /\ visGeneration[k] \in Nat /\ OrderOK(k)
  BY DEF SetVisible, serverVars, DeliveryInv, ClientTypes, OrderInv
<1>2. Alone(k)
  BY <1>1 DEF SetVisible, DeliveryInv, ClientTypes, Alone
<1>3. RequestOK(k)'
  <2>1. asked[k].visGeneration \in Nat
    BY DEF DeliveryInv, ClientTypes, Request
  <2> QED
    BY <1>1, <2>1 DEF OrderOK, RequestOK
<1>4. AnswerOK(k)' /\ InboxOK(k)'
  <2> DEFINE log == Log'
  <2>1. \A v : Fed(Log, k, v) = Fed(log, k, v)
    BY <1>1, SameFed
  <2> HIDE DEF log
  <2>2. AnswerOK(k)'
    BY <1>1, <2>1 DEF OrderOK, AnswerOK, log
  <2>3. InboxOK(k)'
    BY <1>1, <2>1 DEF OrderOK, InboxOK, log
  <2> QED
    BY <2>2, <2>3
<1>5. VersionFed(k)'
  BY <1>1 DEF VersionFed
<1> QED
  BY <1>1, <1>2, <1>3, <1>4, <1>5, ClientOrder DEF OrderOK

(* A request asks with the client's version, or for an attach.              *)
LEMMA SendPollOrder ==
    ASSUME DeliveryInv, OrderInv, NEW k \in Keys, SendPoll(k)
    PROVE  OrderInv'
<1>1. /\ UNCHANGED <<logVars, answer, projection, inbox, late>>
      /\ UNCHANGED <<needsAttach, visGeneration>>
      /\ asked'[k] = BatchSubscription(k)
      /\ visGeneration[k] \in Nat /\ OrderOK(k)
  BY DEF SendPoll, serverVars, DeliveryInv, ClientTypes, OrderInv
<1>2. Alone(k)
  BY <1>1 DEF SendPoll, DeliveryInv, ClientTypes, Alone
<1>3. RequestOK(k)'
  <2>1. projection[k].attached => Version(projection[k]) # NoCursor
    <3>1. projection[k].attached => projection[k].generation \in 1..Len(journal)
      BY DEF DeliveryInv, ClientOK, Truthful
    <3> QED
      BY <3>1 DEF Version, NoCursor
  <2>2. CASE ~needsAttach[k] /\ projection[k].attached
    <3>1. /\ asked'[k].visGeneration = visGeneration[k]
          /\ asked'[k].cursor = Version(projection[k])
      BY <1>1, <2>2 DEF BatchSubscription
    <3> QED
      BY <1>1, <2>1, <2>2, <3>1 DEF RequestOK
  <2>3. CASE ~(~needsAttach[k] /\ projection[k].attached)
    <3>1. /\ asked'[k].visGeneration = visGeneration[k]
          /\ asked'[k].cursor = NoCursor
      BY <1>1, <2>3 DEF BatchSubscription
    <3>2. needsAttach'[k] \/ ~projection'[k].attached
      BY <1>1, <2>3
    <3>3. /\ asked'[k].visGeneration <= visGeneration'[k]
          /\ asked'[k].visGeneration = visGeneration'[k]
      BY <1>1, <3>1
    <3> QED
      BY <3>1, <3>2, <3>3, Zenon DEF RequestOK
  <2> QED
    BY <2>2, <2>3
<1>4. answer[k] = NoAnswer /\ answer'[k] = NoAnswer /\ inbox'[k] = NoAnswer
  BY <1>1 DEF SendPoll, DeliveryInv, ExchangeOK
<1>5. AnswerOK(k)' /\ InboxOK(k)'
  BY <1>4 DEF AnswerOK, InboxOK, NoAnswer, NewAnswer
<1>6. VersionFed(k)'
  BY <1>1, SameFed DEF OrderOK, VersionFed
<1> QED
  BY <1>1, <1>2, <1>3, <1>5, <1>6, ClientOrder DEF OrderOK

(* An answer that is taken up is one the client can work through; one that  *)
(* is dropped leaves the client asking as before, or for an attach.         *)
LEMMA DeliverOrder ==
    ASSUME DeliveryInv, OrderInv, NEW k \in Keys, Deliver(k)
    PROVE  OrderInv'
<1>1. /\ UNCHANGED <<logVars, projection, visGeneration, late>>
      /\ answer'[k] = NoAnswer /\ asked'[k] = NoRequest
      /\ asked[k] # NoRequest /\ inbox[k] = NoAnswer
      /\ answer[k] \in Answer /\ OrderOK(k)
  <2>1. answer'[k] = NoAnswer /\ answer[k] \in Answer
    BY DEF Deliver, DeliveryInv, Inv, AnswersOK
  <2>2. asked'[k] = NoRequest /\ asked[k] # NoRequest
    BY DEF Deliver, DeliveryInv, ClientTypes
  <2>3. inbox[k] = NoAnswer
    BY <2>2 DEF DeliveryInv, ExchangeOK
  <2> QED
    BY <2>1, <2>2, <2>3 DEF Deliver, OrderInv
<1>2. Alone(k)
  BY <1>1 DEF Deliver, DeliveryInv, Inv, AnswersOK, ClientTypes, Alone
<1>3. RequestOK(k)' /\ AnswerOK(k)'
  BY <1>1 DEF RequestOK, AnswerOK, NoAnswer, NewAnswer
<1> DEFINE log == Log'
           r == answer[k]
<1>4. \A v : Fed(Log, k, v) = Fed(log, k, v)
  BY <1>1, SameFed
<1>5. /\ r.kind = "attach" => r.events # <<>>
      /\ r.kind = "resync" => r.events # <<>>
  <2>1. r.kind = "attach" => Len(r.events) = 1
    BY DEF DeliveryInv, ExchangeOK, AttachOK
  <2>2. r.kind = "resync" => Len(r.events) = 1
    BY <1>1 DEF OrderOK, AnswerOK, Resyncs
  <2> QED
    BY <2>1, <2>2, EmptySeq
<1> HIDE DEF log
<1>6. CASE asked[k].visGeneration = visGeneration[k] /\ r.events # <<>>
  <2>1. /\ inbox'[k] = r
        /\ needsAttach'[k] = (needsAttach[k] \/ r.kind = "resync")
    BY <1>6 DEF Deliver, DeliveryInv, ClientTypes
  <2>2. r.kind \in {"none", "attach", "resync", "events"}
    BY <1>1, <1>6 DEF OrderOK, AnswerOK, Answer, AnswerKinds
  <2>3. r.kind = "events" => projection[k].attached /\ ~needsAttach[k]
    BY <1>1, <1>6 DEF OrderOK, AnswerOK, RequestOK
  <2>4. InboxOK(k)'
    BY <1>1, <1>4, <2>1, <2>2, <2>3 DEF OrderOK, AnswerOK, InboxOK, log
  <2>5. VersionFed(k)'
    <3>1. r.kind = "attach" \/ r.kind = "resync" => VersionFed(k)'
      BY <2>1 DEF VersionFed
    <3>2. r.kind \notin {"attach", "resync"} => VersionFed(k)'
      BY <1>1, <1>4, <2>1 DEF VersionFed, OrderOK, log, NoAnswer, NewAnswer
    <3> QED
      BY <3>1, <3>2
  <2> QED
    BY <1>1, <1>2, <1>3, <2>4, <2>5, ClientOrder DEF OrderOK
<1>7. CASE ~(asked[k].visGeneration = visGeneration[k] /\ r.events # <<>>)
  <2>1. UNCHANGED <<inbox, needsAttach>>
    BY <1>7 DEF Deliver
  <2>2. InboxOK(k)'
    BY <1>1, <2>1 DEF InboxOK, NoAnswer, NewAnswer
  <2>3. r.kind \in {"attach", "resync"} => needsAttach[k]
    BY <1>1, <1>5, <1>7 DEF OrderOK, RequestOK
  <2>4. VersionFed(k)'
    BY <1>1, <1>4, <2>1, <2>3 DEF VersionFed, OrderOK, log, NoAnswer, NewAnswer
  <2> QED
    BY <1>1, <1>2, <1>3, <2>2, <2>4, ClientOrder DEF OrderOK
<1> QED
  BY <1>6, <1>7

(* An accepted attach brings a version that the queue meets.                *)
LEMMA AcceptAttachOrder ==
    ASSUME DeliveryInv, OrderInv, NEW k \in Keys, AcceptAttach(k)
    PROVE  OrderInv'
<1> DEFINE e == inbox[k].events[1]
<1>1. /\ UNCHANGED <<logVars, answer, visGeneration, asked, late>>
      /\ projection'[k] = Shows({}, e) /\ inbox'[k] = NoAnswer
      /\ inbox[k].kind = "attach" /\ OrderOK(k)
      /\ asked[k] = NoRequest /\ answer[k] = NoAnswer
  <2>1. asked[k] = NoRequest /\ answer[k] = NoAnswer
    BY DEF AcceptAttach, DeliveryInv, ExchangeOK, NoAnswer, NewAnswer
  <2> QED
    BY <2>1 DEF AcceptAttach, serverVars, DeliveryInv, ClientTypes, OrderInv
<1>2. Alone(k)
  BY <1>1 DEF AcceptAttach, DeliveryInv, ClientTypes, Alone
<1>3. RequestOK(k)' /\ AnswerOK(k)' /\ InboxOK(k)'
  BY <1>1 DEF RequestOK, AnswerOK, InboxOK, NoAnswer, NewAnswer
<1> DEFINE log == Log'
<1>4. \A v : Fed(Log, k, v) = Fed(log, k, v)
  BY <1>1, SameFed
<1>5. Version(projection'[k]) = Version(e)
  BY <1>1 DEF Shows, Version
<1> HIDE DEF log, e
<1>6. VersionFed(k)'
  BY <1>1, <1>4, <1>5 DEF VersionFed, OrderOK, InboxOK, log, e
<1> QED
  BY <1>1, <1>2, <1>3, <1>6, ClientOrder DEF OrderOK

(* The first of a row of events applies, and the rest go on from there.     *)
LEMMA FirstApplies ==
    ASSUME NEW q \in Seq(Event), q # <<>>, NEW p \in Projection,
           p.attached, Contiguous(q, p), NEW cells
    PROVE  /\ Applicable(p, q[1]) /\ q[1].kind # "snapshot"
           /\ q[1].generation = p.generation
           /\ q[1].sequence = p.sequence + 1
           /\ Contiguous(Tail(q), Shows(cells, q[1]))
<1> DEFINE rest == Tail(q)
           next == Shows(cells, q[1])
<1>1. /\ Len(q) \in Nat /\ Len(q) >= 1 /\ Len(rest) = Len(q) - 1
      /\ \A i \in 1..Len(rest) : rest[i] = q[i + 1]
  BY HeadTailProperties, EmptySeq, LenProperties
<1>2. /\ q[1].kind # "snapshot" /\ q[1].generation = p.generation
      /\ q[1].sequence = p.sequence + 1
  BY <1>1 DEF Contiguous
<1>3. /\ next.generation = p.generation /\ next.sequence = p.sequence + 1
      /\ p.sequence \in Nat
  BY <1>2 DEF Shows, Projection
<1>4. Applicable(p, q[1])
  BY <1>2 DEF Applicable
<1> HIDE DEF rest, next
<1>5. ASSUME NEW i \in 1..Len(rest)
      PROVE  /\ rest[i].kind # "snapshot"
             /\ rest[i].generation = next.generation
             /\ rest[i].sequence = next.sequence + i
  <2>1. i + 1 \in 1..Len(q) /\ rest[i] = q[i + 1] /\ i \in Nat
    BY <1>1
  <2>2. p.sequence + (i + 1) = next.sequence + i
    BY <1>3, <2>1
  <2> QED
    BY <1>3, <2>1, <2>2 DEF Contiguous
<1>6. Contiguous(rest, next)
  BY <1>5 DEF Contiguous
<1> QED
  BY <1>2, <1>4, <1>6 DEF rest, next

(* A resync is one snapshot that applies.                                   *)
LEMMA ResyncApplies ==
    ASSUME NEW q \in Seq(Event), NEW p, Resyncs(q, p)
    PROVE  Applicable(p, q[1]) /\ Tail(q) = <<>>
<1>1. Len(q) = 1 /\ q # <<>>
  BY EmptySeq DEF Resyncs
<1>2. Tail(q) \in Seq(Event) /\ Len(Tail(q)) = 0
  BY <1>1, HeadTailProperties
<1> QED
  BY <1>2, EmptySeq DEF Resyncs, Applicable

(* What a client works on next is the one event it can apply.               *)
LEMMA InboxApplies ==
    ASSUME DeliveryInv, NEW k \in Keys, InboxOK(k),
           inbox[k].kind \in {"resync", "events"}
    PROVE  /\ inbox[k].events \in Seq(Event) /\ inbox[k].events # <<>>
           /\ projection[k] \in Projection /\ projection[k].attached
           /\ Applicable(projection[k], inbox[k].events[1])
<1>1. /\ inbox[k] \in Answer /\ inbox[k] # NoAnswer /\ ExchangeOK(k)
      /\ projection[k] \in Projection
  BY DEF DeliveryInv, ClientTypes, NoAnswer, NewAnswer
<1>2. inbox[k].events \in Seq(Event) /\ inbox[k].events # <<>>
  BY <1>1 DEF ExchangeOK, Answer
<1>3. CASE inbox[k].kind = "events"
  BY <1>1, <1>2, <1>3, FirstApplies DEF InboxOK
<1>4. CASE inbox[k].kind = "resync"
  BY <1>1, <1>2, <1>4, ResyncApplies DEF InboxOK, Resyncs
<1> QED
  BY <1>1, <1>2, <1>3, <1>4 DEF InboxOK, Resyncs

(* An applied event takes the version on by one, and a snapshot ends the    *)
(* response.                                                                *)
LEMMA ApplyEventOrder ==
    ASSUME DeliveryInv, OrderInv, NEW k \in Keys, ApplyEvent(k)
    PROVE  OrderInv'
<1> DEFINE q == inbox[k].events
           e == q[1]
           p == projection[k]
           next == Shows(p.cells, e)
           rest == Tail(q)
           log == Log'
<1>1. /\ UNCHANGED <<logVars, answer, visGeneration, asked, late>>
      /\ inbox[k].kind \in {"resync", "events"} /\ OrderOK(k)
      /\ asked[k] = NoRequest /\ answer[k] = NoAnswer
  <2>1. asked[k] = NoRequest /\ answer[k] = NoAnswer
    BY DEF ApplyEvent, DeliveryInv, ExchangeOK, NoAnswer, NewAnswer
  <2> QED
    BY <2>1 DEF ApplyEvent, serverVars, OrderInv
<1>2. /\ q \in Seq(Event) /\ q # <<>> /\ p \in Projection /\ p.attached
      /\ Applicable(p, e)
  BY <1>1, InboxApplies DEF OrderOK
<1>3. /\ projection'[k] = next /\ UNCHANGED needsAttach
      /\ inbox'[k] = IF rest = <<>> THEN NoAnswer
                     ELSE NewAnswer(inbox[k].kind, rest)
  BY <1>2 DEF ApplyEvent, DeliveryInv, ClientTypes
<1>4. Alone(k)
  BY <1>1, <1>2 DEF ApplyEvent, DeliveryInv, ClientTypes, Alone
<1>5. RequestOK(k)' /\ AnswerOK(k)'
  BY <1>1 DEF RequestOK, AnswerOK, NoAnswer, NewAnswer
<1>6. \A v : Fed(Log, k, v) = Fed(log, k, v)
  BY <1>1, SameFed
<1> HIDE DEF log
<1>7. CASE inbox[k].kind = "resync"
  <2>1. rest = <<>> /\ needsAttach[k]
    BY <1>1, <1>2, <1>7, ResyncApplies DEF OrderOK, InboxOK
  <2>2. inbox'[k] = NoAnswer /\ needsAttach'[k]
    BY <1>3, <2>1
  <2>3. InboxOK(k)' /\ VersionFed(k)'
    BY <2>2 DEF InboxOK, VersionFed, NoAnswer, NewAnswer
  <2> QED
    BY <1>1, <1>4, <1>5, <2>3, ClientOrder DEF OrderOK
<1>8. CASE inbox[k].kind = "events"
  <2>1. /\ e.generation = p.generation /\ e.sequence = p.sequence + 1
        /\ Contiguous(rest, next)
    BY <1>1, <1>2, <1>8, FirstApplies DEF OrderOK, InboxOK
  <2>2. /\ next.attached = TRUE /\ next.generation = p.generation
        /\ next.sequence = p.sequence + 1
    BY <2>1 DEF Shows
  <2> HIDE DEF next, rest, e, q
  <2>3. InboxOK(k)'
    BY <1>3, <1>8, <2>1, <2>2 DEF InboxOK, NoAnswer, NewAnswer
  <2>4. ASSUME ~needsAttach[k] PROVE Fed(log, k, Version(next))
    <3>1. Fed(Log, k, Version(p))
      BY <1>1, <1>2, <1>8, <2>4 DEF OrderOK, VersionFed, NoAnswer, NewAnswer
    <3>2. /\ p.sequence \in Nat /\ Log.sequence \in Nat
          /\ Len(Log.subscribers[k].queue) \in Nat
      <4>1. Inv
        BY DEF DeliveryInv
      <4> QED
        BY <1>2, <4>1, LogFacts, LenProperties DEF Projection, Subscriber
    <3> DEFINE n == Len(Log.subscribers[k].queue)
               m == Log.sequence
    <3> HIDE DEF n, m, p
    <3>3. m <= p.sequence + n => m <= (p.sequence + 1) + n
      <4>1. \A a, b, c \in Nat : a <= b + c => a <= (b + 1) + c
        OBVIOUS
      <4>2. m \in Nat /\ n \in Nat /\ p.sequence \in Nat
        BY <3>2 DEF n, m
      <4> QED
        BY <4>1, <4>2
    <3> DEFINE s == Log.subscribers[k]
               g == Log.generation
    <3>4. s.present /\ ~s.suspended /\ ~s.needsResync /\ p.generation = g =>
             m <= p.sequence + n
      BY <3>1 DEF Fed, Meets, Version, n, m
    <3>5. Version(next) = [generation |-> p.generation,
                           sequence |-> p.sequence + 1]
      BY <2>2 DEF Version
    <3>6. Fed(Log, k, [generation |-> p.generation,
                       sequence |-> p.sequence + 1])
      BY <3>3, <3>4 DEF Fed, Meets, n, m
    <3>7. Fed(Log, k, Version(next))
      BY <3>5, <3>6
    <3> QED
      BY <1>6, <3>7
  <2>5. VersionFed(k)'
    BY <1>3, <2>4 DEF VersionFed, log
  <2> QED
    BY <1>1, <1>4, <1>5, <2>3, <2>5, ClientOrder DEF OrderOK
<1> QED
  BY <1>1, <1>7, <1>8

(* The order there is at the beginning is kept by every step.               *)
LEMMA OrderInitOK == DeliveryInit => OrderInv
<1> SUFFICES ASSUME DeliveryInit PROVE OrderInv
  OBVIOUS
<1>1. /\ Log.subscribers = [k \in Keys |-> Absent]
      /\ answer = [k \in Keys |-> NoAnswer]
  BY DEF DeliveryInit, Init, Log, MakeLog
<1>2. \A k \in Keys : Len(Log.subscribers[k].queue) = 0
  BY <1>1, EmptySubscribers, EmptySeq
<1>3. Gapless(Log)
  BY <1>2 DEF Gapless, QueueGapless
<1>4. ASSUME NEW k \in Keys PROVE OrderOK(k)
  BY <1>1 DEF DeliveryInit, OrderOK, RequestOK, AnswerOK, InboxOK, VersionFed,
              NoAnswer, NewAnswer
<1> QED
  BY <1>3, <1>4 DEF OrderInv

(* No step breaks the order.                                                *)
LEMMA OrderStep ==
    Lossless /\ DeliveryInv /\ OrderInv /\ [DeliveryNext]_vars => OrderInv'
<1> SUFFICES ASSUME Lossless, DeliveryInv, OrderInv, [DeliveryNext]_vars
             PROVE  OrderInv'
  OBVIOUS
<1>1. CASE UNCHANGED vars
  <2>1. /\ UNCHANGED logVars /\ UNCHANGED answer /\ UNCHANGED clientVars
    BY <1>1 DEF vars, serverVars
  <2>2. Gapless(Log)' /\ \A k \in Keys : StaysFed(k)
    BY <2>1, UntouchedFed DEF OrderInv
  <2>3. ASSUME NEW i \in Keys PROVE OrderOK(i)'
    BY <2>1, <2>2, OrderKept DEF OrderInv, clientVars
  <2> QED
    BY <2>2, <2>3 DEF OrderInv
<1>2. ASSUME NEW k \in Keys,
             NEW outcome \in SnapshotOutcomes, NEW budget \in EventBudgets,
             \/ Lose(k) \/ DropLate(k) \/ ServeLate(k, outcome, budget)
      PROVE  FALSE
  <2>1. late[k] = NoRequest /\ losses \in Nat /\ MaxLosses = 0
    BY DEF OrderInv, OrderOK, DeliveryInv, ClientTypes, Lossless
  <2> QED
    BY <1>2, <2>1 DEF Lose, DropLate, ServeLate
<1>3. ASSUME NEW k \in Keys, Lose(k) \/ DropLate(k) PROVE FALSE
  <2>1. late[k] = NoRequest /\ losses \in Nat /\ MaxLosses = 0
    BY DEF OrderInv, OrderOK, DeliveryInv, ClientTypes, Lossless
  <2> QED
    BY <1>3, <2>1 DEF Lose, DropLate
<1> QED
  BY <1>1, <1>2, <1>3, TerminalOrder, ServedOrder, SetVisibleOrder,
     SendPollOrder, DeliverOrder, AcceptAttachOrder, ApplyEventOrder
     DEF DeliveryNext

-----------------------------------------------------------------------------
(* The theorems                                                             *)

(* The inductive invariant of service and clients: whatever is lost, late   *)
(* or given up, a client works on one answer at a time, and what it shows   *)
(* and still has to apply is sound (poll_subscription, accept_batch,        *)
(* RemoteTerminalProjection).                                               *)
THEOREM DeliveryInvariance == DeliverySpec => []DeliveryInv
<1>1. DeliveryInv /\ [DeliveryNext]_vars => DeliveryInv'
  BY DeliveryStepOK
<1> QED
  BY DeliveryInitOK, <1>1, PTL DEF DeliverySpec

(* Clients' fields keep their types. *)
THEOREM DeliveryTypeCorrect == DeliverySpec => []DeliveryTypeOK
<1>1. DeliveryInv => DeliveryTypeOK
  BY DeliveryInvImplies
<1> QED
  BY DeliveryInvariance, <1>1, PTL

(* However many clients, losses, overflows, restarts and late requests: a   *)
(* client that holds a version shows what that version stands for.          *)
THEOREM ProjectionsTruthful == DeliverySpec => []TruthfulProjection
<1>1. DeliveryInv => TruthfulProjection
  BY DeliveryInvImplies
<1> QED
  BY DeliveryInvariance, <1>1, PTL

(* No response, however late, takes a client back to an earlier version. *)
THEOREM ProjectionsAdvance == DeliverySpec => NoRegression
<1>1. DeliveryInv /\ [DeliveryNext]_vars =>
         [\A k \in Keys : projection[k].attached =>
             projection'[k].attached /\ NotOlder(projection'[k], projection[k])
         ]_vars
  BY DeliveryStepOK DEF Newer
<1> QED
  BY DeliveryInvariance, <1>1, PTL DEF DeliverySpec, NoRegression

(* While no exchange is lost, no clipboard event suppressed and no attach   *)
(* response too large, however often the terminal is shown and hidden,      *)
(* restarted or overflows, the event a client works on next is the one it   *)
(* can apply (RemoteTerminalService::poll_delivery, accept_events).         *)
THEOREM DeliveryOrdered ==
    ASSUME Lossless
    PROVE  DeliverySpec => []OrderedDelivery
<1>1. DeliveryInit => OrderInv
  BY OrderInitOK
<1>2. DeliveryInv /\ OrderInv /\ [DeliveryNext]_vars => OrderInv'
  BY OrderStep
<1>3. DeliveryInv /\ OrderInv => OrderedDelivery
  BY InboxApplies DEF OrderInv, OrderOK, OrderedDelivery
<1> QED
  BY DeliveryInvariance, <1>1, <1>2, <1>3, PTL DEF DeliverySpec

===============================================================================
