------------------------ MODULE TerminalServiceProofs ------------------------
(***************************************************************************)
(* Proofs about TerminalService.  The argument is about the version log:   *)
(* every handler turns a sound log into a sound log, so the facts about    *)
(* queues and the journal are lemmas about Emit, NextGeneration, Wiped and *)
(* SetSubscriber, and a handler's proof puts together the ones it uses.    *)
(***************************************************************************)
EXTENDS TerminalService, SequenceTheorems, TLAPS

(* The journal only grows, except that a failed restart empties the screen *)
(* of the last version.                                                    *)
Follows(j, j2) ==
    /\ Len(j) <= Len(j2)
    /\ \A g \in 1..Len(j) :
          /\ Len(j[g]) <= Len(j2[g])
          /\ \A n \in 1..Len(j[g]) :
                /\ j2[g][n].controller = j[g][n].controller
                /\ j2[g][n].writes <= j[g][n].writes
                /\ n < Len(j[g]) => j2[g][n] = j[g][n]

Journals == Seq(Seq(Entries))

LogOK(log, w, c) ==
    /\ log.generation \in Nat \ {0}
    /\ log.sequence \in Nat
    /\ log.journal \in Journals
    /\ Len(log.journal) = log.generation
    /\ Len(log.journal[log.generation]) = log.sequence + 1
    /\ log.journal[log.generation][log.sequence + 1] = Entry(w, c)
    /\ log.subscribers \in [Keys -> Subscriber]
    /\ \A k \in Keys :
          QueueOK(log.subscribers[k], log.generation, log.sequence)
    /\ \A k \in Keys : EventsSound(log.subscribers[k].queue, log.journal)

-----------------------------------------------------------------------------
(* The journal *)

(* An entry of the journal is one.                                          *)
LEMMA JournalEntry ==
    ASSUME NEW j \in Journals, NEW g \in 1..Len(j), NEW n \in 1..Len(j[g])
    PROVE  /\ j[g] \in Seq(Entries) /\ Len(j[g]) \in Nat
           /\ j[g][n] \in Entries
           /\ j[g][n].writes \in Nat
<1>1. j[g] \in Seq(Entries)
  BY ElementOfSeq DEF Journals
<1>2. Len(j[g]) \in Nat
  BY <1>1, LenProperties
<1>3. j[g][n] \in Entries
  BY <1>1, ElementOfSeq
<1> QED
  BY <1>1, <1>2, <1>3 DEF Entries

(* A journal follows itself ...                                             *)
LEMMA FollowsReflexive ==
    ASSUME NEW j \in Journals PROVE Follows(j, j)
<1>1. Len(j) \in Nat
  BY LenProperties DEF Journals
<1>2. \A g \in 1..Len(j) : Len(j[g]) \in Nat
  BY ElementOfSeq, LenProperties DEF Journals
<1>3. \A g \in 1..Len(j) : \A n \in 1..Len(j[g]) : j[g][n].writes \in Nat
  BY JournalEntry
<1> QED
  BY <1>1, <1>2, <1>3 DEF Follows

(* ... and what follows what it follows.                                    *)
LEMMA FollowsTransitive ==
    ASSUME NEW j1 \in Journals, NEW j2 \in Journals, NEW j3 \in Journals,
           Follows(j1, j2), Follows(j2, j3)
    PROVE  Follows(j1, j3)
<1>1. /\ Len(j1) \in Nat /\ Len(j2) \in Nat /\ Len(j3) \in Nat
      /\ Len(j1) <= Len(j2) /\ Len(j2) <= Len(j3)
  BY LenProperties DEF Journals, Follows
<1>2. ASSUME NEW g \in 1..Len(j1)
      PROVE  /\ Len(j1[g]) <= Len(j3[g])
             /\ \A n \in 1..Len(j1[g]) :
                   /\ j3[g][n].controller = j1[g][n].controller
                   /\ j3[g][n].writes <= j1[g][n].writes
                   /\ n < Len(j1[g]) => j3[g][n] = j1[g][n]
  <2>1. g \in 1..Len(j2) /\ g \in 1..Len(j3)
    BY <1>1
  <2>2. /\ Len(j1[g]) \in Nat /\ Len(j2[g]) \in Nat /\ Len(j3[g]) \in Nat
        /\ Len(j1[g]) <= Len(j2[g]) /\ Len(j2[g]) <= Len(j3[g])
    BY <2>1, ElementOfSeq, LenProperties DEF Journals, Follows
  <2>3. ASSUME NEW n \in 1..Len(j1[g])
        PROVE  /\ n \in 1..Len(j2[g]) /\ n \in 1..Len(j3[g])
               /\ j1[g][n].writes \in Nat /\ j2[g][n].writes \in Nat
               /\ j3[g][n].writes \in Nat
    BY <2>1, <2>2, JournalEntry
  <2>4. Len(j1[g]) <= Len(j3[g])
    BY <2>2
  <2>5. ASSUME NEW n \in 1..Len(j1[g])
        PROVE  /\ j3[g][n].controller = j1[g][n].controller
               /\ j3[g][n].writes <= j1[g][n].writes
               /\ n < Len(j1[g]) => j3[g][n] = j1[g][n]
    <3>1. /\ j2[g][n].controller = j1[g][n].controller
          /\ j2[g][n].writes <= j1[g][n].writes
          /\ n < Len(j1[g]) => j2[g][n] = j1[g][n]
      BY DEF Follows
    <3>2. /\ j3[g][n].controller = j2[g][n].controller
          /\ j3[g][n].writes <= j2[g][n].writes
          /\ n < Len(j2[g]) => j3[g][n] = j2[g][n]
      BY <2>1, <2>3 DEF Follows
    <3>3. /\ j1[g][n].writes \in Nat /\ j2[g][n].writes \in Nat
          /\ j3[g][n].writes \in Nat
      BY <2>3
    <3>4. n < Len(j1[g]) => n < Len(j2[g])
      BY <2>2
    <3> QED
      BY <3>1, <3>2, <3>3, <3>4
  <2> QED
    BY <2>4, <2>5
<1> QED
  BY <1>1, <1>2 DEF Follows

(* What an event says of its version stays true as the journal goes on. *)
LEMMA EventStaysSound ==
    ASSUME NEW j1 \in Journals, NEW j2 \in Journals, Follows(j1, j2),
           NEW e, EventSound(e, j1)
    PROVE  EventSound(e, j2)
<1> DEFINE g == e.generation
           n == e.sequence + 1
<1>1. /\ e \in Event /\ g \in 1..Len(j1) /\ n \in 1..Len(j1[g])
      /\ e.sequence \in Nat
  BY DEF EventSound, Event
<1>2. g \in 1..Len(j2) /\ Len(j1[g]) <= Len(j2[g])
  BY <1>1, LenProperties DEF Follows, Journals
<1>3. n \in 1..Len(j2[g]) /\ Len(j1[g]) \in Nat /\ Len(j2[g]) \in Nat
  <2>1. j1[g] \in Seq(Entries) /\ j2[g] \in Seq(Entries)
    BY <1>1, <1>2, ElementOfSeq DEF Journals
  <2>2. Len(j1[g]) \in Nat /\ Len(j2[g]) \in Nat
    BY <2>1, LenProperties
  <2> QED
    BY <1>1, <1>2, <2>2
<1>4. /\ j2[g][n].controller = j1[g][n].controller
      /\ j2[g][n].writes <= j1[g][n].writes
      /\ j1[g][n].writes \in Nat /\ j2[g][n].writes \in Nat
  BY <1>1, <1>2, <1>3, JournalEntry DEF Follows
<1>5. ASSUME e.sequence > 0 PROVE j2[g][e.sequence] = j1[g][e.sequence]
  <2>1. e.sequence \in 1..Len(j1[g]) /\ e.sequence < Len(j1[g])
    BY <1>1, <1>3, <1>5
  <2> QED
    BY <1>1, <2>1 DEF Follows
<1>6. 1..j2[g][n].writes \subseteq 1..j1[g][n].writes
  BY <1>4
<1> QED
  BY <1>1, <1>2, <1>3, <1>4, <1>5, <1>6 DEF EventSound

-----------------------------------------------------------------------------
(* Subscribers and queues *)

(* An event of a queue is one, with a number.                               *)
LEMMA QueuedEvent ==
    ASSUME NEW q \in Seq(Event), NEW i \in 1..Len(q)
    PROVE  /\ q[i] \in Event
           /\ q[i].sequence \in Nat /\ q[i].generation \in Nat
<1>1. q[i] \in Event
  BY ElementOfSeq
<1> QED
  BY <1>1 DEF Event

(* A subscriber that is absent, new, deferred or suspended has nothing      *)
(* queued.                                                                  *)
LEMMA EmptySubscribers ==
    ASSUME NEW g, NEW n, NEW j
    PROVE  /\ Absent \in Subscriber /\ QueueOK(Absent, g, n)
           /\ Fresh \in Subscriber /\ QueueOK(Fresh, g, n)
           /\ Deferred \in Subscriber /\ QueueOK(Deferred, g, n)
           /\ Suspended \in Subscriber /\ QueueOK(Suspended, g, n)
           /\ EventsSound(<<>>, j)
           /\ Absent.queue = <<>> /\ Fresh.queue = <<>>
           /\ Deferred.queue = <<>> /\ Suspended.queue = <<>>
<1>1. <<>> \in Seq(Event) /\ Len(<<>>) = 0
  BY EmptySeq
<1>2. ASSUME NEW p \in BOOLEAN, NEW r \in BOOLEAN, NEW u \in BOOLEAN,
             u => r
      PROVE  /\ EmptyQueue(p, r, u) \in Subscriber
             /\ QueueOK(EmptyQueue(p, r, u), g, n)
             /\ EmptyQueue(p, r, u).queue = <<>>
  BY <1>1, <1>2, LimitsAssumption
     DEF EmptyQueue, Subscriber, QueueOK, Increasing
<1>4. EventsSound(<<>>, j)
  BY <1>1 DEF EventsSound
<1> QED
  BY <1>2, <1>4 DEF Absent, Fresh, Deferred, Suspended

(* A subscriber that has to resynchronise has nothing queued either.        *)
LEMMA RequireResyncOK ==
    ASSUME NEW s \in Subscriber, NEW g, NEW n, NEW j,
           ~s.present => s.queue = <<>>
    PROVE  /\ RequireResync(s) \in Subscriber
           /\ RequireResync(s).queue = <<>>
           /\ RequireResync(s).present = s.present
           /\ (s.suspended => s.needsResync) => QueueOK(RequireResync(s), g, n)
<1>1. <<>> \in Seq(Event) /\ Len(<<>>) = 0
  BY EmptySeq
<1>2. CASE s.present
  <2>1. RequireResync(s) = [present |-> s.present, queue |-> <<>>,
                            needsResync |-> TRUE, suspended |-> s.suspended]
    BY <1>2 DEF RequireResync, Subscriber
  <2> QED
    BY <1>1, <1>2, <2>1, LimitsAssumption DEF Subscriber, QueueOK, Increasing
<1>3. CASE ~s.present
  <2>1. RequireResync(s) = s /\ s.queue = <<>>
    BY <1>3 DEF RequireResync
  <2> QED
    BY <1>1, <1>3, <2>1, LimitsAssumption DEF Subscriber, QueueOK, Increasing
<1> QED
  BY <1>2, <1>3

(* One subscriber's queue survives the offer of the next event. *)
LEMMA OfferOK ==
    ASSUME NEW s \in Subscriber, NEW g \in Nat, NEW n \in Nat,
           QueueOK(s, g, n), NEW j, EventsSound(s.queue, j),
           NEW e \in Event, e.generation = g, e.sequence = n + 1,
           EventSound(e, j)
    PROVE  /\ Offer(s, e) \in Subscriber
           /\ QueueOK(Offer(s, e), g, n + 1)
           /\ EventsSound(Offer(s, e).queue, j)
           /\ Offer(s, e).present = s.present
<1>1. s.queue \in Seq(Event) /\ Len(s.queue) \in Nat
  BY LenProperties DEF Subscriber
<1>2. QueueOK(s, g, n + 1)
  <2>1. \A i \in 1..Len(s.queue) : s.queue[i].sequence \in Nat
    BY <1>1, QueuedEvent
  <2> QED
    BY <2>1 DEF QueueOK
<1>3. CASE ~s.present \/ s.suspended \/ s.needsResync
  BY <1>2, <1>3 DEF Offer
<1>4. CASE /\ ~(~s.present \/ s.suspended \/ s.needsResync)
           /\ Len(s.queue) >= QueueLimit
  <2>1. Offer(s, e) = RequireResync(s)
    BY <1>4 DEF Offer
  <2> QED
    BY <2>1, <1>4, RequireResyncOK, EmptySubscribers
<1>5. CASE /\ ~(~s.present \/ s.suspended \/ s.needsResync)
           /\ ~(Len(s.queue) >= QueueLimit)
  <2> DEFINE q == Append(s.queue, e)
  <2>1. Offer(s, e) = [present |-> s.present, queue |-> q,
                       needsResync |-> s.needsResync,
                       suspended |-> s.suspended]
    BY <1>5 DEF Offer, Subscriber
  <2>2. /\ q \in Seq(Event) /\ Len(q) = Len(s.queue) + 1
        /\ \A i \in 1..Len(s.queue) : q[i] = s.queue[i]
        /\ q[Len(s.queue) + 1] = e
    BY <1>1, AppendProperties
  <2>3. \A i \in 1..Len(s.queue) :
           /\ s.queue[i].generation = g /\ s.queue[i].sequence <= n
           /\ s.queue[i].sequence \in Nat
    BY <1>1, QueuedEvent DEF QueueOK
  <2>4. \A i \in 1..Len(q) : /\ q[i].generation = g /\ q[i].sequence <= n + 1
                             /\ EventSound(q[i], j)
    BY <1>1, <2>2, <2>3 DEF EventsSound
  <2>5. Increasing(s.queue)
    BY DEF QueueOK
  <2>6. Increasing(q)
    BY <1>1, <2>2, <2>3, <2>5 DEF Increasing
  <2>7. Len(q) <= QueueLimit
    BY <1>1, <1>5, <2>2, LimitsAssumption
  <2> HIDE DEF q
  <2> QED
    BY <1>5, <2>1, <2>2, <2>4, <2>6, <2>7
       DEF Subscriber, QueueOK, EventsSound
<1> QED
  BY <1>3, <1>4, <1>5

-----------------------------------------------------------------------------
(* The log *)

(* A disciplined and sound subscriber may take the place of another.        *)
LEMMA SetSubscriberOK ==
    ASSUME NEW log, NEW w, NEW c, LogOK(log, w, c),
           NEW k \in Keys, NEW s \in Subscriber,
           QueueOK(s, log.generation, log.sequence),
           EventsSound(s.queue, log.journal)
    PROVE  LogOK(SetSubscriber(log, k, s), w, c)
BY DEF LogOK, SetSubscriber, MakeLog

(* The journal after one more version, and the event that announces it. *)
LEMMA JournalAppend ==
    ASSUME NEW j \in Journals, NEW g \in 1..Len(j), NEW x \in Entries
    PROVE  LET j2 == Record(j, g, x)
           IN  /\ j2 \in Journals /\ Len(j2) = Len(j)
               /\ Len(j2[g]) = Len(j[g]) + 1
               /\ j2[g][Len(j[g]) + 1] = x
               /\ \A n \in 1..Len(j[g]) : j2[g][n] = j[g][n]
               /\ Follows(j, j2)
<1> DEFINE r == Append(j[g], x)
           j2 == Record(j, g, x)
<1>1. j[g] \in Seq(Entries) /\ Len(j[g]) \in Nat /\ Len(j) \in Nat
  BY JournalEntry, LenProperties, ElementOfSeq DEF Journals
<1>2. /\ r \in Seq(Entries) /\ Len(r) = Len(j[g]) + 1
      /\ r[Len(j[g]) + 1] = x
      /\ \A n \in 1..Len(j[g]) : r[n] = j[g][n]
  BY <1>1, AppendProperties
<1>3. j2 = [j EXCEPT ![g] = r]
  BY DEF Record
<1> HIDE DEF r, j2
<1>4. /\ j2 \in Journals /\ Len(j2) = Len(j)
      /\ \A i \in 1..Len(j) : j2[i] = IF i = g THEN r ELSE j[i]
  BY <1>2, <1>3, ExceptSeq DEF Journals
<1>5. \A i \in 1..Len(j) : Len(j[i]) \in Nat
  BY ElementOfSeq, LenProperties DEF Journals
<1>6. \A i \in 1..Len(j) : \A n \in 1..Len(j[i]) : j[i][n].writes \in Nat
  BY JournalEntry
<1>7. ASSUME NEW i \in 1..Len(j)
      PROVE  /\ Len(j[i]) <= Len(j2[i])
             /\ \A n \in 1..Len(j[i]) : j2[i][n] = j[i][n]
  <2>1. CASE i = g
    BY <1>1, <1>2, <1>4, <2>1
  <2>2. CASE i # g
    BY <1>4, <1>5, <2>2
  <2> QED
    BY <2>1, <2>2
<1>8. Follows(j, j2)
  <2>1. \A i \in 1..Len(j) : \A n \in 1..Len(j[i]) :
           /\ j2[i][n].controller = j[i][n].controller
           /\ j2[i][n].writes <= j[i][n].writes
    BY <1>6, <1>7
  <2> QED
    BY <1>1, <1>4, <1>7, <2>1 DEF Follows
<1> QED
  BY <1>2, <1>4, <1>8 DEF j2, r

(* A new generation is a new entry of the journal.                          *)
LEMMA JournalNext ==
    ASSUME NEW j \in Journals, NEW x \in Entries
    PROVE  LET j2 == Append(j, <<x>>)
           IN  /\ j2 \in Journals /\ Len(j2) = Len(j) + 1
               /\ Len(j2[Len(j) + 1]) = 1 /\ j2[Len(j) + 1][1] = x
               /\ Follows(j, j2)
<1> DEFINE j2 == Append(j, <<x>>)
<1>1. <<x>> \in Seq(Entries) /\ Len(<<x>>) = 1 /\ <<x>>[1] = x
  OBVIOUS
<1>2. /\ j2 \in Journals /\ Len(j2) = Len(j) + 1
      /\ \A i \in 1..Len(j) : j2[i] = j[i]
      /\ j2[Len(j) + 1] = <<x>>
  BY <1>1, AppendProperties DEF Journals
<1>3. Len(j) \in Nat
  BY LenProperties DEF Journals
<1>4. \A i \in 1..Len(j) : Len(j[i]) \in Nat
  BY ElementOfSeq, LenProperties DEF Journals
<1>5. \A i \in 1..Len(j) : \A n \in 1..Len(j[i]) : j[i][n].writes \in Nat
  BY JournalEntry
<1> HIDE DEF j2
<1>6. Follows(j, j2)
  BY <1>2, <1>3, <1>4, <1>5 DEF Follows
<1> QED
  BY <1>1, <1>2, <1>6 DEF j2

(* Wiping the last version of the last generation. *)
LEMMA JournalWiped ==
    ASSUME NEW j \in Journals, NEW g \in 1..Len(j), NEW n \in 1..Len(j[g]),
           n = Len(j[g]), NEW x \in Entries,
           x.writes = 0, x.controller = j[g][n].controller
    PROVE  LET j2 == [j EXCEPT ![g][n] = x]
           IN  /\ j2 \in Journals /\ Len(j2) = Len(j)
               /\ Len(j2[g]) = Len(j[g]) /\ j2[g][n] = x
               /\ Follows(j, j2)
<1> DEFINE r == [j[g] EXCEPT ![n] = x]
           j2 == [j EXCEPT ![g][n] = x]
<1>1. j[g] \in Seq(Entries) /\ Len(j[g]) \in Nat /\ Len(j) \in Nat
  BY JournalEntry, LenProperties, ElementOfSeq DEF Journals
<1>2. /\ r \in Seq(Entries) /\ Len(r) = Len(j[g])
      /\ \A i \in 1..Len(j[g]) : r[i] = IF i = n THEN x ELSE j[g][i]
  BY <1>1, ExceptSeq
<1>3. j2 = [j EXCEPT ![g] = r]
  BY DEF Record
<1> HIDE DEF r, j2
<1>4. /\ j2 \in Journals /\ Len(j2) = Len(j)
      /\ \A i \in 1..Len(j) : j2[i] = IF i = g THEN r ELSE j[i]
  BY <1>2, <1>3, ExceptSeq DEF Journals
<1>5. \A i \in 1..Len(j) : Len(j[i]) \in Nat
  BY ElementOfSeq, LenProperties DEF Journals
<1>6. \A i \in 1..Len(j) : \A m \in 1..Len(j[i]) : j[i][m].writes \in Nat
  BY JournalEntry
<1>7. ASSUME NEW i \in 1..Len(j), NEW m \in 1..Len(j[i])
      PROVE  /\ j2[i][m].controller = j[i][m].controller
             /\ j2[i][m].writes <= j[i][m].writes
             /\ m < Len(j[i]) => j2[i][m] = j[i][m]
  <2>1. CASE i = g
    BY <1>1, <1>2, <1>4, <1>6, <2>1
  <2>2. CASE i # g
    BY <1>4, <1>6, <2>2
  <2> QED
    BY <2>1, <2>2
<1>8. \A i \in 1..Len(j) : Len(j[i]) <= Len(j2[i])
  BY <1>1, <1>2, <1>4, <1>5
<1>9. Follows(j, j2)
  BY <1>1, <1>4, <1>7, <1>8 DEF Follows
<1> QED
  BY <1>2, <1>4, <1>9 DEF j2

(* The last version of a sound log, and that queues stay sound under any    *)
(* journal that follows.                                                    *)
LEMMA LastVersion ==
    ASSUME NEW log, NEW w, NEW c, LogOK(log, w, c)
    PROVE  /\ log.generation \in 1..Len(log.journal)
           /\ log.sequence + 1 \in 1..Len(log.journal[log.generation])
           /\ Entry(w, c) \in Entries /\ w \in Nat /\ c \in Controllers
<1>1. /\ log.generation \in 1..Len(log.journal)
      /\ log.sequence + 1 \in 1..Len(log.journal[log.generation])
  BY DEF LogOK
<1>2. Entry(w, c) \in Entries
  BY <1>1, JournalEntry DEF LogOK
<1> QED
  BY <1>1, <1>2 DEF Entry, Entries

(* A sound queue stays sound while the journal goes on.                     *)
LEMMA QueuesStaySound ==
    ASSUME NEW j1 \in Journals, NEW j2 \in Journals, Follows(j1, j2),
           NEW q, EventsSound(q, j1)
    PROVE  EventsSound(q, j2)
BY EventStaysSound DEF EventsSound

(* The event Emit() makes is sound when it carries what its version adds. *)
LEMMA EmittedEvent ==
    ASSUME NEW log, NEW w, NEW c, LogOK(log, w, c),
           NEW kind \in EventKinds \ {"snapshot"},
           NEW cells \in SUBSET Nat, NEW w2 \in Nat,
           NEW c2 \in Controllers, NEW p,
           \A i \in 1..w2 : i \in cells \/ (kind # "redraw" /\ i <= w)
    PROVE  LET e == Stamp(kind, log.generation, log.sequence + 1, cells, c2, p)
               j2 == Record(log.journal, log.generation, Entry(w2, c2))
           IN  e \in Event /\ EventSound(e, j2)
<1> DEFINE g == log.generation
           n == log.sequence + 1
           e == Stamp(kind, g, n, cells, c2, p)
           j2 == Record(log.journal, g, Entry(w2, c2))
<1>1. /\ log.journal \in Journals /\ g \in 1..Len(log.journal)
      /\ n \in 1..Len(log.journal[g]) /\ n = Len(log.journal[g]) /\ n \in Nat
      /\ log.journal[g][n] = Entry(w, c) /\ g \in Nat
  BY LastVersion DEF LogOK
<1>2. Entry(w2, c2) \in Entries
  BY DEF Entry, Entries
<1>3. /\ Len(j2) = Len(log.journal)
      /\ Len(j2[g]) = n + 1
      /\ j2[g][n + 1] = Entry(w2, c2)
      /\ j2[g][n] = Entry(w, c)
  <2>1. n \in 1..Len(log.journal[g])
    BY <1>1
  <2>2. /\ Len(j2) = Len(log.journal)
        /\ Len(j2[g]) = Len(log.journal[g]) + 1
        /\ j2[g][Len(log.journal[g]) + 1] = Entry(w2, c2)
        /\ \A i \in 1..Len(log.journal[g]) :
              j2[g][i] = log.journal[g][i]
    BY <1>1, <1>2, JournalAppend
  <2> HIDE DEF j2, n
  <2> QED
    BY <1>1, <2>1, <2>2
<1> HIDE DEF j2
<1>4. e \in Event
  BY <1>1 DEF Stamp, Event
<1>5. /\ e.generation = g /\ e.sequence = n /\ e.cells = cells
      /\ e.controller = c2 /\ e.kind = kind
  BY DEF Stamp
<1> HIDE DEF e
<1>6. /\ e.generation \in 1..Len(j2)
      /\ e.sequence + 1 \in 1..Len(j2[e.generation])
  BY <1>1, <1>3, <1>5
<1>7. /\ j2[g][n + 1].writes = w2 /\ j2[g][n + 1].controller = c2
      /\ j2[g][n].writes = w
  BY <1>3 DEF Entry
<1>8. EventSound(e, j2)
  BY <1>1, <1>4, <1>5, <1>6, <1>7 DEF EventSound
<1> QED
  BY <1>4, <1>8 DEF e, j2

(* An event that carries every write since the last version goes to the     *)
(* subscribers and makes a version.                                         *)
LEMMA EmitOK ==
    ASSUME NEW log, NEW w, NEW c, LogOK(log, w, c),
           NEW kind \in EventKinds \ {"snapshot"},
           NEW cells \in SUBSET Nat, NEW w2 \in Nat,
           NEW c2 \in Controllers, NEW p,
           \A i \in 1..w2 : i \in cells \/ (kind # "redraw" /\ i <= w)
    PROVE  LET log2 == Emit(log, kind, cells, w2, c2, p)
           IN  /\ LogOK(log2, w2, c2)
               /\ Follows(log.journal, log2.journal)
               /\ \A k \in Keys : log2.subscribers[k].present
                                    = log.subscribers[k].present
<1> DEFINE g == log.generation
           n == log.sequence
           j == log.journal
           x == Entry(w2, c2)
           e == Stamp(kind, g, n + 1, cells, c2, p)
           j2 == Record(j, g, x)
           subs == Broadcast(log.subscribers, e)
           log2 == Emit(log, kind, cells, w2, c2, p)
<1>1. /\ j \in Journals /\ g \in 1..Len(j) /\ Len(j) = g
      /\ Len(j[g]) = n + 1 /\ n \in Nat /\ g \in Nat \ {0}
  BY LastVersion DEF LogOK
<1>2. x \in Entries
  BY DEF Entry, Entries
<1> HIDE DEF g, n, j, x
<1>3. /\ j2 \in Journals /\ Len(j2) = g /\ Len(j2[g]) = n + 2
      /\ j2[g][n + 2] = x /\ Follows(j, j2)
  <2>1. /\ j2 \in Journals /\ Len(j2) = Len(j)
        /\ Len(j2[g]) = Len(j[g]) + 1 /\ j2[g][Len(j[g]) + 1] = x
        /\ Follows(j, j2)
    BY <1>1, <1>2, JournalAppend
  <2>2. Len(j[g]) + 1 = n + 2
    BY <1>1
  <2> HIDE DEF j2
  <2> QED
    BY <1>1, <2>1, <2>2
<1> USE DEF g, n, j, x
<1>4. e \in Event /\ EventSound(e, j2)
  BY EmittedEvent
<1>5. e.generation = g /\ e.sequence = n + 1
  BY DEF Stamp
<1>6. log2 = MakeLog(g, n + 1, j2, subs)
  BY DEF Emit
<1> HIDE DEF j2, e
<1>7. ASSUME NEW k \in Keys
      PROVE  /\ subs[k] \in Subscriber
             /\ QueueOK(subs[k], g, n + 1)
             /\ EventsSound(subs[k].queue, j2)
             /\ subs[k].present = log.subscribers[k].present
  <2> DEFINE s == log.subscribers[k]
  <2>1. s \in Subscriber /\ QueueOK(s, g, n) /\ EventsSound(s.queue, j2)
    BY <1>1, <1>3, QueuesStaySound DEF LogOK
  <2>2. /\ Offer(s, e) \in Subscriber /\ QueueOK(Offer(s, e), g, n + 1)
        /\ EventsSound(Offer(s, e).queue, j2)
        /\ Offer(s, e).present = s.present
    BY <1>1, <1>4, <1>5, <2>1, OfferOK
  <2>3. QueueOK(s, g, n + 1)
    <3>1. s.queue \in Seq(Event)
      BY <2>1 DEF Subscriber
    <3>2. \A i \in 1..Len(s.queue) : s.queue[i].sequence \in Nat
      BY <3>1, QueuedEvent
    <3> QED
      BY <1>1, <2>1, <3>2 DEF QueueOK
  <2> QED
    BY <2>1, <2>2, <2>3 DEF Broadcast
<1>8. subs \in [Keys -> Subscriber]
  <2>1. log.subscribers \in [Keys -> Subscriber]
    BY DEF LogOK
  <2> QED
    BY <1>7, <2>1 DEF Broadcast
<1> HIDE DEF subs
<1>9. LogOK(MakeLog(g, n + 1, j2, subs), w2, c2)
  BY <1>1, <1>3, <1>7, <1>8 DEF LogOK, MakeLog
<1> QED
  BY <1>3, <1>6, <1>7, <1>9 DEF MakeLog

(* A status or clipboard event changes nobody's writes or controller. *)
LEMMA StatusOK ==
    ASSUME NEW log, NEW w, NEW c, LogOK(log, w, c), NEW p,
           NEW kind \in {"controller", "clipboard"}
    PROVE  LET log2 == Emit(log, kind, {}, w, c, p)
           IN  /\ LogOK(log2, w, c) /\ Follows(log.journal, log2.journal)
               /\ log2.journal \in Journals
               /\ \A k \in Keys : log2.subscribers[k].present
                                    = log.subscribers[k].present
<1>1. kind \in EventKinds \ {"snapshot"} /\ kind # "redraw"
  BY DEF EventKinds
<1>2. {} \in SUBSET Nat /\ w \in Nat /\ c \in Controllers
  BY LastVersion
<1>3. \A i \in 1..w : i <= w
  BY <1>2
<1>4. LET log2 == Emit(log, kind, {}, w, c, p)
      IN  /\ LogOK(log2, w, c) /\ Follows(log.journal, log2.journal)
          /\ \A k \in Keys : log2.subscribers[k].present
                               = log.subscribers[k].present
  BY <1>1, <1>2, <1>3, EmitOK
<1> QED
  BY <1>4 DEF LogOK

(* A delta of all the writes since the version before. *)
LEMMA OutputEventOK ==
    ASSUME NEW log, NEW w, NEW c, LogOK(log, w, c), NEW p,
           NEW n \in Nat, w <= n
    PROVE  LET log2 == Emit(log, "delta", (w + 1)..n, n, c, p)
           IN  /\ LogOK(log2, n, c) /\ Follows(log.journal, log2.journal)
               /\ \A k \in Keys : log2.subscribers[k].present
                                    = log.subscribers[k].present
<1> DEFINE cells == (w + 1)..n
           kind == "delta"
<1>1. kind \in EventKinds \ {"snapshot"} /\ kind # "redraw"
  BY DEF EventKinds
<1>2. w \in Nat /\ c \in Controllers
  BY LastVersion
<1>3. /\ cells \in SUBSET Nat
      /\ \A i \in 1..n : i \in cells \/ (kind # "redraw" /\ i <= w)
  <2>1. \A i \in 1..n : i \in cells \/ i <= w
    BY <1>2
  <2> QED
    BY <1>1, <1>2, <2>1
<1> HIDE DEF cells, kind
<1>4. LET log2 == Emit(log, kind, cells, n, c, p)
      IN  /\ LogOK(log2, n, c) /\ Follows(log.journal, log2.journal)
          /\ \A k \in Keys : log2.subscribers[k].present
                               = log.subscribers[k].present
  BY <1>1, <1>2, <1>3, EmitOK
<1> QED
  BY <1>4 DEF cells, kind

(* The same for a new controller. *)
LEMMA ControllerEventOK ==
    ASSUME NEW log, NEW w, NEW c, LogOK(log, w, c), NEW p,
           NEW c2 \in Controllers
    PROVE  LET log2 == Emit(log, "controller", {}, w, c2, p)
           IN  /\ LogOK(log2, w, c2) /\ Follows(log.journal, log2.journal)
               /\ \A k \in Keys : log2.subscribers[k].present
                                    = log.subscribers[k].present
<1>1. "controller" \in EventKinds \ {"snapshot"} /\ "controller" # "redraw"
  BY DEF EventKinds
<1>2. {} \in SUBSET Nat /\ w \in Nat
  BY LastVersion
<1>3. \A i \in 1..w : i <= w
  BY <1>2
<1> QED
  BY <1>1, <1>2, <1>3, EmitOK

(* A new generation starts with an empty screen, and everybody              *)
(* resynchronises.                                                          *)
LEMMA NextGenerationOK ==
    ASSUME NEW log, NEW w, NEW c, LogOK(log, w, c)
    PROVE  LET log2 == NextGeneration(log, c)
           IN  /\ LogOK(log2, 0, c)
               /\ Follows(log.journal, log2.journal)
               /\ \A k \in Keys : log2.subscribers[k].present
                                    = log.subscribers[k].present
<1> DEFINE g == log.generation
           j2 == Append(log.journal, <<Entry(0, c)>>)
           subs == [k \in Keys |-> RequireResync(log.subscribers[k])]
           log2 == NextGeneration(log, c)
<1>1. /\ log.journal \in Journals /\ g \in Nat \ {0}
      /\ Len(log.journal) = g /\ c \in Controllers
  BY LastVersion DEF LogOK
<1>2. Entry(0, c) \in Entries
  BY <1>1 DEF Entry, Entries
<1>3. /\ j2 \in Journals /\ Len(j2) = g + 1 /\ Len(j2[g + 1]) = 1
      /\ j2[g + 1][1] = Entry(0, c) /\ Follows(log.journal, j2)
  BY <1>1, <1>2, JournalNext
<1>4. log2 = MakeLog(g + 1, 0, j2, subs)
  BY DEF NextGeneration
<1> HIDE DEF j2
<1>5. ASSUME NEW k \in Keys
      PROVE  /\ subs[k] \in Subscriber
             /\ QueueOK(subs[k], g + 1, 0)
             /\ EventsSound(subs[k].queue, j2)
             /\ subs[k].present = log.subscribers[k].present
  <2> DEFINE s == log.subscribers[k]
  <2>1. s \in Subscriber /\ QueueOK(s, g, log.sequence)
    BY DEF LogOK
  <2>2. /\ ~s.present => s.queue = <<>>
        /\ s.suspended => s.needsResync
    BY <2>1 DEF QueueOK
  <2> HIDE DEF s
  <2>3. /\ RequireResync(s) \in Subscriber
        /\ RequireResync(s).queue = <<>>
        /\ RequireResync(s).present = s.present
        /\ QueueOK(RequireResync(s), g + 1, 0)
    BY <2>1, <2>2, RequireResyncOK
  <2> QED
    BY <2>3, EmptySubscribers DEF s
<1>6. subs \in [Keys -> Subscriber]
  BY <1>5
<1> HIDE DEF subs
<1>7. LogOK(MakeLog(g + 1, 0, j2, subs), 0, c)
  BY <1>1, <1>3, <1>5, <1>6 DEF LogOK, MakeLog
<1> QED
  BY <1>3, <1>4, <1>5, <1>7 DEF MakeLog

(* A wiped screen makes the current version stand for less.                 *)
LEMMA WipedOK ==
    ASSUME NEW log, NEW w, NEW c, LogOK(log, w, c)
    PROVE  LET log2 == Wiped(log, c)
           IN  /\ LogOK(log2, 0, c)
               /\ Follows(log.journal, log2.journal)
               /\ log2.subscribers = log.subscribers
<1> DEFINE g == log.generation
           n == log.sequence
           j == log.journal
           x == Entry(0, c)
           j2 == [j EXCEPT ![g][n + 1] = x]
<1>1. /\ j \in Journals /\ g \in 1..Len(j)
      /\ n + 1 \in 1..Len(j[g])
      /\ Len(j[g]) = n + 1 /\ c \in Controllers
      /\ j[g][n + 1] = Entry(w, c)
  BY LastVersion DEF LogOK
<1>2. /\ x \in Entries /\ x.writes = 0
      /\ x.controller = j[g][n + 1].controller
  BY <1>1 DEF Entry, Entries
<1> HIDE DEF g, n, j, x
<1>3. /\ j2 \in Journals /\ Len(j2) = Len(j)
      /\ Len(j2[g]) = n + 1 /\ j2[g][n + 1] = x
      /\ Follows(j, j2)
  BY <1>1, <1>2, JournalWiped
<1> USE DEF g, n, j, x
<1>4. Wiped(log, c) = MakeLog(g, n, j2, log.subscribers)
  BY DEF Wiped
<1> HIDE DEF j2
<1>5. \A k \in Keys : EventsSound(log.subscribers[k].queue, j2)
  BY <1>1, <1>3, QueuesStaySound DEF LogOK
<1>6. LogOK(MakeLog(g, n, j2, log.subscribers), 0, c)
  BY <1>3, <1>5 DEF LogOK, MakeLog
<1> QED
  BY <1>3, <1>4, <1>6 DEF MakeLog

-----------------------------------------------------------------------------
(* The inductive invariant                                                  *)

RuntimeOK ==
    /\ started \in BOOLEAN /\ held \in BOOLEAN
    /\ process \in Processes /\ published \in Processes
    /\ screen \in Nat /\ shown \in Nat /\ shown <= screen

AnswersOK ==
    /\ answer \in [Keys -> Answer]
    /\ \A k \in Keys : EventsSound(answer[k].events, journal)

ControlOK ==
    preferred \in Controllers /\ ControllerAttached /\ ReservationHeld

Inv ==
    /\ LogOK(Log, shown, controller)
    /\ RuntimeOK
    /\ AnswersOK
    /\ ControlOK
    /\ completed \in Seq(Mutations)

(* What a handler owes: the log it stores is sound for the new state.       *)
Sound(log) ==
    /\ LogOK(log, shown', controller')
    /\ Follows(journal, log.journal)

(* What the invariant says of the properties that the runs check.           *)
LEMMA InvImplies ==
    Inv => TypeOK /\ QueueDiscipline /\ ControllerAttached /\ ReservationHeld
<1> SUFFICES ASSUME Inv
             PROVE  TypeOK /\ QueueDiscipline
  BY DEF Inv, ControlOK
<1>1. /\ generation \in Nat /\ sequence \in Nat
      /\ journal \in Journals
      /\ subscribers \in [Keys -> Subscriber]
      /\ QueueDiscipline
  BY DEF Inv, LogOK, Log, MakeLog, QueueDiscipline
<1>2. controller \in Controllers
  BY LastVersion DEF Inv
<1> QED
  BY <1>1, <1>2
     DEF Inv, TypeOK, RuntimeOK, AnswersOK, ControlOK, Journals

(* The log of a state that satisfies the invariant.                         *)
LEMMA LogFacts ==
    ASSUME Inv
    PROVE  /\ LogOK(Log, shown, controller)
           /\ Log.generation = generation /\ Log.sequence = sequence
           /\ Log.journal = journal /\ Log.subscribers = subscribers
           /\ journal \in Journals
           /\ subscribers \in [Keys -> Subscriber]
           /\ controller \in Controllers
           /\ generation \in Nat \ {0} /\ sequence \in Nat
           /\ shown \in Nat /\ screen \in Nat /\ shown <= screen
           /\ Follows(journal, journal)
<1>1. /\ LogOK(Log, shown, controller)
      /\ Log.generation = generation /\ Log.sequence = sequence
      /\ Log.journal = journal /\ Log.subscribers = subscribers
  BY DEF Inv, Log, MakeLog
<1>2. controller \in Controllers
  BY <1>1, LastVersion
<1>3. /\ journal \in Journals /\ subscribers \in [Keys -> Subscriber]
      /\ generation \in Nat \ {0} /\ sequence \in Nat
  BY <1>1 DEF LogOK
<1> QED
  BY <1>1, <1>2, <1>3, FollowsReflexive DEF Inv, RuntimeOK

(* The log a handler stores is the log of the next state.                   *)
LEMMA StoreOK ==
    ASSUME NEW log, Store(log), Sound(log)
    PROVE  /\ LogOK(Log, shown, controller)'
           /\ Follows(journal, journal') /\ journal' \in Journals
           /\ journal' = log.journal /\ subscribers' = log.subscribers
<1>1. /\ Log'.generation = log.generation /\ Log'.sequence = log.sequence
      /\ Log'.journal = log.journal /\ Log'.subscribers = log.subscribers
  BY DEF Store, Log, MakeLog
<1>2. LogOK(Log', shown', controller')
  BY <1>1 DEF Sound, LogOK
<1>3. journal' \in Journals
  BY DEF Sound, Store, LogOK
<1> QED
  BY <1>2, <1>3 DEF Store, Sound

(* Answers given stay sound while the journal goes on.                      *)
LEMMA AnswersKept ==
    ASSUME AnswersOK, UNCHANGED answer, journal \in Journals,
           journal' \in Journals, Follows(journal, journal')
    PROVE  AnswersOK'
BY QueuesStaySound DEF AnswersOK

(* A handler gives one answer, sound if its events are.                     *)
LEMMA RespondOK ==
    ASSUME AnswersOK, journal \in Journals,
           journal' \in Journals, Follows(journal, journal'),
           NEW k \in Keys, NEW live, NEW a \in Answer,
           EventsSound(a.events, journal'), Respond(k, live, a)
    PROVE  AnswersOK'
BY QueuesStaySound DEF AnswersOK, Respond

(* Answers without an event, or with one that is sound.                     *)
LEMMA NewAnswers ==
    ASSUME NEW j
    PROVE  /\ \A kind \in AnswerKinds :
                 /\ NewAnswer(kind, <<>>) \in Answer
                 /\ EventsSound(NewAnswer(kind, <<>>).events, j)
           /\ \A kind \in AnswerKinds, e \in Event :
                 EventSound(e, j) =>
                    /\ NewAnswer(kind, <<e>>) \in Answer
                    /\ EventsSound(NewAnswer(kind, <<e>>).events, j)
<1>1. <<>> \in Seq(Event) /\ Len(<<>>) = 0
  BY EmptySeq
<1>2. ASSUME NEW e \in Event
      PROVE  <<e>> \in Seq(Event) /\ Len(<<e>>) = 1 /\ <<e>>[1] = e
  OBVIOUS
<1> QED
  BY <1>1, <1>2 DEF NewAnswer, Answer, EventsSound

(* A snapshot of what is shown is sound for the current version.            *)
LEMMA SnapshotSound ==
    ASSUME NEW log, NEW w, NEW c, LogOK(log, w, c),
           NEW n \in Nat, w <= n, NEW p
    PROVE  LET e == Stamp("snapshot", log.generation, log.sequence, 1..n, c, p)
           IN  e \in Event /\ EventSound(e, log.journal)
<1> DEFINE e == Stamp("snapshot", log.generation, log.sequence, 1..n, c, p)
<1>1. /\ log.generation \in 1..Len(log.journal)
      /\ log.sequence + 1 \in 1..Len(log.journal[log.generation])
      /\ w \in Nat /\ c \in Controllers
  BY LastVersion
<1>2. /\ log.generation \in Nat /\ log.sequence \in Nat
      /\ log.journal[log.generation][log.sequence + 1] = Entry(w, c)
  BY DEF LogOK
<1>3. e \in Event
  BY <1>1, <1>2 DEF Stamp, Event, EventKinds
<1>4. /\ e.kind = "snapshot" /\ e.generation = log.generation
      /\ e.sequence = log.sequence /\ e.cells = 1..n /\ e.controller = c
  BY DEF Stamp
<1> HIDE DEF e
<1>5. EventSound(e, log.journal)
  BY <1>1, <1>2, <1>3, <1>4 DEF EventSound, Entry
<1> QED
  BY <1>3, <1>5 DEF e

-----------------------------------------------------------------------------
(* Joining                                                                  *)

(* The lease is in order while its holder stays attached.                   *)
LEMMA ControlKept ==
    ASSUME ControlOK, UNCHANGED controlVars,
           \A k \in Keys : subscribers[k].present => subscribers'[k].present
    PROVE  ControlOK'
BY DEF ControlOK, ControllerAttached, ReservationHeld, Attached, controlVars

(* The owner of a subscriber is a client.                                   *)
LEMMA OwnerClient ==
    ASSUME NEW k \in Keys
    PROVE  Owner(k) \in Clients /\ Owner(k) \in Controllers
           /\ Owner(k) # NoClient
BY ClientsAssumption DEF Keys, Owner, Controllers

(* What setting a subscriber leaves alone.                                  *)
LEMMA SetPresent ==
    ASSUME NEW log, NEW w, NEW c, LogOK(log, w, c), NEW k \in Keys, NEW s
    PROVE  /\ SetSubscriber(log, k, s).journal = log.journal
           /\ SetSubscriber(log, k, s).generation = log.generation
           /\ SetSubscriber(log, k, s).sequence = log.sequence
           /\ SetSubscriber(log, k, s).subscribers[k] = s
           /\ \A i \in Keys \ {k} : SetSubscriber(log, k, s).subscribers[i]
                                      = log.subscribers[i]
<1>1. DOMAIN log.subscribers = Keys
  BY DEF LogOK
<1> QED
  BY <1>1 DEF SetSubscriber, MakeLog

(* ensure_started(): a dead shell is started again in a new generation.     *)
LEMMA EnsuredLogOK ==
    ASSUME Inv
    PROVE  /\ LogOK(EnsuredLog, IF MustRestart THEN 0 ELSE shown, controller)
           /\ Follows(journal, EnsuredLog.journal)
           /\ \A k \in Keys : EnsuredLog.subscribers[k].present
                                = subscribers[k].present
<1>1. CASE MustRestart
  BY <1>1, LogFacts, NextGenerationOK DEF EnsuredLog
<1>2. CASE ~MustRestart
  BY <1>2, LogFacts DEF EnsuredLog
<1> QED
  BY <1>1, <1>2

(* A subscriber that joins may claim the lease, which is an event for the   *)
(* others.                                                                  *)
LEMMA JoinedLogOK ==
    ASSUME Inv, NEW k \in Keys
    PROVE  /\ LogOK(JoinedLog(k), IF MustRestart THEN 0 ELSE shown,
                    IF MayClaim(Owner(k)) THEN Owner(k) ELSE controller)
           /\ Follows(journal, JoinedLog(k).journal)
           /\ JoinedLog(k).subscribers[k].present
           /\ \A i \in Keys : subscribers[i].present =>
                                 JoinedLog(k).subscribers[i].present
<1> DEFINE w == IF MustRestart THEN 0 ELSE shown
           joined == SetSubscriber(EnsuredLog, k, Fresh)
           claimed == Emit(joined, "controller", {}, w, Owner(k), "running")
           final == SetSubscriber(claimed, k, Fresh)
<1>1. w \in Nat
  BY LogFacts
<1>2. LogOK(EnsuredLog, w, controller)
  BY EnsuredLogOK
<1>3. Fresh.present
  BY DEF Fresh, EmptyQueue
<1>4. /\ LogOK(joined, w, controller)
      /\ joined.journal = EnsuredLog.journal
      /\ joined.subscribers[k] = Fresh
      /\ \A i \in Keys : subscribers[i].present
                            => joined.subscribers[i].present
  BY <1>2, <1>3, EnsuredLogOK, SetSubscriberOK, SetPresent, EmptySubscribers
<1>5. /\ Follows(journal, joined.journal)
      /\ joined.journal \in Journals
  BY <1>4, EnsuredLogOK DEF LogOK
<1>6. CASE ~MayClaim(Owner(k))
  BY <1>3, <1>4, <1>5, <1>6 DEF JoinedLog
<1>7. CASE MayClaim(Owner(k))
  <2> HIDE DEF w, joined
  <2>2. /\ LogOK(claimed, w, Owner(k))
        /\ Follows(joined.journal, claimed.journal)
        /\ \A i \in Keys : claimed.subscribers[i].present
                             = joined.subscribers[i].present
    BY <1>4, ControllerEventOK, OwnerClient
  <2>3. claimed.journal \in Journals
    BY <2>2 DEF LogOK
  <2> HIDE DEF claimed
  <2>4. Follows(journal, claimed.journal)
    BY <1>5, <2>2, <2>3, LogFacts, FollowsTransitive
  <2>5. /\ LogOK(final, w, Owner(k)) /\ final.journal = claimed.journal
        /\ final.subscribers[k] = Fresh
        /\ \A i \in Keys : subscribers[i].present
                             => final.subscribers[i].present
    BY <1>3, <1>4, <2>2, SetSubscriberOK, SetPresent, EmptySubscribers
  <2>6. JoinedLog(k) = final
    BY <1>7 DEF JoinedLog, claimed, joined, w
  <2> QED
    BY <1>3, <1>7, <2>4, <2>5, <2>6 DEF w
<1> QED
  BY <1>6, <1>7

(* A handler that lets a subscriber in keeps the invariant.                 *)
LEMMA JoinOK ==
    ASSUME Inv, NEW k \in Keys, NEW announces, NEW live,
           NEW outcome \in {"fits", "deferred", "tooLarge"},
           Join(k, announces, outcome, live)
    PROVE  Inv' /\ Follows(journal, journal')
<1> DEFINE owner == IF MayClaim(Owner(k)) THEN Owner(k) ELSE controller
           w == IF MustRestart THEN 0 ELSE shown
           log == IF outcome = "deferred"
                  THEN SetSubscriber(JoinedLog(k), k, Deferred)
                  ELSE JoinedLog(k)
<1>1. /\ Store(log) /\ controller' = owner /\ shown' = w
      /\ process' = "running" /\ started' = TRUE
      /\ shown' <= screen' /\ screen' \in Nat /\ shown' \in Nat
      /\ held' \in BOOLEAN /\ published' \in Processes
  <2>1. /\ Store(log) /\ controller' = owner
        /\ process' = "running" /\ started' = TRUE
    BY DEF Join, EnsureRuntimeStarted
  <2>4. shown' = w /\ shown' <= screen' /\ screen' \in Nat /\ shown' \in Nat
    <3>1. CASE MustRestart
      BY <3>1 DEF Join, EnsureRuntimeStarted, ClearRuntime
    <3>2. CASE ~MustRestart
      BY <3>2, LogFacts DEF Join, EnsureRuntimeStarted
    <3> QED
      BY <3>1, <3>2
  <2>5. held' \in BOOLEAN
    BY DEF Join, EnsureRuntimeStarted, ClearRuntime, Inv, RuntimeOK
  <2>6. published' \in Processes
    BY DEF Join, Inv, RuntimeOK, Processes
  <2> QED
    BY <2>1, <2>4, <2>5, <2>6
<1>2. /\ LogOK(log, w, owner) /\ Follows(journal, log.journal)
      /\ log.subscribers[k].present
      /\ \A i \in Keys : subscribers[i].present => log.subscribers[i].present
  <2> DEFINE j == JoinedLog(k)
  <2>1. Deferred.present
    BY DEF Deferred, EmptyQueue
  <2>2. /\ LogOK(j, w, owner) /\ Follows(journal, j.journal)
        /\ j.subscribers[k].present
        /\ \A i \in Keys : subscribers[i].present => j.subscribers[i].present
    BY JoinedLogOK
  <2> HIDE DEF j, w, owner
  <2>4. /\ LogOK(SetSubscriber(j, k, Deferred), w, owner)
        /\ Follows(journal, SetSubscriber(j, k, Deferred).journal)
        /\ SetSubscriber(j, k, Deferred).subscribers[k].present
        /\ \A i \in Keys : subscribers[i].present =>
              SetSubscriber(j, k, Deferred).subscribers[i].present
    <3>1. /\ Deferred \in Subscriber
          /\ QueueOK(Deferred, j.generation, j.sequence)
          /\ EventsSound(Deferred.queue, j.journal)
      BY EmptySubscribers
    <3>2. LogOK(SetSubscriber(j, k, Deferred), w, owner)
      BY <2>2, <3>1, SetSubscriberOK
    <3> QED
      BY <2>1, <2>2, <3>2, SetPresent
  <2> QED
    BY <2>2, <2>4 DEF j
<1> HIDE DEF log, owner, w
<1>3. /\ LogOK(Log, shown, controller)' /\ Follows(journal, journal')
      /\ journal' \in Journals /\ subscribers' = log.subscribers
      /\ journal' = log.journal
  BY <1>1, <1>2, StoreOK DEF Sound
<1>4. RuntimeOK'
  BY <1>1 DEF RuntimeOK, Processes
<1>5. Snapshot' \in Event /\ EventSound(Snapshot', journal')
  <2>1. Snapshot' = Stamp("snapshot", log.generation, log.sequence,
                          1..screen', owner, process')
    BY <1>1 DEF Snapshot, Store
  <2> QED
    BY <1>1, <1>2, <1>3, <2>1, SnapshotSound
<1>6. AnswersOK'
  <2>1. PICK a \in Answer : /\ EventsSound(a.events, journal')
                            /\ Respond(k, live, a)
    <3>1. CASE outcome = "fits"
      BY <1>5, <3>1, NewAnswers DEF Join, AnswerKinds
    <3>2. CASE outcome = "deferred"
      BY <3>2, NewAnswers DEF Join, AnswerKinds
    <3>3. CASE outcome = "tooLarge"
      BY <3>3, NewAnswers DEF Join, AnswerKinds
    <3> QED
      BY <3>1, <3>2, <3>3
  <2> QED
    BY <1>3, <2>1, RespondOK, LogFacts DEF Inv
<1>7. ControlOK'
  <2>1. CASE MayClaim(Owner(k))
    <3>1. controller' = Owner(k) /\ preferred' = NoClient
      BY <1>1, <2>1 DEF Join, owner
    <3>2. Attached(controller)'
      BY <1>2, <1>3, <3>1 DEF Attached
    <3> QED
      BY <3>1, <3>2
         DEF ControlOK, ControllerAttached, ReservationHeld, Controllers
  <2>2. CASE ~MayClaim(Owner(k))
    <3>1. UNCHANGED controlVars
      BY <1>1, <2>2 DEF Join, owner, controlVars
    <3> QED
      BY <1>2, <1>3, <3>1, ControlKept DEF Inv
  <2> QED
    BY <2>1, <2>2
<1>8. completed' \in Seq(Mutations)
  BY DEF Join, Inv
<1> QED
  BY <1>3, <1>4, <1>6, <1>7, <1>8 DEF Inv

-----------------------------------------------------------------------------
(* Handlers that change one subscriber or none                              *)

(* So does one that changes nothing but a subscriber.                       *)
LEMMA SubscriberStep ==
    ASSUME Inv, NEW k \in Keys, NEW s \in Subscriber,
           s.present, QueueOK(s, generation, sequence),
           EventsSound(s.queue, journal),
           Store(SetSubscriber(Log, k, s)), UNCHANGED <<shown, controlVars>>
    PROVE  /\ LogOK(Log, shown, controller)' /\ ControlOK'
           /\ Follows(journal, journal') /\ journal' \in Journals
           /\ journal' = journal
<1> DEFINE log == SetSubscriber(Log, k, s)
<1>1. LogOK(log, shown, controller) /\ log.journal = journal
  BY LogFacts, SetSubscriberOK, SetPresent
<1>2. \A i \in Keys : subscribers[i].present => log.subscribers[i].present
  BY LogFacts, SetPresent
<1> HIDE DEF log
<1>3. Sound(log)
  BY <1>1, LogFacts DEF Sound, controlVars
<1>4. /\ LogOK(Log, shown, controller)' /\ Follows(journal, journal')
      /\ journal' \in Journals /\ journal' = journal
      /\ subscribers' = log.subscribers
  BY <1>1, <1>3, StoreOK DEF log
<1>5. ControlOK'
  BY <1>2, <1>4, ControlKept DEF Inv
<1> QED
  BY <1>4, <1>5

(* A poll of a hidden terminal keeps the invariant.                         *)
LEMMA PollHiddenOK ==
    ASSUME Inv, NEW k \in Keys, NEW live, PollHidden(k, live)
    PROVE  Inv' /\ Follows(journal, journal')
<1>1. /\ Suspended \in Subscriber /\ Suspended.present
      /\ QueueOK(Suspended, generation, sequence)
      /\ EventsSound(Suspended.queue, journal)
  BY EmptySubscribers DEF Suspended, EmptyQueue
<1>2. /\ LogOK(Log, shown, controller)' /\ ControlOK'
      /\ Follows(journal, journal') /\ journal' \in Journals
  BY <1>1, SubscriberStep DEF PollHidden, runtimeVars
<1>3. AnswersOK'
  BY <1>2, RespondOK, NewAnswers, LogFacts DEF Inv, PollHidden, AnswerKinds
<1>4. RuntimeOK' /\ completed' \in Seq(Mutations)
  BY DEF PollHidden, Inv, RuntimeOK, runtimeVars
<1> QED
  BY <1>2, <1>3, <1>4 DEF Inv

(* So does one that is answered by a snapshot ...                           *)
LEMMA PollResyncOK ==
    ASSUME Inv, NEW k \in Keys, NEW cursor, NEW live,
           NEW outcome \in {"fits", "deferred", "tooLarge"},
           PollResync(k, cursor, outcome, live)
    PROVE  Inv' /\ Follows(journal, journal')
<1>1. /\ LogOK(Log, shown, controller)' /\ ControlOK'
      /\ Follows(journal, journal') /\ journal' \in Journals
      /\ journal' = journal
  <2>1. CASE outcome = "fits"
    <3>1. /\ Fresh \in Subscriber /\ Fresh.present
          /\ QueueOK(Fresh, generation, sequence)
          /\ EventsSound(Fresh.queue, journal)
      BY EmptySubscribers DEF Fresh, EmptyQueue
    <3>2. Store(SetSubscriber(Log, k, Fresh))
      BY <2>1 DEF PollResync
    <3> QED
      BY <3>1, <3>2, SubscriberStep DEF PollResync, runtimeVars
  <2>2. CASE outcome # "fits"
    <3>1. Store(Log)
      BY <2>2 DEF PollResync
    <3>2. UNCHANGED <<shown, controlVars, journal, subscribers>>
      BY <3>1, LogFacts DEF PollResync, runtimeVars, Store
    <3>3. Sound(Log)
      BY <3>2, LogFacts DEF Sound, controlVars
    <3>4. ControlOK'
      BY <3>2, ControlKept DEF Inv
    <3> QED
      BY <3>1, <3>2, <3>3, <3>4, StoreOK
  <2> QED
    BY <2>1, <2>2
<1>2. PICK a \in Answer : EventsSound(a.events, journal) /\ Respond(k, live, a)
  <2>1. CASE outcome = "fits"
    <3>1. Snapshot \in Event /\ EventSound(Snapshot, journal)
      BY LogFacts, SnapshotSound DEF Snapshot
    <3> QED
      BY <2>1, <3>1, NewAnswers DEF PollResync, AnswerKinds
  <2>2. CASE outcome = "deferred"
    BY <2>2, NewAnswers DEF PollResync, AnswerKinds
  <2>3. CASE outcome = "tooLarge"
    BY <2>3, NewAnswers DEF PollResync, AnswerKinds
  <2> QED
    BY <2>1, <2>2, <2>3
<1>3. AnswersOK'
  BY <1>1, <1>2, RespondOK, LogFacts DEF Inv
<1>4. RuntimeOK' /\ completed' \in Seq(Mutations)
  BY DEF PollResync, Inv, RuntimeOK, runtimeVars
<1> QED
  BY <1>1, <1>3, <1>4 DEF Inv

(* Dropping acknowledged events, or sending only some, keeps a queue sound. *)
LEMMA SubQueue ==
    ASSUME NEW q \in Seq(Event), NEW m \in Nat, NEW n \in Nat, n <= Len(q),
           NEW j, EventsSound(q, j), Increasing(q), Len(q) <= QueueLimit
    PROVE  LET r == SubSeq(q, m + 1, n)
           IN  /\ r \in Seq(Event) /\ EventsSound(r, j) /\ Increasing(r)
               /\ Len(r) <= QueueLimit
               /\ \A i \in 1..Len(r) : \E h \in 1..Len(q) : r[i] = q[h]
<1> DEFINE r == SubSeq(q, m + 1, n)
<1>1. Len(q) \in Nat /\ \A i \in 1..Len(q) : q[i] \in Event
  BY LenProperties, ElementOfSeq
<1>2. /\ r \in Seq(Event)
      /\ Len(r) = IF m + 1 <= n THEN n - m ELSE 0
      /\ \A i \in 1..(n - m) : r[i] = q[m + i]
  <2>1. \A i \in (m + 1)..n : q[i] \in Event
    BY <1>1
  <2>2. /\ r \in Seq(Event)
        /\ Len(r) = IF m + 1 <= n THEN n - (m + 1) + 1 ELSE 0
        /\ \A i \in 1..(n - (m + 1) + 1) : r[i] = q[(m + 1) + i - 1]
    BY <2>1, SubSeqProperties
  <2>3. n - (m + 1) + 1 = n - m
    OBVIOUS
  <2>4. \A i \in 1..(n - m) : (m + 1) + i - 1 = m + i
    OBVIOUS
  <2> HIDE DEF r
  <2> QED
    BY <2>2, <2>3, <2>4
<1> HIDE DEF r
<1>3. \A i \in 1..Len(r) : m + i \in 1..Len(q) /\ r[i] = q[m + i]
  BY <1>1, <1>2
<1>4. EventsSound(r, j)
  BY <1>3 DEF EventsSound
<1>5. Increasing(r)
  <2>1. SUFFICES ASSUME NEW i \in 1..Len(r), NEW h \in 1..Len(r), i < h
                 PROVE  r[i].sequence < r[h].sequence
    BY DEF Increasing
  <2>2. m + i < m + h
    BY <1>1, <1>2, <2>1
  <2> QED
    BY <1>3, <2>2 DEF Increasing
<1>6. Len(r) <= QueueLimit
  BY <1>1, <1>2, LimitsAssumption
<1> QED
  BY <1>2, <1>3, <1>4, <1>5, <1>6 DEF r

(* ... or by the queued events its cursor can be followed by.               *)
LEMMA PollEventsOK ==
    ASSUME Inv, NEW k \in Keys, NEW cursor, NEW budget \in Nat, NEW live,
           PollEvents(k, cursor, budget, live)
    PROVE  Inv' /\ Follows(journal, journal')
<1> DEFINE s == subscribers[k]
           q == s.queue
<1>1. /\ s \in Subscriber /\ QueueOK(s, generation, sequence)
      /\ EventsSound(q, journal)
  BY LogFacts DEF LogOK
<1>2. /\ q \in Seq(Event) /\ Len(q) \in Nat /\ Len(q) <= QueueLimit
      /\ Increasing(q)
  BY <1>1, LenProperties DEF Subscriber, QueueOK
<1>3. s.present /\ ~s.suspended /\ ~s.needsResync
  BY DEF PollEvents, CanDeliver, Outdated
<1>4. PICK m \in 0..Len(q) :
         LET left == SubSeq(q, m + 1, Len(q))
             sent == IF budget < Len(left) THEN budget ELSE Len(left)
         IN  /\ Store(SetSubscriber(Log, k, [s EXCEPT !.queue = left]))
             /\ Respond(k, live, NewAnswer("events", SubSeq(left, 1, sent)))
  BY DEF PollEvents
<1> DEFINE left == SubSeq(q, m + 1, Len(q))
           sent == IF budget < Len(left) THEN budget ELSE Len(left)
           response == SubSeq(left, 1, sent)
<1>5. /\ left \in Seq(Event) /\ EventsSound(left, journal)
      /\ Increasing(left) /\ Len(left) <= QueueLimit
      /\ \A i \in 1..Len(left) : \E h \in 1..Len(q) : left[i] = q[h]
  BY <1>1, <1>2, SubQueue
<1> HIDE DEF left
<1>6. response \in Seq(Event) /\ EventsSound(response, journal)
  <2>1. sent \in Nat /\ sent <= Len(left)
    BY <1>5, LenProperties
  <2>2. SubSeq(left, 0 + 1, sent) = response
    OBVIOUS
  <2> HIDE DEF response, sent
  <2> QED
    BY <1>5, <2>1, <2>2, SubQueue
<1> HIDE DEF response
<1>7. /\ NewAnswer("events", response) \in Answer
      /\ EventsSound(NewAnswer("events", response).events, journal)
  BY <1>6 DEF NewAnswer, Answer, AnswerKinds
<1> DEFINE t == [s EXCEPT !.queue = left]
<1>8. /\ t \in Subscriber /\ t.present /\ t.queue = left
      /\ ~t.suspended /\ ~t.needsResync
  BY <1>1, <1>3, <1>5 DEF Subscriber
<1> HIDE DEF t
<1>9. QueueOK(t, generation, sequence)
  <2>1. \A i \in 1..Len(left) :
           left[i].generation = generation /\ left[i].sequence <= sequence
    BY <1>1, <1>5 DEF QueueOK
  <2> QED
    BY <1>5, <1>8, <2>1 DEF QueueOK
<1>10. /\ Store(SetSubscriber(Log, k, t))
       /\ Respond(k, live, NewAnswer("events", response))
  BY <1>4 DEF t, left, response
<1>11. /\ LogOK(Log, shown, controller)' /\ ControlOK'
       /\ Follows(journal, journal') /\ journal' \in Journals
       /\ journal' = journal
  BY <1>5, <1>8, <1>9, <1>10, SubscriberStep DEF PollEvents, runtimeVars
<1>12. AnswersOK'
  BY <1>7, <1>10, <1>11, RespondOK, LogFacts DEF Inv
<1>13. RuntimeOK' /\ completed' \in Seq(Mutations)
  BY DEF PollEvents, Inv, RuntimeOK, runtimeVars
<1> QED
  BY <1>11, <1>12, <1>13 DEF Inv

-----------------------------------------------------------------------------
(* The other handlers                                                       *)

(* What remains to be shown of a handler that answers nobody. *)
LEMMA Stored ==
    ASSUME Inv, NEW log, Store(log), Sound(log), RuntimeOK', ControlOK',
           UNCHANGED answer, completed' \in Seq(Mutations)
    PROVE  Inv' /\ Follows(journal, journal')
<1>1. /\ LogOK(Log, shown, controller)' /\ Follows(journal, journal')
      /\ journal' \in Journals
  BY StoreOK
<1>2. AnswersOK'
  BY <1>1, LogFacts, AnswersKept DEF Inv
<1> QED
  BY <1>1, <1>2 DEF Inv

(* A handler that leaves the log alone. *)
LEMMA LogUntouched ==
    ASSUME Inv, UNCHANGED <<logVars, shown, controlVars>>
    PROVE  /\ LogOK(Log, shown, controller)' /\ ControlOK'
           /\ Follows(journal, journal') /\ journal' \in Journals
<1>1. UNCHANGED <<generation, sequence, journal, subscribers, controller>>
  BY DEF logVars, controlVars
<1>2. Store(Log) /\ Sound(Log)
  BY <1>1, LogFacts DEF Store, Sound
<1>3. ControlOK'
  BY <1>1, ControlKept DEF Inv
<1> QED
  BY <1>2, <1>3, StoreOK

(* Completed mutations stay a bounded list of them.                         *)
LEMMA RememberOK ==
    ASSUME completed \in Seq(Mutations), NEW c \in Clients,
           NEW op \in Operations, NEW id \in RequestIds, Remember(c, op, id)
    PROVE  completed' \in Seq(Mutations)
<1> DEFINE m == Mutation(c, op, id)
           all == Append(completed, m)
<1>1. CASE id = 0
  BY <1>1 DEF Remember
<1>2. CASE id # 0
  <2>1. m \in Mutations
    BY <1>2 DEF Mutation, Mutations
  <2>2. all \in Seq(Mutations) /\ all # <<>>
    BY <2>1, AppendProperties
  <2>3. Tail(all) \in Seq(Mutations)
    BY <2>2, HeadTailProperties
  <2>4. completed' = IF Len(all) > MutationLimit THEN Tail(all) ELSE all
    BY <1>2 DEF Remember
  <2> QED
    BY <2>2, <2>3, <2>4
<1> QED
  BY <1>1, <1>2

(* A failed restart. *)
LEMMA RestartFailsOK ==
    ASSUME Inv, RestartFails, UNCHANGED controller
    PROVE  /\ Sound(Wiped(Log, controller)) /\ Store(Wiped(Log, controller))
           /\ subscribers' = subscribers
           /\ screen' = 0 /\ shown' = 0 /\ held' = FALSE
           /\ process' \in Processes /\ started' = started
<1> DEFINE log == Wiped(Log, controller)
<1>1. /\ LogOK(log, 0, controller) /\ Follows(journal, log.journal)
      /\ log.subscribers = subscribers
  BY LogFacts, WipedOK
<1>2. /\ screen' = 0 /\ shown' = 0 /\ held' = FALSE
      /\ process' \in Processes /\ started' = started /\ Store(log)
  BY DEF RestartFails, ClearRuntime, Processes
<1> HIDE DEF log
<1> QED
  BY <1>1, <1>2 DEF Sound, Store, log

(* A subscriber whose shell cannot start is told so.                        *)
LEMMA JoinFailsOK ==
    ASSUME Inv, NEW k \in Keys, NEW live, JoinFails(k, live)
    PROVE  Inv' /\ Follows(journal, journal')
<1>1. /\ LogOK(Log, shown, controller)' /\ ControlOK'
      /\ Follows(journal, journal') /\ journal' \in Journals /\ RuntimeOK'
  <2>1. CASE MustRestart
    <3>1. RestartFails /\ UNCHANGED <<controlVars, published>>
      BY <2>1 DEF JoinFails
    <3>2. /\ Sound(Wiped(Log, controller)) /\ Store(Wiped(Log, controller))
          /\ subscribers' = subscribers
          /\ screen' = 0 /\ shown' = 0 /\ held' = FALSE
          /\ process' \in Processes /\ started' = started
      BY <3>1, RestartFailsOK DEF controlVars
    <3>3. RuntimeOK'
      <4>1. started' \in BOOLEAN /\ published' \in Processes
        BY <3>1, <3>2 DEF Inv, RuntimeOK
      <4>2. screen' \in Nat /\ shown' \in Nat /\ shown' <= screen'
        BY <3>2
      <4>3. held' \in BOOLEAN
        BY <3>2
      <4> QED
        BY <3>2, <4>1, <4>2, <4>3 DEF RuntimeOK
    <3>4. ControlOK'
      BY <3>1, <3>2, ControlKept DEF Inv
    <3> QED
      BY <3>2, <3>3, <3>4, StoreOK
  <2>2. CASE ~MustRestart
    <3>1. UNCHANGED <<logVars, runtimeVars, controlVars, published>>
      BY <2>2 DEF JoinFails
    <3>2. RuntimeOK'
      BY <3>1 DEF Inv, RuntimeOK, runtimeVars
    <3> QED
      BY <3>1, <3>2, LogUntouched DEF runtimeVars
  <2> QED
    BY <2>1, <2>2
<1>2. AnswersOK'
  BY <1>1, RespondOK, NewAnswers, LogFacts DEF Inv, JoinFails, AnswerKinds
<1>3. completed' \in Seq(Mutations)
  BY DEF Inv, JoinFails
<1> QED
  BY <1>1, <1>2, <1>3 DEF Inv

(* A poll of a subscriber that is not there is refused.                     *)
LEMMA PollRefusedOK ==
    ASSUME Inv, NEW k \in Keys, NEW cursor, NEW live,
           PollRefused(k, cursor, live)
    PROVE  Inv' /\ Follows(journal, journal')
<1>1. UNCHANGED <<logVars, runtimeVars, published, controlVars, completed>>
  BY DEF PollRefused
<1>2. /\ LogOK(Log, shown, controller)' /\ ControlOK'
      /\ Follows(journal, journal') /\ journal' \in Journals
  BY <1>1, LogUntouched DEF runtimeVars
<1>3. AnswersOK'
  BY <1>2, RespondOK, NewAnswers, LogFacts DEF Inv, PollRefused, AnswerKinds
<1> QED
  BY <1>1, <1>2, <1>3 DEF Inv, RuntimeOK, runtimeVars

(* The client takes its answer.                                             *)
LEMMA TakeAnswerOK ==
    ASSUME Inv, NEW k \in Keys, TakeAnswer(k)
    PROVE  Inv' /\ Follows(journal, journal')
<1>1. UNCHANGED <<logVars, runtimeVars, published, controlVars, completed>>
  BY DEF TakeAnswer
<1>2. /\ LogOK(Log, shown, controller)' /\ ControlOK'
      /\ Follows(journal, journal') /\ journal' \in Journals
  BY <1>1, LogUntouched DEF runtimeVars
<1>3. Respond(k, TRUE, NoAnswer)
  BY DEF TakeAnswer, Respond
<1>4. AnswersOK'
  BY <1>2, <1>3, RespondOK, NewAnswers, LogFacts
     DEF Inv, NoAnswer, AnswerKinds
<1> QED
  BY <1>1, <1>2, <1>4 DEF Inv, RuntimeOK, runtimeVars

-----------------------------------------------------------------------------
(* Output                                                                   *)

(* Output of the shell is an event, or withheld.                            *)
LEMMA FedLogOK ==
    ASSUME Inv, NEW w \in Nat, NEW hold \in BOOLEAN, NEW copied
    PROVE  LET log == FedLog(w, hold, copied)
           IN  /\ LogOK(log, IF hold THEN shown ELSE screen + w, controller)
               /\ Follows(journal, log.journal)
               /\ \A k \in Keys : log.subscribers[k].present
                                    = subscribers[k].present
<1> DEFINE writes == IF hold THEN shown ELSE screen + w
           drawn == IF hold THEN Log
                    ELSE Emit(Log, "delta", (shown + 1)..(screen + w), writes,
                              controller, process)
           log == FedLog(w, hold, copied)
<1>1. writes \in Nat
  BY LogFacts
<1>3. /\ LogOK(drawn, writes, controller)
      /\ Follows(journal, drawn.journal)
      /\ \A k \in Keys : drawn.subscribers[k].present = subscribers[k].present
  <2>1. CASE hold
    BY <2>1, LogFacts
  <2>2. CASE ~hold
    <3> DEFINE n == screen + w
    <3>1. n \in Nat /\ shown <= n /\ writes = n
      BY <2>2, LogFacts
    <3> HIDE DEF n
    <3>2. /\ LogOK(Emit(Log, "delta", (shown + 1)..n, n, controller, process),
                   n, controller)
          /\ Follows(Log.journal,
                Emit(Log, "delta", (shown + 1)..n, n, controller, process)
                   .journal)
          /\ \A k \in Keys :
                Emit(Log, "delta", (shown + 1)..n, n, controller, process)
                   .subscribers[k].present = Log.subscribers[k].present
      BY <3>1, LogFacts, OutputEventOK
    <3>3. drawn = Emit(Log, "delta", (shown + 1)..n, n, controller, process)
      BY <2>2 DEF n
    <3> QED
      BY <3>1, <3>2, <3>3, LogFacts
  <2> QED
    BY <2>1, <2>2
<1>4. log = IF copied
            THEN Emit(drawn, "clipboard", {}, writes, controller, process)
            ELSE drawn
  BY DEF FedLog
<1> HIDE DEF drawn, log
<1> DEFINE told == Emit(drawn, "clipboard", {}, writes, controller, process)
<1>5. /\ LogOK(told, writes, controller)
      /\ Follows(drawn.journal, told.journal)
      /\ \A k \in Keys : told.subscribers[k].present
                           = drawn.subscribers[k].present
  <2> HIDE DEF writes
  <2> QED
    BY <1>3, StatusOK
<1> HIDE DEF told
<1>7. drawn.journal \in Journals /\ told.journal \in Journals
  BY <1>3, <1>5 DEF LogOK
<1>6. Follows(journal, told.journal)
  BY <1>3, <1>5, <1>7, LogFacts, FollowsTransitive
<1> QED
  BY <1>3, <1>4, <1>5, <1>6 DEF log, told, writes

(* What the shell wrote and what is shown agree with it.                    *)
LEMMA FeedOK ==
    ASSUME Inv, NEW w \in Nat, NEW hold \in BOOLEAN, Feed(w, hold),
           published' \in Processes
    PROVE  RuntimeOK' /\ shown' = IF hold THEN shown ELSE screen + w
<1>1. shown' = IF hold THEN shown ELSE screen + w
  BY DEF Feed
<1>2. screen' \in Nat /\ shown' \in Nat /\ shown' <= screen'
  BY <1>1, LogFacts DEF Feed
<1>3. started' \in BOOLEAN /\ process' \in Processes
  BY DEF Feed, Inv, RuntimeOK
<1>4. held' \in BOOLEAN
  BY DEF Feed
<1> QED
  BY <1>1, <1>2, <1>3, <1>4 DEF RuntimeOK

(* Pumping output keeps the invariant.                                      *)
LEMMA PumpOutputOK ==
    ASSUME Inv, NEW w \in Nat, NEW hold \in BOOLEAN, NEW copied,
           PumpOutput(w, hold, copied)
    PROVE  Inv' /\ Follows(journal, journal')
<1> DEFINE writes == IF hold THEN shown ELSE screen + w
           fed == FedLog(w, hold, copied)
           told == Emit(fed, "controller", {}, writes, controller, process)
           log == IF process = published THEN fed ELSE told
<1>1. /\ Feed(w, hold) /\ Store(log)
      /\ published' \in Processes /\ completed' = completed
      /\ UNCHANGED answer /\ UNCHANGED controlVars
  BY DEF PumpOutput, Inv, RuntimeOK
<1>2. RuntimeOK' /\ shown' = writes
  BY <1>1, FeedOK
<1>3. /\ LogOK(fed, writes, controller) /\ Follows(journal, fed.journal)
      /\ \A k \in Keys : fed.subscribers[k].present = subscribers[k].present
  BY FedLogOK
<1> HIDE DEF fed, writes
<1>4. /\ LogOK(told, writes, controller) /\ Follows(fed.journal, told.journal)
      /\ told.journal \in Journals
      /\ \A k \in Keys : told.subscribers[k].present
                           = fed.subscribers[k].present
  BY <1>3, StatusOK
<1> HIDE DEF told
<1>5. fed.journal \in Journals
  BY <1>3 DEF LogOK
<1>9. Follows(journal, told.journal)
  BY <1>3, <1>4, <1>5, LogFacts, FollowsTransitive
<1>6. /\ Sound(log)
      /\ \A k \in Keys : log.subscribers[k].present = subscribers[k].present
  BY <1>1, <1>2, <1>3, <1>4, <1>9 DEF Sound, controlVars
<1> HIDE DEF log
<1>7. subscribers' = log.subscribers
  BY <1>1 DEF Store
<1>8. ControlOK'
  BY <1>1, <1>6, <1>7, ControlKept DEF Inv
<1> QED
  BY <1>1, <1>2, <1>6, <1>8, Stored DEF Inv

(* So does publishing that a process has ended ...                          *)
LEMMA PumpStatusOK ==
    ASSUME Inv, PumpStatus
    PROVE  Inv' /\ Follows(journal, journal')
<1> DEFINE log == Emit(Log, "controller", {}, shown, controller, process)
<1>1. /\ LogOK(log, shown, controller) /\ Follows(journal, log.journal)
      /\ \A k \in Keys : log.subscribers[k].present = subscribers[k].present
  BY LogFacts, StatusOK
<1> HIDE DEF log
<1>2. /\ Store(log) /\ UNCHANGED <<runtimeVars, controlVars, completed, answer>>
      /\ published' = process
  BY DEF PumpStatus, log
<1>3. Sound(log)
  BY <1>1, <1>2 DEF Sound, runtimeVars, controlVars
<1>4. ControlOK'
  BY <1>1, <1>2, ControlKept DEF Inv, Store
<1>5. RuntimeOK'
  BY <1>2 DEF Inv, RuntimeOK, runtimeVars
<1> QED
  BY <1>2, <1>3, <1>4, <1>5, Stored DEF Inv

(* ... and the end of one.                                                  *)
LEMMA ProcessExitsOK ==
    ASSUME Inv, ProcessExits
    PROVE  Inv' /\ Follows(journal, journal')
<1>1. UNCHANGED <<logVars, shown, controlVars>>
  BY DEF ProcessExits
<1>2. /\ LogOK(Log, shown, controller)' /\ ControlOK'
      /\ Follows(journal, journal') /\ journal' \in Journals
  BY <1>1, LogUntouched
<1>3. AnswersOK'
  BY <1>2, LogFacts, AnswersKept DEF Inv, ProcessExits
<1>4. RuntimeOK'
  <2>1. process' \in Processes
    BY DEF ProcessExits, Processes
  <2> QED
    BY <2>1 DEF ProcessExits, Inv, RuntimeOK
<1> QED
  BY <1>2, <1>3, <1>4 DEF Inv, ProcessExits

-----------------------------------------------------------------------------
(* Mutations                                                                *)

(* Suspending a subscriber keeps the invariant.                             *)
LEMMA SuspendOK ==
    ASSUME Inv, NEW c \in Clients, NEW id \in RequestIds, Suspend(c, id)
    PROVE  Inv' /\ Follows(journal, journal')
<1> DEFINE k == <<c, 0>>
<1>1. /\ k \in Keys /\ Store(SetSubscriber(Log, k, Suspended))
      /\ UNCHANGED <<shown, controlVars>>
  BY DEF Suspend, runtimeVars
<1>2. /\ Suspended \in Subscriber /\ Suspended.present
      /\ QueueOK(Suspended, generation, sequence)
      /\ EventsSound(Suspended.queue, journal)
  BY EmptySubscribers DEF Suspended, EmptyQueue
<1> HIDE DEF k
<1>3. /\ LogOK(Log, shown, controller)' /\ ControlOK'
      /\ Follows(journal, journal') /\ journal' \in Journals
  BY <1>1, <1>2, SubscriberStep
<1>4. AnswersOK'
  BY <1>3, LogFacts, AnswersKept DEF Inv, Suspend
<1>5. completed' \in Seq(Mutations)
  BY RememberOK DEF Inv, Suspend, Operations
<1>6. RuntimeOK'
  BY DEF Suspend, Inv, RuntimeOK, runtimeVars
<1> QED
  BY <1>3, <1>4, <1>5, <1>6 DEF Inv

(* So does input ...                                                        *)
LEMMA InputOK ==
    ASSUME Inv, NEW c \in Clients, NEW id \in RequestIds, Input(c, id)
    PROVE  Inv' /\ Follows(journal, journal')
<1>1. UNCHANGED <<logVars, runtimeVars, published, controlVars, answer>>
  BY DEF Input
<1>2. /\ LogOK(Log, shown, controller)' /\ ControlOK'
      /\ Follows(journal, journal') /\ journal' \in Journals
  BY <1>1, LogUntouched DEF runtimeVars
<1>3. AnswersOK'
  BY <1>1, <1>2, LogFacts, AnswersKept DEF Inv
<1>4. completed' \in Seq(Mutations)
  BY RememberOK DEF Inv, Input, Operations
<1>5. RuntimeOK'
  BY <1>1 DEF Inv, RuntimeOK, runtimeVars
<1> QED
  BY <1>2, <1>3, <1>4, <1>5 DEF Inv

(* ... with output the shell has written before it ...                      *)
LEMMA InputWithOutputOK ==
    ASSUME Inv, NEW c \in Clients, NEW id \in RequestIds,
           NEW w \in Nat, NEW hold \in BOOLEAN, NEW copied,
           InputWithOutput(c, id, w, hold, copied)
    PROVE  Inv' /\ Follows(journal, journal')
<1> DEFINE writes == IF hold THEN shown ELSE screen + w
           log == FedLog(w, hold, copied)
<1>1. /\ Feed(w, hold) /\ Store(log) /\ UNCHANGED answer
      /\ UNCHANGED controlVars
  BY DEF InputWithOutput
<1>2. published' \in Processes
  BY DEF InputWithOutput, Inv, RuntimeOK
<1>3. RuntimeOK' /\ shown' = writes
  BY <1>1, <1>2, FeedOK
<1>4. /\ LogOK(log, writes, controller) /\ Follows(journal, log.journal)
      /\ \A k \in Keys : log.subscribers[k].present = subscribers[k].present
  BY FedLogOK
<1> HIDE DEF log, writes
<1>5. Sound(log)
  BY <1>1, <1>3, <1>4 DEF Sound, controlVars
<1>6. subscribers' = log.subscribers
  BY <1>1 DEF Store
<1>7. ControlOK'
  BY <1>1, <1>4, <1>6, ControlKept DEF Inv
<1>8. completed' \in Seq(Mutations)
  BY RememberOK DEF Inv, InputWithOutput, Operations
<1> QED
  BY <1>1, <1>3, <1>5, <1>7, <1>8, Stored

(* ... and a resize, which redraws the screen ...                           *)
LEMMA ResizeOK ==
    ASSUME Inv, NEW c \in Clients, NEW id \in RequestIds, Resize(c, id)
    PROVE  Inv' /\ Follows(journal, journal')
<1> DEFINE n == screen + 1
           cells == 1..n
           kind == "redraw"
           log == Emit(Log, kind, cells, n, controller, process)
<1>1. /\ Store(log) /\ UNCHANGED answer /\ UNCHANGED controlVars
      /\ screen' = n /\ shown' = n
      /\ UNCHANGED <<started, process, held, published>>
  BY DEF Resize
<1>2. /\ n \in Nat /\ cells \in SUBSET Nat
      /\ kind \in EventKinds \ {"snapshot"}
      /\ \A i \in 1..n : i \in cells
  BY LogFacts DEF EventKinds
<1>3. RuntimeOK'
  BY <1>1, <1>2 DEF Inv, RuntimeOK
<1> HIDE DEF n, cells, kind
<1>4. /\ LogOK(log, n, controller) /\ Follows(Log.journal, log.journal)
      /\ \A k \in Keys : log.subscribers[k].present
                           = Log.subscribers[k].present
  BY <1>2, LogFacts, EmitOK
<1> HIDE DEF log
<1>5. Sound(log) /\ subscribers' = log.subscribers
  BY <1>1, <1>4, LogFacts DEF Sound, controlVars, Store
<1>6. ControlOK'
  BY <1>1, <1>4, <1>5, LogFacts, ControlKept DEF Inv
<1>7. completed' \in Seq(Mutations)
  BY RememberOK DEF Inv, Resize, Operations
<1> QED
  BY <1>1, <1>3, <1>5, <1>6, <1>7, Stored

(* ... or fails, and wipes it.                                              *)
LEMMA ResizeFailsOK ==
    ASSUME Inv, NEW c \in Clients, NEW id \in RequestIds, ResizeFails(c, id)
    PROVE  Inv' /\ Follows(journal, journal')
<1> DEFINE log == Wiped(Log, controller)
<1>1. /\ Store(log) /\ UNCHANGED <<started, published, completed, answer>>
      /\ UNCHANGED controlVars
      /\ screen' = 0 /\ shown' = 0 /\ held' = FALSE
  BY DEF ResizeFails, ClearRuntime
<1>2. process' \in Processes
  BY DEF ResizeFails, Inv, RuntimeOK, Processes
<1>3. /\ LogOK(log, 0, controller) /\ Follows(journal, log.journal)
      /\ log.subscribers = subscribers
  BY LogFacts, WipedOK
<1> HIDE DEF log
<1>4. Sound(log) /\ subscribers' = subscribers
  BY <1>1, <1>3 DEF Sound, controlVars, Store
<1>5. RuntimeOK'
  <2>1. started' \in BOOLEAN /\ published' \in Processes
    BY <1>1 DEF Inv, RuntimeOK
  <2>2. screen' \in Nat /\ shown' \in Nat /\ shown' <= screen'
    BY <1>1
  <2>3. held' \in BOOLEAN
    BY <1>1
  <2> QED
    BY <1>2, <2>1, <2>2, <2>3 DEF RuntimeOK
<1>6. ControlOK'
  BY <1>1, <1>4, ControlKept DEF Inv
<1> QED
  BY <1>1, <1>4, <1>5, <1>6, Stored DEF Inv

(* Taking control keeps the invariant.                                      *)
LEMMA TakeControlOK ==
    ASSUME Inv, NEW c \in Clients, NEW id \in RequestIds, TakeControl(c, id)
    PROVE  Inv' /\ Follows(journal, journal')
<1>1. /\ UNCHANGED <<runtimeVars, published, answer>>
      /\ completed' \in Seq(Mutations)
      /\ Attached(c) /\ c \in Controllers
  BY RememberOK DEF TakeControl, Inv, Operations, Accepts, Controllers
<1>2. RuntimeOK'
  BY <1>1 DEF Inv, RuntimeOK, runtimeVars
<1>3. CASE controller = c
  <2>1. UNCHANGED <<logVars, shown, controlVars>>
    BY <1>1, <1>3 DEF TakeControl, runtimeVars
  <2>2. /\ LogOK(Log, shown, controller)' /\ ControlOK'
        /\ Follows(journal, journal') /\ journal' \in Journals
    BY <2>1, LogUntouched
  <2>3. AnswersOK'
    BY <1>1, <2>2, LogFacts, AnswersKept DEF Inv
  <2> QED
    BY <1>1, <1>2, <2>2, <2>3 DEF Inv
<1>4. CASE controller # c
  <2> DEFINE log == Emit(Log, "controller", {}, shown, c, process)
  <2>1. /\ LogOK(log, shown, c) /\ Follows(Log.journal, log.journal)
        /\ \A k \in Keys : log.subscribers[k].present
                             = Log.subscribers[k].present
    BY <1>1, LogFacts, ControllerEventOK
  <2>2. Store(log) /\ controller' = c /\ preferred' = NoClient
    BY <1>4 DEF TakeControl
  <2> HIDE DEF log
  <2>3. Sound(log) /\ subscribers' = log.subscribers
    BY <1>1, <2>1, <2>2, LogFacts DEF Sound, runtimeVars, Store
  <2>4. Attached(c)'
    BY <1>1, <2>1, <2>3, LogFacts DEF Attached
  <2>5. ControlOK'
    BY <2>2, <2>4
       DEF ControlOK, ControllerAttached, ReservationHeld, Controllers
  <2> QED
    BY <1>1, <1>2, <2>2, <2>3, <2>5, Stored
<1> QED
  BY <1>3, <1>4

(* A client that goes takes its subscribers and its lease with it.          *)
LEMMA DisconnectClientOK ==
    ASSUME Inv, NEW c \in Clients, DisconnectClient(c),
           UNCHANGED <<runtimeVars, published, answer>>,
           completed' \in Seq(Mutations)
    PROVE  Inv' /\ Follows(journal, journal')
<1> DEFINE subs == [k \in Keys |-> IF Owner(k) = c THEN Absent
                                   ELSE subscribers[k]]
           left == MakeLog(generation, sequence, journal, subs)
           log == Emit(left, "controller", {}, shown, NoClient, process)
<1>1. RuntimeOK' /\ shown' = shown
  BY DEF Inv, RuntimeOK, runtimeVars
<1>3. /\ left.subscribers = subs /\ left.journal = journal
      /\ left.generation = generation /\ left.sequence = sequence
  BY DEF MakeLog
<1>2. LogOK(left, shown, controller)
  <2>1. /\ \A k \in Keys : /\ subscribers[k] \in Subscriber
                            /\ QueueOK(subscribers[k], generation, sequence)
                            /\ EventsSound(subscribers[k].queue, journal)
    BY LogFacts DEF LogOK
  <2>2. \A k \in Keys : /\ subs[k] \in Subscriber
                        /\ QueueOK(subs[k], generation, sequence)
                        /\ EventsSound(subs[k].queue, journal)
    BY <2>1, EmptySubscribers
  <2>3. subs \in [Keys -> Subscriber]
    BY <2>2
  <2> HIDE DEF subs, left
  <2> QED
    BY <1>3, <2>2, <2>3, LogFacts DEF LogOK
<1>4. CASE controller = c
  <2>1. /\ Store(log) /\ controller' = NoClient /\ preferred' = preferred
    BY <1>4 DEF DisconnectClient
  <2> HIDE DEF left
  <2>2. LogOK(log, shown, NoClient) /\ Follows(left.journal, log.journal)
    BY <1>2, ControllerEventOK DEF Controllers
  <2> HIDE DEF log
  <2>3. Sound(log)
    BY <1>1, <1>3, <2>1, <2>2 DEF Sound
  <2>4. ControlOK'
    BY <2>1 DEF Inv, ControlOK, ControllerAttached, ReservationHeld
  <2> QED
    BY <1>1, <2>1, <2>3, <2>4, Stored
<1>5. CASE controller # c
  <2>1. Store(left) /\ UNCHANGED controlVars
    BY <1>5 DEF DisconnectClient
  <2>2. subscribers' = subs
    BY <1>3, <2>1 DEF Store
  <2>3. ControllerAttached'
    <3>1. SUFFICES ASSUME controller # NoClient PROVE Attached(controller)'
      BY <2>1 DEF ControllerAttached, controlVars
    <3>2. PICK k \in Keys : Owner(k) = controller /\ subscribers[k].present
      BY <3>1 DEF Inv, ControlOK, ControllerAttached, Attached
    <3>3. subscribers'[k].present /\ Owner(k) = controller'
      BY <1>5, <2>1, <2>2, <3>2 DEF controlVars
    <3> QED
      BY <3>3 DEF Attached
  <2>4. ControlOK'
    BY <2>1, <2>3 DEF Inv, ControlOK, ReservationHeld, controlVars
  <2> HIDE DEF left
  <2>5. Sound(left)
    BY <1>1, <1>2, <1>3, <2>1, LogFacts DEF Sound, controlVars
  <2> QED
    BY <1>1, <2>1, <2>4, <2>5, Stored
<1> QED
  BY <1>4, <1>5

(* A restart, asked for by the controller or by the kernel. *)
LEMMA RestartRuntimeOK ==
    ASSUME Inv, RestartRuntime, UNCHANGED <<controlVars, answer>>,
           completed' \in Seq(Mutations)
    PROVE  Inv' /\ Follows(journal, journal')
<1> DEFINE log == NextGeneration(Log, controller)
<1>1. /\ LogOK(log, 0, controller) /\ Follows(Log.journal, log.journal)
      /\ \A k \in Keys : log.subscribers[k].present
                           = Log.subscribers[k].present
  BY LogFacts, NextGenerationOK
<1> HIDE DEF log
<1>2. /\ Store(log) /\ shown' = 0 /\ screen' = 0 /\ held' = FALSE
      /\ process' = "running" /\ published' = "running" /\ started' = TRUE
  BY DEF RestartRuntime, ClearRuntime, log
<1>3. Sound(log) /\ subscribers' = log.subscribers
  BY <1>1, <1>2, LogFacts DEF Sound, controlVars, Store
<1>4. RuntimeOK'
  <2>1. process' \in Processes /\ published' \in Processes
    BY <1>2 DEF Processes
  <2>2. screen' \in Nat /\ shown' \in Nat /\ shown' <= screen'
    BY <1>2
  <2>3. started' \in BOOLEAN /\ held' \in BOOLEAN
    BY <1>2
  <2> QED
    BY <2>1, <2>2, <2>3 DEF RuntimeOK
<1>5. ControlOK'
  BY <1>1, <1>3, LogFacts, ControlKept DEF Inv
<1> QED
  BY <1>2, <1>3, <1>4, <1>5, Stored

(* A restart that fails leaves the version, which stands for less.          *)
LEMMA RestartFailsStep ==
    ASSUME Inv, RestartFails, UNCHANGED <<controlVars, answer, published>>,
           UNCHANGED completed
    PROVE  Inv' /\ Follows(journal, journal')
<1>1. /\ Sound(Wiped(Log, controller)) /\ Store(Wiped(Log, controller))
      /\ subscribers' = subscribers
      /\ screen' = 0 /\ shown' = 0 /\ held' = FALSE
      /\ process' \in Processes /\ started' = started
  BY RestartFailsOK DEF controlVars
<1>2. RuntimeOK'
  <2>1. started' \in BOOLEAN /\ published' \in Processes
    BY <1>1 DEF Inv, RuntimeOK
  <2>2. screen' \in Nat /\ shown' \in Nat /\ shown' <= screen'
    BY <1>1
  <2>3. held' \in BOOLEAN
    BY <1>1
  <2> QED
    BY <1>1, <2>1, <2>2, <2>3 DEF RuntimeOK
<1>3. ControlOK'
  BY <1>1, ControlKept DEF Inv
<1> QED
  BY <1>1, <1>2, <1>3, Stored DEF Inv

-----------------------------------------------------------------------------
(* Every step                                                               *)

(* A terminal begins with the invariant.                                    *)
LEMMA InitOK == Init => Inv
<1> SUFFICES ASSUME Init PROVE Inv
  OBVIOUS
<1> DEFINE log == MakeLog(1, 0, journal, subscribers)
<1>1. Log = log /\ shown = 0 /\ controller = NoClient
  BY DEF Init, Log
<1>2. /\ NoClient \in Controllers
      /\ <<Entry(0, NoClient)>> \in Seq(Entries)
      /\ journal = << <<Entry(0, NoClient)>> >>
  BY DEF Init, Controllers, Entry, Entries
<1>3. journal \in Journals /\ Len(journal) = 1 /\ Len(journal[1]) = 1
      /\ journal[1][1] = Entry(0, NoClient)
  BY <1>2 DEF Journals
<1>4. \A k \in Keys : /\ subscribers[k] \in Subscriber
                      /\ QueueOK(subscribers[k], 1, 0)
                      /\ EventsSound(subscribers[k].queue, journal)
  BY EmptySubscribers DEF Init
<1>5. subscribers \in [Keys -> Subscriber]
  BY EmptySubscribers DEF Init
<1>6. LogOK(log, 0, NoClient)
  BY <1>3, <1>4, <1>5 DEF LogOK, MakeLog
<1>7. RuntimeOK
  <2>1. started \in BOOLEAN /\ held \in BOOLEAN
    BY DEF Init
  <2>2. process \in Processes /\ published \in Processes
    BY DEF Init, Processes
  <2> QED
    BY <2>1, <2>2 DEF Init, RuntimeOK
<1>8. AnswersOK
  BY NewAnswers DEF Init, AnswersOK, NoAnswer, AnswerKinds
<1>9. ControlOK
  BY ClientsAssumption
     DEF Init, ControlOK, ControllerAttached, ReservationHeld, Controllers
<1>10. completed \in Seq(Mutations)
  BY DEF Init
<1> HIDE DEF log
<1> QED
  BY <1>1, <1>6, <1>7, <1>8, <1>9, <1>10 DEF Inv

(* Every request about a subscriber keeps the invariant.                    *)
LEMMA RequestsOK ==
    ASSUME Inv, NEW k \in Keys, Requests(k)
    PROVE  Inv' /\ Follows(journal, journal')
<1> USE ChoicesAssumption, LimitsAssumption
<1> DEFINE live == k \in Readers
<1>1. CASE TakeAnswer(k)
  BY <1>1, TakeAnswerOK
<1>2. CASE AttachFails(k, live)
  BY <1>2, JoinFailsOK DEF AttachFails
<1>3. CASE PollHidden(k, live)
  BY <1>3, PollHiddenOK
<1>4. ASSUME NEW outcome \in SnapshotOutcomes,
             Attach(k, outcome, live) \/ Resume(k, outcome, live)
      PROVE  Inv' /\ Follows(journal, journal')
  BY <1>4, JoinOK DEF Attach, Resume
<1>5. ASSUME NEW cursor \in Cursors \cup {NoCursor},
             \/ PollAttachFails(k, cursor, live)
             \/ PollRefused(k, cursor, live)
      PROVE  Inv' /\ Follows(journal, journal')
  BY <1>5, JoinFailsOK, PollRefusedOK DEF PollAttachFails
<1>6. ASSUME NEW cursor \in Cursors \cup {NoCursor},
             NEW outcome \in SnapshotOutcomes,
             \/ PollAttach(k, cursor, outcome, live)
             \/ PollResync(k, cursor, outcome, live)
      PROVE  Inv' /\ Follows(journal, journal')
  BY <1>6, JoinOK, PollResyncOK DEF PollAttach
<1>7. ASSUME NEW cursor \in Cursors \cup {NoCursor}, NEW n \in EventBudgets,
             PollEvents(k, cursor, n, live)
      PROVE  Inv' /\ Follows(journal, journal')
  BY <1>7, PollEventsOK
<1> QED
  BY <1>1, <1>2, <1>3, <1>4, <1>5, <1>6, <1>7 DEF Requests

(* So does every command of a client ...                                    *)
LEMMA CommandsOK ==
    ASSUME Inv, NEW c \in Clients, Commands(c)
    PROVE  Inv' /\ Follows(journal, journal')
<1>1. CASE ExpireClient(c)
  BY <1>1, DisconnectClientOK DEF ExpireClient, Inv
<1>2. ASSUME NEW id \in RequestIds,
             \/ Suspend(c, id) \/ Input(c, id) \/ Resize(c, id)
             \/ ResizeFails(c, id) \/ TakeControl(c, id)
      PROVE  Inv' /\ Follows(journal, journal')
  BY <1>2, SuspendOK, InputOK, ResizeOK, ResizeFailsOK, TakeControlOK
<1>3. ASSUME NEW id \in RequestIds, Disconnect(c, id)
      PROVE  Inv' /\ Follows(journal, journal')
  <2>1. completed' \in Seq(Mutations)
    BY <1>3, RememberOK DEF Disconnect, Inv, Operations
  <2> QED
    BY <1>3, <2>1, DisconnectClientOK DEF Disconnect
<1>4. ASSUME NEW id \in RequestIds, Restart(c, id)
      PROVE  Inv' /\ Follows(journal, journal')
  <2>1. UNCHANGED <<controlVars, answer>>
    BY <1>4 DEF Restart
  <2>2. CASE RestartRuntime /\ Remember(c, "restart", id)
    <3>1. completed' \in Seq(Mutations)
      BY <2>2, RememberOK DEF Inv, Operations
    <3> QED
      BY <2>1, <2>2, <3>1, RestartRuntimeOK
  <2>3. CASE RestartFails /\ UNCHANGED <<published, completed>>
    BY <2>1, <2>3, RestartFailsStep
  <2> QED
    BY <1>4, <2>2, <2>3 DEF Restart
<1>5. ASSUME NEW id \in RequestIds, NEW w \in 0..1, NEW hold \in BOOLEAN,
             NEW copied \in Copies, InputWithOutput(c, id, w, hold, copied)
      PROVE  Inv' /\ Follows(journal, journal')
  BY <1>5, InputWithOutputOK
<1> QED
  BY <1>1, <1>2, <1>3, <1>4, <1>5 DEF Commands

(* ... and whatever the process and the state thread do by themselves.      *)
LEMMA RuntimeStepOK ==
    ASSUME Inv, Runtime
    PROVE  Inv' /\ Follows(journal, journal')
<1>1. CASE PumpStatus
  BY <1>1, PumpStatusOK
<1>2. CASE ProcessExits
  BY <1>2, ProcessExitsOK
<1>3. CASE RestartTerminal
  <2>1. UNCHANGED <<controlVars, answer>> /\ UNCHANGED completed
    BY <1>3 DEF RestartTerminal
  <2>2. CASE RestartRuntime
    BY <2>1, <2>2, RestartRuntimeOK DEF Inv
  <2>3. CASE RestartFails /\ UNCHANGED published
    BY <2>1, <2>3, RestartFailsStep
  <2> QED
    BY <1>3, <2>2, <2>3 DEF RestartTerminal
<1>4. ASSUME NEW w \in 0..1, NEW hold \in BOOLEAN, NEW copied \in Copies,
             PumpOutput(w, hold, copied)
      PROVE  Inv' /\ Follows(journal, journal')
  BY <1>4, PumpOutputOK
<1> QED
  BY <1>1, <1>2, <1>3, <1>4 DEF Runtime

(* The induction step, with what it says of the journal. *)
LEMMA StepOK ==
    Inv /\ [Next]_serverVars => Inv' /\ Follows(journal, journal')
<1> SUFFICES ASSUME Inv, [Next]_serverVars
             PROVE  Inv' /\ Follows(journal, journal')
  OBVIOUS
<1>1. CASE Next
  BY <1>1, RequestsOK, CommandsOK, RuntimeStepOK DEF Next
<1>2. CASE UNCHANGED serverVars
  <2>1. UNCHANGED <<logVars, runtimeVars, published, controlVars, completed,
                    answer>>
    BY <1>2 DEF serverVars
  <2>2. /\ LogOK(Log, shown, controller)' /\ ControlOK'
        /\ Follows(journal, journal') /\ journal' \in Journals
    BY <2>1, LogUntouched DEF runtimeVars
  <2>3. AnswersOK'
    BY <2>1, <2>2, LogFacts, AnswersKept DEF Inv
  <2>4. RuntimeOK' /\ completed' \in Seq(Mutations)
    BY <2>1 DEF Inv, RuntimeOK, runtimeVars
  <2> QED
    BY <2>2, <2>3, <2>4 DEF Inv
<1> QED
  BY <1>1, <1>2

(* A journal that follows belongs to a version that is not older. *)
LEMMA FollowsAdvances ==
    ASSUME Inv, Inv', Follows(journal, journal')
    PROVE  \/ generation' > generation
           \/ generation' = generation /\ sequence' >= sequence
<1>1. /\ generation \in Nat \ {0} /\ Len(journal) = generation
      /\ Len(journal[generation]) = sequence + 1 /\ sequence \in Nat
  BY DEF Inv, LogOK, Log, MakeLog
<1>2. /\ generation' \in Nat \ {0} /\ Len(journal') = generation'
      /\ Len(journal'[generation']) = sequence' + 1 /\ sequence' \in Nat
  BY DEF Inv, LogOK, Log, MakeLog
<1>3. generation <= generation'
  BY <1>1, <1>2 DEF Follows
<1>4. ASSUME generation' = generation PROVE sequence' >= sequence
  <2>1. generation \in 1..Len(journal)
    BY <1>1
  <2>2. Len(journal[generation]) <= Len(journal'[generation])
    BY <2>1 DEF Follows
  <2>3. Len(journal'[generation]) = sequence' + 1
    BY <1>2, <1>4
  <2>4. sequence + 1 <= sequence' + 1
    BY <1>1, <2>2, <2>3
  <2>5. ASSUME NEW m \in Nat, NEW n \in Nat, m + 1 <= n + 1 PROVE n >= m
    BY <2>5
  <2>6. sequence \in Nat /\ sequence' \in Nat
    BY <1>1, <1>2
  <2> QED
    BY <2>4, <2>5, <2>6
<1> QED
  BY <1>1, <1>2, <1>3, <1>4

-----------------------------------------------------------------------------
(* The theorems                                                             *)

(* The inductive invariant: the version log is sound, so is every queued or *)
(* unread event, the runtime shows no more than it has drawn, and the lease *)
(* belongs to an attached client.                                           *)
THEOREM Invariance == Spec => []Inv
<1>1. Inv /\ [Next]_serverVars => Inv'
  BY StepOK
<1> QED
  BY InitOK, <1>1, PTL DEF Spec

(* Every field keeps its type for any number of clients and subscriptions. *)
THEOREM TypeCorrect == Spec => []TypeOK
<1>1. Inv => TypeOK
  BY InvImplies
<1> QED
  BY Invariance, <1>1, PTL

(* Every queue stays bounded, ordered and in the current generation, and is *)
(* empty whenever its subscriber is to resynchronise, whatever the limits,  *)
(* clients and requests.                                                    *)
THEOREM QueuesDisciplined == Spec => []QueueDiscipline
<1>1. Inv => QueueDiscipline
  BY InvImplies
<1> QED
  BY Invariance, <1>1, PTL

(* The controller of a terminal always has a subscriber at it.              *)
THEOREM LeaseSound == Spec => []ControllerAttached
<1>1. Inv => ControllerAttached
  BY InvImplies
<1> QED
  BY Invariance, <1>1, PTL

(* A lease reserved for a restored controller is nobody's until that one    *)
(* comes back for it or its time is over.                                   *)
THEOREM ReservationsHeld == Spec => []ReservationHeld
<1>1. Inv => ReservationHeld
  BY InvImplies
<1> QED
  BY Invariance, <1>1, PTL

(* No queued event and no response leaves out a write its version stands    *)
(* for, whatever the process, the limits and the requests.                  *)
THEOREM EventsStayComplete == Spec => []EventsComplete
<1>1. ASSUME Inv PROVE EventsComplete
  <2>1. \A k \in Keys : EventsSound(subscribers[k].queue, journal)
    BY <1>1, LogFacts DEF LogOK
  <2>2. \A k \in Keys : EventsSound(answer[k].events, journal)
    <3>1. AnswersOK
      BY <1>1 DEF Inv
    <3> QED
      BY <3>1 DEF AnswersOK
  <2> QED
    BY <2>1, <2>2 DEF EventsComplete
<1> QED
  BY Invariance, <1>1, PTL

(* The version of a terminal never goes back, across restarts and failures. *)
THEOREM VersionsAdvance == Spec => VersionAdvances
<1>1. Inv /\ [Next]_serverVars =>
         [\/ generation' > generation
          \/ generation' = generation /\ sequence' >= sequence]_serverVars
  BY StepOK, FollowsAdvances
<1> QED
  BY InitOK, Invariance, <1>1, PTL DEF Spec, VersionAdvances

=============================================================================
