---------------------------- MODULE NvimRpcProofs ----------------------------
(***************************************************************************)
(* Proofs about NvimRpc.  Messages to Neovim are in its pipe, in the        *)
(* writer's hands or in the outbound queue; what comes back is in the       *)
(* reader's buffer or in the other pipe.  Every step of a thread leaves     *)
(* these places alone, moves a head from one to the next or appends, and    *)
(* the order of messages, the fate of request ids and the completeness of   *)
(* the redraws follow from that.                                            *)
(***************************************************************************)
EXTENDS NvimRpc, TLAPS, FiniteSetTheorems, SequenceTheorems,
        WellFoundedInduction

-----------------------------------------------------------------------------
(* The inductive invariant                                                  *)

OutboundType == [queue : Seq(Message), busy : BOOLEAN, stop : BOOLEAN,
                 failed : BOOLEAN]
WriterType == [at : {"waiting", "loaded", "writing", "failed", "publish",
                     "done"}, message : Message]
ReaderType == [at : {"top", "reading", "dispatch", "paused", "ended",
                     "done"}, buffer : Seq(Output)]
CallType == [at : {"idle", "begun", "waiting", "checked", "asleep"},
             id : Nat, size : Sizes \cup {0}, ok : BOOLEAN]
ProcessType == [stdinOpen : BOOLEAN, cancelled : BOOLEAN,
                outstayed : BOOLEAN]
WorkerType == [running : BOOLEAN, pending : Sizes \cup {0}, done : BOOLEAN]
HostType ==
    [at : {"startup", "calling", "run", "quit", "close", "wakeCallers",
           "wakeReader", "stopOutput", "flush", "cancel", "stopWorker",
           "joinWorker", "join", "done"},
     left : Int, viewport : Sizes, grid : Sizes \cup {0}, ready : BOOLEAN,
     deferred : Sizes \cup {0}, drained : Nat, resizes : Nat, inputs : Nat]
NvimType ==
    [alive : BOOLEAN, killed : BOOLEAN, in : Seq(Message),
     out : Seq(Output), owes : SUBSET Nat, size : Sizes \cup {0},
     dirty : BOOLEAN, redraws : Nat, asks : Nat, read : Nat]

Types ==
    /\ running \in BOOLEAN /\ readFailed \in BOOLEAN
    /\ outbound \in OutboundType
    /\ writer \in WriterType
    /\ reader \in ReaderType
    /\ notifications \in Seq(Output) /\ Len(notifications) <= QueueDepth
    /\ responses \in SUBSET Nat
    /\ timedOut \in SUBSET Nat /\ IsFiniteSet(timedOut)
    /\ Cardinality(timedOut) <= MaxTimedOutIds
    /\ nextId \in Nat \ {0}
    /\ call \in [Callers -> CallType]
    /\ process \in ProcessType
    /\ worker \in WorkerType
    /\ host \in HostType
    /\ nvim \in NvimType
    /\ accepted \in Nat

(* Which thread is where.  A closed descriptor is preceded by the           *)
(* cancellation of writes, which lets nobody enter write() any more: a      *)
(* writer that is there has outstayed the wait.  One request is made at a   *)
(* time, at startup by the main thread, then by the worker.                 *)
Open == {"startup", "calling", "run"}
Closing == {"wakeCallers", "wakeReader", "stopOutput", "flush", "cancel",
            "stopWorker", "joinWorker", "join", "done"}
Gone == {"ended", "done"}

WriterPhase ==
    /\ outbound.busy <=> writer.at \in {"loaded", "writing", "failed"}
    /\ outbound.failed =>
          /\ writer.at \in {"publish", "done"}
          /\ outbound.queue = <<>>

ClosePhase ==
    /\ host.at \in {"cancel", "stopWorker", "joinWorker"}
          \/ ~process.stdinOpen => process.cancelled
    /\ ~process.stdinOpen => writer.at # "writing" \/ process.outstayed

ReaderPhase ==
    /\ reader.buffer # <<>> <=> reader.at \in {"dispatch", "paused"}
    /\ host.at \in Closing \/ reader.at \in Gone => ~running
    /\ running \/ host.at \notin Open \/ reader.at \in Gone

CallPhase ==
    /\ call["main"].at # "idle" => host.at = "calling"
    /\ host.at \in {"startup", "calling"} =>
          worker.pending = 0 /\ call["worker"].at = "idle"

(* Messages on their way are numbered from the last one read, with a gap    *)
(* where one went astray on a closed descriptor.                            *)
Ahead == accepted - Len(outbound.queue)

Held == IF outbound.busy THEN 1 ELSE 0

Numbered(messages, n) ==
    \A i \in 1..Len(messages) : messages[i].serial = n + i

Wire ==
    /\ Numbered(nvim.in, nvim.read)
    /\ ~nvim.alive => nvim.in = <<>>
    /\ nvim.alive /\ ~outbound.failed =>
          /\ outbound.busy => writer.message.serial = Ahead
          /\ Numbered(outbound.queue, Ahead)
          /\ nvim.read + Len(nvim.in) + Held <= Ahead
          /\ process.stdinOpen => nvim.read + Len(nvim.in) + Held = Ahead

(* Redraws in the queue come first and have no gap; those that follow go on *)
(* from there, all of them unless a full queue met the closing transport.   *)
Elements(s) == {s[i] : i \in 1..Len(s)}

Rising(outputs) ==
    \A i, j \in 1..Len(outputs) :
        /\ outputs[i].kind = "redraw" /\ outputs[j].kind = "redraw"
        /\ i < j
        => outputs[i].id < outputs[j].id

DrawnIn(outputs, n) ==
    \E o \in Elements(outputs) : o.kind = "redraw" /\ o.id = n

Queued == host.drained + Len(notifications)

Drawn(n) == DrawnIn(reader.buffer, n) \/ DrawnIn(nvim.out, n)

Complete ==
    /\ \A n \in Nat : Drawn(n) => n > Queued
    /\ \A n \in (Queued + 1)..nvim.redraws : Drawn(n)

QueueInOrder ==
    \A i \in 1..Len(notifications) :
        /\ notifications[i].kind = "redraw"
        /\ notifications[i].id = host.drained + i

Redrawn ==
    /\ QueueInOrder
    /\ Queued <= nvim.redraws
    /\ Rising(reader.buffer) /\ Rising(nvim.out)
    /\ \A m, n \in Nat : DrawnIn(reader.buffer, m) /\ DrawnIn(nvim.out, n)
                            => m < n
    /\ \A n \in Nat : Drawn(n) => n \in 1..nvim.redraws
    /\ \/ Complete
       \/ /\ ~running /\ Len(notifications) = QueueDepth
          /\ host.at \notin Open

(* A request is in one place at a time: on its way, with Neovim, on its way *)
(* back as a response, or stored.                                           *)
Asks(m, id) == m.kind = "request" /\ m.id = id

Sent == Elements(nvim.in)
            \cup (IF outbound.busy THEN {writer.message} ELSE {})
            \cup Elements(outbound.queue)

Asked(id) == \E m \in Sent : Asks(m, id)

AnsweredIn(outputs, id) ==
    \E o \in Elements(outputs) : o.kind = "response" /\ o.id = id

OneAnswer(outputs) ==
    \A i, j \in 1..Len(outputs) :
        /\ outputs[i].kind = "response" /\ outputs[j].kind = "response"
        /\ outputs[i].id = outputs[j].id
        => i = j

Returning(id) == AnsweredIn(reader.buffer, id) \/ AnsweredIn(nvim.out, id)

AskedOnce ==
    \A m, n \in Sent : \A id \in Nat : Asks(m, id) /\ Asks(n, id) => m = n

AnsweredOnce ==
    /\ OneAnswer(reader.buffer) /\ OneAnswer(nvim.out)
    /\ \A id \in Nat : ~(AnsweredIn(reader.buffer, id)
                            /\ AnsweredIn(nvim.out, id))

Apart ==
    \A id \in Nat :
        /\ Asked(id) => id \notin nvim.owes /\ ~Returning(id)
                           /\ id \notin responses
        /\ id \in nvim.owes => ~Returning(id) /\ id \notin responses
        /\ Returning(id) => id \notin responses

Single == AskedOnce /\ AnsweredOnce /\ Apart

(* Whatever is somewhere belongs to the request that waits, or was given up *)
(* and is remembered as such, or has been dropped from a full memory.       *)
Somewhere(id) ==
    Asked(id) \/ id \in nvim.owes \/ Returning(id) \/ id \in responses

Active(c) == call[c].at # "idle"

Forgotten(id) ==
    /\ Cardinality(timedOut) = MaxTimedOutIds
    /\ \A t \in timedOut : id < t

Accounted(id) ==
    \/ \E c \in Callers : call[c].id = id /\ Active(c)
    \/ id \in timedOut
    \/ Forgotten(id)

Claims ==
    /\ \A id \in Nat : Somewhere(id) => id \in 1..(nextId - 1)
                                           /\ Accounted(id)
    /\ \A id \in timedOut : id \in 1..(nextId - 1)
    /\ \A id \in responses : id \notin timedOut
    /\ \A c \in Callers : Active(c) =>
          /\ call[c].id = nextId - 1 /\ call[c].id # 0
          /\ call[c].id \notin timedOut
    /\ \A c \in Callers, id \in Nat :
          call[c].at = "begun" /\ call[c].id = id => ~Somewhere(id)

Inv ==
    /\ Types
    /\ WriterPhase /\ ClosePhase /\ ReaderPhase /\ CallPhase
    /\ Wire /\ Redrawn /\ Single /\ Claims

-----------------------------------------------------------------------------
(* Sequences                                                                *)

(* The least element of a set of numbers.                                   *)
LEMMA NatMin ==
    ASSUME NEW T \in SUBSET Nat, T # {}
    PROVE  \E x \in T : \A y \in T : x <= y
<1>1. PICK x \in T : \A y \in T : <<y, x>> \notin OpToRel(<, Nat)
  BY WFMin, NatLessThanWellFounded
<1>2. \A y \in T : ~(y < x)
  BY <1>1 DEF OpToRel
<1>3. x \in Nat /\ \A y \in T : y \in Nat
  OBVIOUS
<1> QED
  BY <1>2, <1>3

(* Appending adds an element.                                               *)
LEMMA ElementsAppend ==
    ASSUME NEW S, NEW s \in Seq(S), NEW e \in S
    PROVE  Elements(Append(s, e)) = Elements(s) \cup {e}
<1>1. /\ Len(s) \in Nat /\ Len(Append(s, e)) = Len(s) + 1
      /\ \A i \in 1..Len(s) : Append(s, e)[i] = s[i]
      /\ Append(s, e)[Len(s) + 1] = e
  BY AppendProperties, LenProperties
<1>2. ASSUME NEW x \in Elements(Append(s, e))
      PROVE  x \in Elements(s) \cup {e}
  <2>1. PICK i \in 1..(Len(s) + 1) : x = Append(s, e)[i]
    BY <1>1 DEF Elements
  <2>2. CASE i = Len(s) + 1
    BY <1>1, <2>1, <2>2
  <2>3. CASE i \in 1..Len(s)
    BY <1>1, <2>1, <2>3 DEF Elements
  <2> QED
    BY <1>1, <2>2, <2>3
<1>3. ASSUME NEW x \in Elements(s) \cup {e}
      PROVE  x \in Elements(Append(s, e))
  <2>1. CASE x = e
    BY <1>1, <2>1 DEF Elements
  <2>2. CASE x \in Elements(s)
    <3>1. PICK i \in 1..Len(s) : x = s[i]
      BY <2>2 DEF Elements
    <3>2. i \in 1..Len(Append(s, e)) /\ x = Append(s, e)[i]
      BY <1>1, <3>1
    <3> QED
      BY <3>2 DEF Elements
  <2> QED
    BY <2>1, <2>2
<1> QED
  BY <1>2, <1>3

(* A sequence holds its head and the elements of its tail.                  *)
LEMMA ElementsTail ==
    ASSUME NEW S, NEW s \in Seq(S), s # <<>>
    PROVE  Elements(s) = {Head(s)} \cup Elements(Tail(s))
<1>1. /\ Len(s) \in Nat \ {0} /\ Len(Tail(s)) = Len(s) - 1
      /\ \A i \in 1..(Len(s) - 1) : Tail(s)[i] = s[i + 1]
      /\ Head(s) = s[1]
  BY HeadTailProperties, EmptySeq
<1>2. ASSUME NEW x \in Elements(s)
      PROVE  x \in {Head(s)} \cup Elements(Tail(s))
  <2>1. PICK i \in 1..Len(s) : x = s[i]
    BY DEF Elements
  <2>2. CASE i = 1
    BY <1>1, <2>1, <2>2
  <2>3. CASE i # 1
    <3>1. i - 1 \in 1..Len(Tail(s)) /\ x = Tail(s)[i - 1]
      BY <1>1, <2>1, <2>3
    <3> QED
      BY <3>1 DEF Elements
  <2> QED
    BY <2>2, <2>3
<1>3. ASSUME NEW x \in {Head(s)} \cup Elements(Tail(s))
      PROVE  x \in Elements(s)
  <2>1. CASE x = Head(s)
    BY <1>1, <2>1 DEF Elements
  <2>2. CASE x \in Elements(Tail(s))
    <3>1. PICK i \in 1..(Len(s) - 1) : x = Tail(s)[i]
      BY <1>1, <2>2 DEF Elements
    <3>2. i + 1 \in 1..Len(s) /\ x = s[i + 1]
      BY <1>1, <3>1
    <3> QED
      BY <3>2 DEF Elements
  <2> QED
    BY <2>1, <2>2
<1> QED
  BY <1>2, <1>3

(* Nothing is in the empty sequence.                                        *)
LEMMA ElementsEmpty == Elements(<<>>) = {}
<1>1. Len(<<>>) = 0
  BY EmptySeq
<1> QED
  BY <1>1 DEF Elements

(* What is in a sequence is of its type.                                    *)
LEMMA ElementsIn ==
    ASSUME NEW S, NEW s \in Seq(S) PROVE Elements(s) \subseteq S
BY ElementOfSeq DEF Elements

(* Where an output can be found after the reader took the head, or Neovim   *)
(* wrote another one.                                                       *)
LEMMA OutputAppend ==
    ASSUME NEW s \in Seq(Output), NEW e \in Output, NEW n
    PROVE  /\ DrawnIn(Append(s, e), n) <=>
                 DrawnIn(s, n) \/ (e.kind = "redraw" /\ e.id = n)
           /\ AnsweredIn(Append(s, e), n) <=>
                 AnsweredIn(s, n) \/ (e.kind = "response" /\ e.id = n)
BY ElementsAppend DEF DrawnIn, AnsweredIn

(* What the reader takes from the front was there, all else stays.          *)
LEMMA OutputTail ==
    ASSUME NEW s \in Seq(Output), s # <<>>, NEW n
    PROVE  /\ DrawnIn(s, n) <=>
                 DrawnIn(Tail(s), n)
                    \/ (Head(s).kind = "redraw" /\ Head(s).id = n)
           /\ AnsweredIn(s, n) <=>
                 AnsweredIn(Tail(s), n)
                    \/ (Head(s).kind = "response" /\ Head(s).id = n)
BY ElementsTail DEF DrawnIn, AnsweredIn

(* In an empty buffer or pipe there is nothing to find.                     *)
LEMMA OutputEmpty ==
    /\ Rising(<<>>) /\ OneAnswer(<<>>)
    /\ \A n : ~DrawnIn(<<>>, n) /\ ~AnsweredIn(<<>>, n)
<1>1. Len(<<>>) = 0
  BY EmptySeq
<1> QED
  BY <1>1, ElementsEmpty DEF Rising, OneAnswer, DrawnIn, AnsweredIn

(* The rising order of redraws.                                             *)
LEMMA RisingAppend ==
    ASSUME NEW s \in Seq(Output), NEW e \in Output, Rising(s),
           e.kind = "redraw" => \A n \in Nat : DrawnIn(s, n) => n < e.id
    PROVE  Rising(Append(s, e))
<1>1. /\ Len(s) \in Nat /\ Len(Append(s, e)) = Len(s) + 1
      /\ \A i \in 1..Len(s) : Append(s, e)[i] = s[i]
      /\ Append(s, e)[Len(s) + 1] = e
  BY AppendProperties, LenProperties
<1> SUFFICES ASSUME NEW i \in 1..(Len(s) + 1), NEW j \in 1..(Len(s) + 1),
                    Append(s, e)[i].kind = "redraw",
                    Append(s, e)[j].kind = "redraw", i < j
             PROVE  Append(s, e)[i].id < Append(s, e)[j].id
  BY <1>1 DEF Rising
<1>2. i \in 1..Len(s) /\ Append(s, e)[i] = s[i]
  BY <1>1
<1>3. CASE j = Len(s) + 1
  <2>1. s[i] \in Elements(s) /\ s[i] \in Output
    BY <1>2, ElementOfSeq DEF Elements
  <2>2. DrawnIn(s, s[i].id) /\ s[i].id \in Nat
    BY <1>2, <2>1 DEF DrawnIn, Output
  <2> QED
    BY <1>1, <1>2, <1>3, <2>2
<1>4. CASE j \in 1..Len(s)
  BY <1>1, <1>2, <1>4 DEF Rising
<1> QED
  BY <1>1, <1>3, <1>4

(* The head of a rising sequence is below the redraws that follow.          *)
LEMMA RisingTail ==
    ASSUME NEW s \in Seq(Output), s # <<>>, Rising(s)
    PROVE  /\ Rising(Tail(s))
           /\ Head(s).kind = "redraw" =>
                 \A n \in Nat : DrawnIn(Tail(s), n) => Head(s).id < n
<1>1. /\ Len(s) \in Nat \ {0} /\ Len(Tail(s)) = Len(s) - 1
      /\ \A i \in 1..(Len(s) - 1) : Tail(s)[i] = s[i + 1]
      /\ Head(s) = s[1]
  BY HeadTailProperties, EmptySeq
<1>2. Rising(Tail(s))
  <2> SUFFICES ASSUME NEW i \in 1..(Len(s) - 1), NEW j \in 1..(Len(s) - 1),
                      Tail(s)[i].kind = "redraw",
                      Tail(s)[j].kind = "redraw", i < j
               PROVE  Tail(s)[i].id < Tail(s)[j].id
    BY <1>1 DEF Rising
  <2>1. /\ i + 1 \in 1..Len(s) /\ j + 1 \in 1..Len(s) /\ i + 1 < j + 1
        /\ Tail(s)[i] = s[i + 1] /\ Tail(s)[j] = s[j + 1]
    BY <1>1
  <2> QED
    BY <2>1 DEF Rising
<1>3. ASSUME Head(s).kind = "redraw", NEW n \in Nat, DrawnIn(Tail(s), n)
      PROVE  Head(s).id < n
  <2>1. PICK i \in 1..(Len(s) - 1) :
             Tail(s)[i].kind = "redraw" /\ Tail(s)[i].id = n
    BY <1>1, <1>3 DEF DrawnIn, Elements
  <2>2. i + 1 \in 1..Len(s) /\ 1 \in 1..Len(s) /\ 1 < i + 1
    BY <1>1
  <2> QED
    BY <1>1, <1>3, <2>1, <2>2 DEF Rising
<1> QED
  BY <1>2, <1>3

(* A response to a request is there once.                                   *)
LEMMA OneAnswerAppend ==
    ASSUME NEW s \in Seq(Output), NEW e \in Output, OneAnswer(s),
           e.kind = "response" => ~AnsweredIn(s, e.id)
    PROVE  OneAnswer(Append(s, e))
<1>1. /\ Len(s) \in Nat /\ Len(Append(s, e)) = Len(s) + 1
      /\ \A i \in 1..Len(s) : Append(s, e)[i] = s[i]
      /\ Append(s, e)[Len(s) + 1] = e
  BY AppendProperties, LenProperties
<1> SUFFICES ASSUME NEW i \in 1..(Len(s) + 1), NEW j \in 1..(Len(s) + 1),
                    Append(s, e)[i].kind = "response",
                    Append(s, e)[j].kind = "response",
                    Append(s, e)[i].id = Append(s, e)[j].id
             PROVE  i = j
  BY <1>1 DEF OneAnswer
<1>2. ASSUME NEW k \in 1..Len(s), s[k].kind = "response",
             e.kind = "response", s[k].id = e.id
      PROVE  FALSE
  BY <1>2 DEF AnsweredIn, Elements
<1>3. CASE i \in 1..Len(s) /\ j \in 1..Len(s)
  BY <1>1, <1>3 DEF OneAnswer
<1>4. CASE i = Len(s) + 1 /\ j \in 1..Len(s)
  BY <1>1, <1>2, <1>4
<1>5. CASE j = Len(s) + 1 /\ i \in 1..Len(s)
  BY <1>1, <1>2, <1>5
<1> QED
  BY <1>1, <1>3, <1>4, <1>5

(* The response at the head is not to be found behind it.                   *)
LEMMA OneAnswerTail ==
    ASSUME NEW s \in Seq(Output), s # <<>>, OneAnswer(s)
    PROVE  /\ OneAnswer(Tail(s))
           /\ Head(s).kind = "response" => ~AnsweredIn(Tail(s), Head(s).id)
<1>1. /\ Len(s) \in Nat \ {0} /\ Len(Tail(s)) = Len(s) - 1
      /\ \A i \in 1..(Len(s) - 1) : Tail(s)[i] = s[i + 1]
      /\ Head(s) = s[1]
  BY HeadTailProperties, EmptySeq
<1>2. OneAnswer(Tail(s))
  <2> SUFFICES ASSUME NEW i \in 1..(Len(s) - 1), NEW j \in 1..(Len(s) - 1),
                      Tail(s)[i].kind = "response",
                      Tail(s)[j].kind = "response",
                      Tail(s)[i].id = Tail(s)[j].id
               PROVE  i = j
    BY <1>1 DEF OneAnswer
  <2>1. /\ i + 1 \in 1..Len(s) /\ j + 1 \in 1..Len(s)
        /\ Tail(s)[i] = s[i + 1] /\ Tail(s)[j] = s[j + 1]
    BY <1>1
  <2>2. i + 1 = j + 1
    BY <2>1 DEF OneAnswer
  <2> QED
    BY <2>2
<1>3. ASSUME Head(s).kind = "response", AnsweredIn(Tail(s), Head(s).id)
      PROVE  FALSE
  <2>1. PICK i \in 1..(Len(s) - 1) :
             Tail(s)[i].kind = "response" /\ Tail(s)[i].id = Head(s).id
    BY <1>1, <1>3 DEF AnsweredIn, Elements
  <2>2. i + 1 \in 1..Len(s) /\ 1 \in 1..Len(s) /\ i + 1 # 1
    BY <1>1
  <2> QED
    BY <1>1, <1>3, <2>1, <2>2 DEF OneAnswer
<1> QED
  BY <1>2, <1>3

-----------------------------------------------------------------------------
(* The bounded memory of given up ids                                       *)

(* What leaves the memory is below all that stays, and leaves it full.      *)
LEMMA EvictedSet ==
    ASSUME NvimAssumption, NEW U \in SUBSET Nat, IsFiniteSet(U),
           Cardinality(U) <= MaxTimedOutIds + 1
    PROVE  /\ Evicted(U) \in SUBSET U
           /\ IsFiniteSet(Evicted(U))
           /\ Cardinality(Evicted(U)) <= MaxTimedOutIds
           /\ \A i \in U : i \notin Evicted(U) =>
                 /\ Cardinality(Evicted(U)) = MaxTimedOutIds
                 /\ \A t \in Evicted(U) : i < t
           /\ Cardinality(U) > MaxTimedOutIds =>
                 Cardinality(Evicted(U)) = MaxTimedOutIds
<1> DEFINE min == CHOOSE i \in U : \A j \in U : i <= j
<1>1. Cardinality(U) \in Nat /\ MaxTimedOutIds \in Nat
  BY FS_CardinalityType DEF NvimAssumption
<1>2. CASE Cardinality(U) <= MaxTimedOutIds
  <2>1. Evicted(U) = U
    BY <1>2 DEF Evicted
  <2> QED
    BY <1>1, <1>2, <2>1
<1>3. CASE ~(Cardinality(U) <= MaxTimedOutIds)
  <2>1. Evicted(U) = U \ {min}
    BY <1>3 DEF Evicted
  <2>2. Cardinality(U) = MaxTimedOutIds + 1
    BY <1>1, <1>3
  <2>3. U # {}
    BY <1>1, <2>2, FS_EmptySet
  <2>4. \E i \in U : \A j \in U : i <= j
    BY <2>3, NatMin
  <2>5. min \in U /\ \A j \in U : min <= j
    BY <2>4
  <2> HIDE DEF min
  <2>6. /\ IsFiniteSet(U \ {min})
        /\ Cardinality(U \ {min}) = MaxTimedOutIds
    BY <1>1, <2>2, <2>5, FS_RemoveElement
  <2>7. \A t \in U \ {min} : min < t
    BY <2>5
  <2>8. /\ U \ {min} \in SUBSET U
        /\ \A i \in U : i \notin U \ {min} => \A t \in U \ {min} : i < t
    BY <2>5, <2>7
  <2>9. MaxTimedOutIds <= MaxTimedOutIds
    BY <1>1
  <2> HIDE DEF Evicted
  <2> QED
    BY <2>1, <2>6, <2>8, <2>9
<1> QED
  BY <1>2, <1>3

(* The same of a memory that takes one more id.                             *)
LEMMA EvictedFacts ==
    ASSUME NvimAssumption, NEW T \in SUBSET Nat, IsFiniteSet(T),
           Cardinality(T) <= MaxTimedOutIds, NEW n \in Nat
    PROVE  /\ Evicted(T \cup {n}) \in SUBSET (T \cup {n})
           /\ IsFiniteSet(Evicted(T \cup {n}))
           /\ Cardinality(Evicted(T \cup {n})) <= MaxTimedOutIds
           /\ \A i \in T \cup {n} : i \notin Evicted(T \cup {n}) =>
                 /\ Cardinality(Evicted(T \cup {n})) = MaxTimedOutIds
                 /\ \A t \in Evicted(T \cup {n}) : i < t
           /\ Cardinality(T) = MaxTimedOutIds /\ n \notin T =>
                 Cardinality(Evicted(T \cup {n})) = MaxTimedOutIds
<1>1. /\ IsFiniteSet(T \cup {n}) /\ Cardinality(T) \in Nat
      /\ Cardinality(T \cup {n}) = IF n \in T THEN Cardinality(T)
                                   ELSE Cardinality(T) + 1
      /\ MaxTimedOutIds \in Nat
      /\ T \cup {n} \in SUBSET Nat
  BY FS_AddElement, FS_CardinalityType DEF NvimAssumption
<1>2. Cardinality(T \cup {n}) <= MaxTimedOutIds + 1
  BY <1>1
<1>3. Cardinality(T) = MaxTimedOutIds /\ n \notin T =>
         Cardinality(T \cup {n}) > MaxTimedOutIds
  BY <1>1
<1> QED
  BY <1>1, <1>2, <1>3, EvictedSet

(* When a request ends, its id leaves the responses or enters the memory.   *)
LEMMA FinishFacts ==
    ASSUME NvimAssumption, Types, NEW c \in Callers, Finish(c)
    PROVE  /\ call' = [call EXCEPT ![c] = Idle(call[c].id \in responses)]
           /\ call' \in [Callers -> CallType]
           /\ responses' = responses \ {call[c].id}
           /\ responses' \in SUBSET Nat
           /\ call[c].id \in Nat
           /\ timedOut' \in SUBSET Nat /\ IsFiniteSet(timedOut')
           /\ Cardinality(timedOut') <= MaxTimedOutIds
<1>1. call[c] \in CallType /\ call[c].id \in Nat
  BY DEF Types, CallType
<1>2. Idle(call[c].id \in responses) \in CallType
  BY DEF Idle, CallType
<1>3. call' = [call EXCEPT ![c] = Idle(call[c].id \in responses)]
  BY DEF Finish
<1>4. call' \in [Callers -> CallType]
  BY <1>2, <1>3 DEF Types
<1>5. /\ timedOut' \in SUBSET Nat /\ IsFiniteSet(timedOut')
      /\ Cardinality(timedOut') <= MaxTimedOutIds
  <2>1. CASE call[c].id \in responses
    BY <2>1 DEF Finish, Types
  <2>2. CASE call[c].id \notin responses
    <3>1. timedOut' = Evicted(timedOut \cup {call[c].id})
      BY <2>2 DEF Finish
    <3>2. /\ timedOut \in SUBSET Nat /\ IsFiniteSet(timedOut)
          /\ Cardinality(timedOut) <= MaxTimedOutIds
      BY DEF Types
    <3>3. timedOut \cup {call[c].id} \in SUBSET Nat
      BY <1>1, <3>2
    <3>4. /\ Evicted(timedOut \cup {call[c].id})
                \in SUBSET (timedOut \cup {call[c].id})
          /\ IsFiniteSet(Evicted(timedOut \cup {call[c].id}))
          /\ Cardinality(Evicted(timedOut \cup {call[c].id}))
                <= MaxTimedOutIds
      BY <1>1, <3>2, EvictedFacts
    <3> QED
      BY <3>1, <3>3, <3>4
  <2> QED
    BY <2>1, <2>2
<1> QED
  BY <1>1, <1>3, <1>4, <1>5 DEF Finish, Types

(* enqueue_outbound() takes a message of the right type, or leaves all.     *)
LEMMA EnqueuedTypes ==
    ASSUME Types, NEW kind \in {"request", "reply", "input", "quit"},
           NEW id \in Nat, NEW size \in Sizes \cup {0},
           Enqueued(kind, id, size)
    PROVE  outbound' \in OutboundType /\ accepted' \in Nat
<1>1. NewMessage(kind, id, size) \in Message /\ accepted + 1 \in Nat
  BY DEF Types, NewMessage, Message
<1>2. Append(outbound.queue, NewMessage(kind, id, size)) \in Seq(Message)
  BY <1>1, AppendProperties DEF Types, OutboundType
<1> QED
  BY <1>1, <1>2 DEF Enqueued, Types, OutboundType

(* Woken callers keep their type.                                           *)
LEMMA WakeTypes ==
    ASSUME Types PROVE CallersWoken \in [Callers -> CallType]
<1> SUFFICES ASSUME NEW c \in Callers
             PROVE  (IF call[c].at = "asleep"
                     THEN [call[c] EXCEPT !.at = "waiting"]
                     ELSE call[c]) \in CallType
  BY DEF CallersWoken
<1>1. call[c] \in CallType
  BY DEF Types
<1> QED
  BY <1>1 DEF CallType

(* So does the reader, woken or with its next output dispatched.            *)
LEMMA ReaderTypes ==
    ASSUME Types
    PROVE  /\ ReaderWoken \in ReaderType
           /\ reader.buffer # <<>> =>
                 /\ Dispatched \in ReaderType
                 /\ Head(reader.buffer) \in Output
<1>1. ReaderWoken \in ReaderType
  BY DEF Types, ReaderType, ReaderWoken
<1>2. ASSUME reader.buffer # <<>>
      PROVE  Dispatched \in ReaderType /\ Head(reader.buffer) \in Output
  <2>1. /\ Tail(reader.buffer) \in Seq(Output)
        /\ Head(reader.buffer) \in Output
    BY <1>2, HeadTailProperties DEF Types, ReaderType
  <2> QED
    BY <2>1 DEF Dispatched, ReaderType
<1> QED
  BY <1>1, <1>2

(* A request begins with an id of its own.                                  *)
LEMMA BeginTypes ==
    ASSUME Types, NEW c \in Callers, NEW size \in Sizes \cup {0},
           BeginRequest(c, size)
    PROVE  call' \in [Callers -> CallType] /\ nextId' \in Nat \ {0}
<1>1. nextId \in Nat \ {0}
  BY DEF Types
<1>2. [at |-> "begun", id |-> nextId, size |-> size, ok |-> FALSE]
         \in CallType
  BY <1>1 DEF CallType
<1>3. call' \in [Callers -> CallType]
  BY <1>2 DEF BeginRequest, Types
<1> QED
  BY <1>1, <1>3 DEF BeginRequest

(* Every step keeps the types.                                              *)
LEMMA TypesStep ==
    ASSUME NvimAssumption, Types, ReaderPhase, Next PROVE Types'
<1>1. CASE \E c \in Callers : SendRequest(c)
  <2>1. PICK c \in Callers : SendRequest(c)
    BY <1>1
  <2>2. call[c] \in CallType
    BY DEF Types
  <2>3. outbound' \in OutboundType /\ accepted' \in Nat
    BY <2>1, <2>2, EnqueuedTypes DEF SendRequest, CallType
  <2>4. [call[c] EXCEPT !.at = "waiting", !.size = 0] \in CallType
          /\ Idle(FALSE) \in CallType
    BY <2>2 DEF CallType, Idle
  <2>5. call' \in [Callers -> CallType]
    BY <2>1, <2>4 DEF SendRequest, Types
  <2> QED
    BY <2>1, <2>3, <2>5 DEF Types, SendRequest
<1>2. CASE \E c \in Callers : CheckResponse(c)
  <2>1. PICK c \in Callers : CheckResponse(c)
    BY <1>2
  <2>2. CASE Ready(c)
    <3>1. Finish(c)
      BY <2>1, <2>2 DEF CheckResponse
    <3> QED
      BY <2>1, <3>1, FinishFacts DEF Types, CheckResponse
  <2>3. CASE ~Ready(c)
    <3>1. call[c] \in CallType
      BY DEF Types
    <3>2. [call[c] EXCEPT !.at = "checked"] \in CallType
      BY <3>1 DEF CallType
    <3>3. call' \in [Callers -> CallType]
      BY <2>1, <2>3, <3>2 DEF Types, CheckResponse
    <3> QED
      BY <2>1, <2>3, <3>3 DEF Types, CheckResponse
  <2> QED
    BY <2>2, <2>3
<1>3. CASE \E c \in Callers : AwaitResponse(c)
  <2>1. PICK c \in Callers : AwaitResponse(c)
    BY <1>3
  <2>2. call[c] \in CallType
    BY DEF Types
  <2>3. [call[c] EXCEPT !.at = "asleep"] \in CallType
    BY <2>2 DEF CallType
  <2>4. call' \in [Callers -> CallType]
    BY <2>1, <2>3 DEF Types, AwaitResponse
  <2> QED
    BY <2>1, <2>4 DEF Types, AwaitResponse
<1>4. CASE \E c \in Callers : TimeOut(c)
  <2>1. PICK c \in Callers : TimeOut(c)
    BY <1>4
  <2> QED
    BY <2>1, FinishFacts DEF Types, TimeOut
<1>5. CASE WriterTakes
  <2>1. outbound \in OutboundType /\ outbound.queue # <<>>
    BY <1>5 DEF Types, WriterTakes
  <2>2. /\ Head(outbound.queue) \in Message
        /\ Tail(outbound.queue) \in Seq(Message)
    BY <2>1, HeadTailProperties DEF OutboundType
  <2>3. writer' \in WriterType
    BY <1>5, <2>2 DEF WriterTakes, WriterType
  <2>4. outbound' \in OutboundType
    BY <1>5, <2>1, <2>2 DEF WriterTakes, OutboundType
  <2> QED
    BY <1>5, <2>3, <2>4 DEF Types, WriterTakes
<1>6. CASE WriterEnds
  BY <1>6 DEF Types, WriterEnds, WriterType
<1>7. CASE WriterRegisters
  BY <1>7 DEF Types, WriterRegisters, WriterType
<1>8. CASE WriterWrites
  <2>1. /\ writer.message \in Message /\ nvim \in NvimType
        /\ outbound \in OutboundType
    BY DEF Types, WriterType
  <2>2. Append(nvim.in, writer.message) \in Seq(Message)
    BY <2>1, AppendProperties DEF NvimType
  <2>3. nvim' \in NvimType
    BY <1>8, <2>1, <2>2 DEF WriterWrites, NvimType
  <2>4. outbound' \in OutboundType
    BY <1>8, <2>1 DEF WriterWrites, OutboundType
  <2>5. writer' \in WriterType
    BY <1>8 DEF WriterWrites, WriterType, NoMessage, Message
  <2> QED
    BY <1>8, <2>3, <2>4, <2>5 DEF Types, WriterWrites
<1>42. CASE WriterStrays
  <2>1. outbound \in OutboundType
    BY DEF Types
  <2>2. outbound' \in OutboundType
    BY <1>42, <2>1 DEF WriterStrays, OutboundType
  <2>3. writer' \in WriterType
    BY <1>42 DEF WriterStrays, WriterType, NoMessage, Message
  <2> QED
    BY <1>42, <2>2, <2>3 DEF Types, WriterStrays
<1>9. CASE WriteFails
  BY <1>9 DEF Types, WriteFails, WriterType
<1>10. CASE WriterGivesUp
  <2>1. outbound \in OutboundType
    BY DEF Types
  <2>2. outbound' \in OutboundType
    BY <1>10, <2>1, EmptySeq DEF WriterGivesUp, OutboundType
  <2>3. writer' \in WriterType
    BY <1>10 DEF WriterGivesUp, WriterType, NoMessage, Message
  <2> QED
    BY <1>10, <2>2, <2>3 DEF Types, WriterGivesUp
<1>11. CASE WriterPublishes
  <2>1. writer' \in WriterType
    BY <1>11 DEF WriterPublishes, WriterType, Types
  <2> QED
    BY <1>11, <2>1, WakeTypes DEF Types, WriterPublishes
<1>12. CASE ReaderLoops
  BY <1>12 DEF Types, ReaderLoops, ReaderType
<1>13. CASE ReaderReads
  BY <1>13, EmptySeq DEF Types, ReaderReads, ReaderType, NvimType
<1>14. CASE ReadFails
  BY <1>14 DEF Types, ReadFails, ReaderType
<1>15. CASE ReaderNotifies
  <2>1. reader' \in ReaderType
    BY <1>15 DEF ReaderNotifies, ReaderType, Types
  <2> QED
    BY <1>15, <2>1, WakeTypes DEF Types, ReaderNotifies
<1>16. CASE DispatchResponse
  <2>1. reader.buffer # <<>>
    BY <1>16 DEF DispatchResponse, ReaderPhase
  <2>2. /\ reader' \in ReaderType
        /\ Head(reader.buffer).id \in Nat
    BY <1>16, <2>1, ReaderTypes DEF DispatchResponse, Output
  <2>3. call' \in [Callers -> CallType] /\ responses' \in SUBSET Nat
    BY <1>16, <2>2, WakeTypes DEF DispatchResponse, Types
  <2> QED
    BY <1>16, <2>2, <2>3 DEF Types, DispatchResponse
<1>17. CASE DispatchRequest
  <2>1. reader.buffer # <<>>
    BY <1>17 DEF DispatchRequest, ReaderPhase
  <2>2. /\ reader' \in ReaderType
        /\ Head(reader.buffer).id \in Nat
    BY <1>17, <2>1, ReaderTypes DEF DispatchRequest, Output
  <2>3. outbound' \in OutboundType /\ accepted' \in Nat
    BY <1>17, <2>2, EnqueuedTypes DEF DispatchRequest
  <2> QED
    BY <1>17, <2>2, <2>3 DEF Types, DispatchRequest
<1>18. CASE DispatchNotification
  <2>1. reader.buffer # <<>>
    BY <1>18 DEF DispatchNotification, ReaderPhase
  <2>2. /\ Dispatched \in ReaderType
        /\ Head(reader.buffer) \in Output
    BY <2>1, ReaderTypes
  <2>3. [reader EXCEPT !.at = "paused"] \in ReaderType
    BY DEF Types, ReaderType
  <2>4. /\ Append(notifications, Head(reader.buffer)) \in Seq(Output)
        /\ Len(Append(notifications, Head(reader.buffer)))
              = Len(notifications) + 1
    BY <2>2, AppendProperties DEF Types
  <2>5. HasSpace => Len(notifications) + 1 <= QueueDepth
    BY LenProperties DEF HasSpace, Types, NvimAssumption
  <2>6. /\ reader' \in ReaderType /\ notifications' \in Seq(Output)
        /\ Len(notifications') <= QueueDepth
    BY <1>18, <2>2, <2>3, <2>4, <2>5 DEF DispatchNotification, Types
  <2> QED
    BY <1>18, <2>6 DEF Types, DispatchNotification
<1>19. CASE WorkerTakes
  <2>1. worker' \in WorkerType /\ worker.pending \in Sizes \cup {0}
    BY <1>19 DEF WorkerTakes, WorkerType, Types, NothingPending
  <2>2. call["worker"] \in CallType
    BY DEF Types, Callers
  <2>3. CASE running
    <3>1. BeginRequest("worker", worker.pending)
      BY <1>19, <2>3 DEF WorkerTakes
    <3>2. call' \in [Callers -> CallType] /\ nextId' \in Nat \ {0}
      BY <2>1, <3>1, BeginTypes DEF Callers
    <3> QED
      BY <1>19, <2>1, <3>2 DEF Types, WorkerTakes
  <2>4. CASE ~running
    <3>1. [call["worker"] EXCEPT !.ok = FALSE] \in CallType
      BY <2>2 DEF CallType
    <3>2. call' = [call EXCEPT !["worker"] =
                                [call["worker"] EXCEPT !.ok = FALSE]]
      BY <1>19, <2>4 DEF WorkerTakes
    <3>3. call' \in [Callers -> CallType]
      BY <3>1, <3>2 DEF Types
    <3> QED
      BY <1>19, <2>1, <2>4, <3>3 DEF Types, WorkerTakes
  <2> QED
    BY <2>3, <2>4
<1>20. CASE WorkerExits
  BY <1>20 DEF Types, WorkerExits, WorkerType, transportVars
<1>21. CASE StartupRequest
  <2>1. /\ host \in HostType /\ host.grid \in Sizes \cup {0}
        /\ host.left - 1 \in Int
    BY DEF HostType, Types
  <2>2. host' \in HostType
    <3>1. [host EXCEPT !.at = "calling", !.left = @ - 1] \in HostType
      BY <2>1 DEF HostType
    <3>2. [host EXCEPT !.at = "quit"] \in HostType
      BY <2>1 DEF HostType
    <3> QED
      BY <1>21, <3>1, <3>2 DEF StartupRequest
  <2>3. CASE running
    <3>1. PICK size \in Sizes \cup {0} : BeginRequest("main", size)
      BY <1>21, <2>1, <2>3 DEF StartupRequest
    <3>2. call' \in [Callers -> CallType] /\ nextId' \in Nat \ {0}
      BY <3>1, BeginTypes DEF Callers
    <3> QED
      BY <1>21, <2>2, <3>2 DEF Types, StartupRequest
  <2>4. CASE ~running
    BY <1>21, <2>2, <2>4 DEF Types, StartupRequest
  <2> QED
    BY <2>3, <2>4
<1>22. CASE StartupAnswer
  BY <1>22 DEF Types, StartupAnswer, HostType, transportVars
<1>23. CASE Pump
  <2>1. Len(notifications) \in Nat \ {0} /\ notifications # <<>>
    BY <1>23, EmptySeq DEF Pump, Types
  <2>2. notifications[Len(notifications)] \in Output
    BY <2>1, ElementOfSeq DEF Types
  <2>3. host' \in HostType
    BY <1>23, <2>2 DEF Pump, Types, HostType, Output
  <2>4. worker' \in WorkerType
    BY <1>23 DEF Pump, Types, HostType, WorkerType, RequestResize
  <2>5. /\ notifications' \in Seq(Output)
        /\ Len(notifications') <= QueueDepth
    BY <1>23, EmptySeq DEF Pump, NvimAssumption
  <2>6. reader' \in ReaderType
    BY <1>23, ReaderTypes DEF Pump, Resumed
  <2> QED
    BY <1>23, <2>3, <2>4, <2>5, <2>6 DEF Types, Pump
<1>24. CASE AskToQuit
  <2>1. host \in HostType
    BY DEF Types
  <2>3. host' \in HostType
    <3>1. FirstSize \in Sizes /\ MaxResizes \in Nat /\ MaxInputs \in Nat
      BY DEF NvimAssumption
    <3>2. [host EXCEPT !.at = "close", !.ready = FALSE, !.deferred = 0,
                       !.grid = FirstSize, !.viewport = FirstSize,
                       !.resizes = MaxResizes, !.inputs = MaxInputs,
                       !.left = 0] \in HostType
      <4>1. host.drained \in Nat /\ 0 \in Int /\ 0 \in Sizes \cup {0}
            /\ FirstSize \in Sizes \cup {0}
        BY <2>1, <3>1 DEF HostType
      <4>2. [host EXCEPT !.at = "close", !.ready = FALSE, !.deferred = 0,
                         !.grid = FirstSize] \in HostType
        BY <2>1, <4>1 DEF HostType
      <4> DEFINE h == [host EXCEPT !.at = "close", !.ready = FALSE,
                                   !.deferred = 0, !.grid = FirstSize]
      <4> HIDE DEF h
      <4>3. [h EXCEPT !.viewport = FirstSize, !.resizes = MaxResizes,
                      !.inputs = MaxInputs, !.left = 0] \in HostType
        BY <3>1, <4>1, <4>2 DEF HostType, h
      <4> QED
        BY <4>3 DEF h
    <3> QED
      BY <1>24, <3>2 DEF AskToQuit
  <2>2. outbound' \in OutboundType /\ accepted' \in Nat
    BY <1>24, EnqueuedTypes DEF AskToQuit, Types
  <2> QED
    BY <1>24, <2>2, <2>3 DEF Types, AskToQuit
<1>25. CASE Close
  BY <1>25 DEF Types, Close, HostType
<1>26. CASE WakeCallers
  BY <1>26, WakeTypes DEF Types, WakeCallers, HostType
<1>27. CASE WakeReader
  BY <1>27, ReaderTypes DEF Types, WakeReader, HostType
<1>28. CASE StopOutput
  BY <1>28 DEF Types, StopOutput, HostType, OutboundType
<1>29. CASE CancelWrites
  BY <1>29 DEF Types, CancelWrites, transportVars, HostType, ProcessType
<1>30. CASE WritersIdle
  BY <1>30 DEF Types, WritersIdle, HostType, transportVars
<1>31. CASE StopWorker
  <2>1. host \in HostType /\ worker \in WorkerType
    BY DEF Types
  <2>2. host' \in HostType
    BY <1>31, <2>1 DEF StopWorker, HostType
  <2>3. worker' \in WorkerType
    BY <1>31, <2>1 DEF StopWorker, WorkerType, NothingPending
  <2>4. UNCHANGED <<running, readFailed, outbound, writer, reader,
                    notifications, responses, timedOut, nextId, call,
                    process, nvim, accepted>>
    BY <1>31 DEF StopWorker, transportVars
  <2> QED
    BY <2>2, <2>3, <2>4 DEF Types
<1>32. CASE KillProcess
  <2>1. process' \in ProcessType
    BY <1>32 DEF KillProcess, ProcessType
  <2>2. host' \in HostType /\ nvim' \in NvimType
    BY <1>32 DEF Types, KillProcess, HostType, NvimType
  <2> QED
    BY <1>32, <2>1, <2>2 DEF Types, KillProcess, transportVars
<1>33. CASE JoinThreads
  BY <1>33 DEF Types, JoinThreads, HostType, transportVars
<1>34. CASE HostCloses
  BY <1>34 DEF Types, HostCloses, HostType, transportVars
<1>35. CASE \E size \in Sizes : ViewportChanged(size)
  <2>1. PICK size \in Sizes : ViewportChanged(size)
    BY <1>35
  <2>4. host \in HostType
    BY DEF Types
  <2>2. host' \in HostType
    <3>1. host.resizes + 1 \in Nat
      BY <2>4 DEF HostType
    <3>2. \A d \in Sizes \cup {0} :
             [host EXCEPT !.viewport = size, !.resizes = @ + 1,
                          !.deferred = d] \in HostType
      BY <2>4, <3>1 DEF HostType
    <3>3. host.deferred \in Sizes \cup {0} /\ size \in Sizes \cup {0}
      BY <2>4 DEF HostType
    <3> QED
      BY <2>1, <3>2, <3>3 DEF ViewportChanged
  <2>3. worker' \in WorkerType
    BY <2>1 DEF ViewportChanged, WorkerType, Types, RequestResize
  <2> QED
    BY <2>1, <2>2, <2>3 DEF Types, ViewportChanged, transportVars
<1>36. CASE SendInput
  <2>3. host \in HostType
    BY DEF Types
  <2>1. host' \in HostType
    BY <1>36, <2>3 DEF SendInput, HostType
  <2>2. outbound' \in OutboundType /\ accepted' \in Nat
    BY <1>36, EnqueuedTypes DEF SendInput
  <2> QED
    BY <1>36, <2>1, <2>2 DEF Types, SendInput
<1>37. CASE NvimReads
  <2>1. nvim \in NvimType /\ nvim.in # <<>>
    BY <1>37 DEF Types, NvimReads
  <2>2. Head(nvim.in) \in Message /\ Tail(nvim.in) \in Seq(Message)
    BY <2>1, HeadTailProperties DEF NvimType
  <2>3. NvimGone \in NvimType
    BY <2>1, EmptySeq DEF NvimGone, NvimType, NvimAssumption
  <2>4. nvim' \in NvimType
    <3> DEFINE m == Head(nvim.in)
               owes == IF m.kind = "request" THEN nvim.owes \cup {m.id}
                       ELSE nvim.owes
               size == IF m.size # 0 THEN m.size ELSE nvim.size
               dirty == nvim.dirty \/ m.size # 0
    <3>1. CASE m.kind = "quit"
      BY <1>37, <2>3, <3>1 DEF NvimReads
    <3>2. CASE m.kind # "quit"
      <4>1. nvim' = [nvim EXCEPT !.in = Tail(nvim.in), !.read = m.serial,
                                 !.owes = owes, !.size = size,
                                 !.dirty = dirty]
        BY <1>37, <3>2 DEF NvimReads
      <4>2. m.serial \in Nat /\ m.id \in Nat /\ m.size \in Sizes \cup {0}
        BY <2>2 DEF Message
      <4>3. owes \in SUBSET Nat /\ size \in Sizes \cup {0} /\ dirty \in BOOLEAN
        BY <2>1, <4>2 DEF NvimType
      <4> HIDE DEF m, owes, size, dirty
      <4> QED
        BY <2>1, <2>2, <4>1, <4>2, <4>3 DEF NvimType
    <3> QED
      BY <3>1, <3>2
  <2> QED
    BY <1>37, <2>4 DEF Types, NvimReads, transportVars
<1>38. CASE NvimAnswers
  <2>1. nvim \in NvimType
    BY DEF Types
  <2>2. PICK output \in Output, after \in NvimType :
             NvimWrites(output, after)
    BY <1>38, <2>1 DEF NvimAnswers, Out, Output, NvimType
  <2>3. nvim' \in NvimType
    BY <2>2, AppendProperties DEF NvimWrites, NvimType
  <2> QED
    BY <2>2, <2>3 DEF Types, NvimWrites, transportVars
<1>39. CASE NvimRedraws
  <2>1. nvim \in NvimType
    BY DEF Types
  <2>2. PICK output \in Output, after \in NvimType :
             NvimWrites(output, after)
    <3>0. nvim.redraws + 1 \in Nat
      BY <2>1 DEF NvimType
    <3>1. Out("redraw", nvim.redraws + 1, nvim.size) \in Output
      BY <2>1 DEF Out, Output, NvimType
    <3>2. [nvim EXCEPT !.redraws = @ + 1, !.dirty = FALSE] \in NvimType
      BY <2>1, <3>0 DEF NvimType
    <3> QED
      BY <1>39, <3>1, <3>2 DEF NvimRedraws
  <2>3. nvim' \in NvimType
    BY <2>2, AppendProperties DEF NvimWrites, NvimType
  <2> QED
    BY <2>2, <2>3 DEF Types, NvimWrites, transportVars
<1>40. CASE NvimAsks
  <2>1. nvim \in NvimType
    BY DEF Types
  <2>2. PICK output \in Output, after \in NvimType :
             NvimWrites(output, after)
    <3>0. nvim.asks + 1 \in Nat
      BY <2>1 DEF NvimType
    <3>1. Out("ask", nvim.asks + 1, 0) \in Output
      BY <2>1 DEF Out, Output, NvimType
    <3>2. [nvim EXCEPT !.asks = @ + 1] \in NvimType
      BY <2>1, <3>0 DEF NvimType
    <3> QED
      BY <1>40, <3>1, <3>2 DEF NvimAsks
  <2>3. nvim' \in NvimType
    BY <2>2, AppendProperties DEF NvimWrites, NvimType
  <2> QED
    BY <2>2, <2>3 DEF Types, NvimWrites, transportVars
<1>41. CASE NvimExits
  BY <1>41, EmptySeq DEF Types, NvimExits, NvimType, NvimGone,
     transportVars, NvimAssumption
<1> QED
  BY <1>1, <1>2, <1>3, <1>4, <1>5, <1>6, <1>7, <1>8, <1>9, <1>10, <1>11,
     <1>12, <1>13, <1>14, <1>15, <1>16, <1>17, <1>18, <1>19, <1>20, <1>21,
     <1>22, <1>23, <1>24, <1>25, <1>26, <1>27, <1>28, <1>29, <1>30, <1>31,
     <1>32, <1>33, <1>34, <1>35, <1>36, <1>37, <1>38, <1>39, <1>40, <1>41,
     <1>42
  DEF Next, RequestStep, WriterStep, ReaderStep, WorkerStep, HostStep,
      ShutdownStep, NvimStep

-----------------------------------------------------------------------------
(* Who changes what                                                         *)

(* The outbound queue takes a message at its end or stays as it is.         *)
LEMMA EnqueuedFacts ==
    ASSUME Types, NEW kind \in {"request", "reply", "input", "quit"},
           NEW id \in Nat, NEW size \in Sizes \cup {0},
           Enqueued(kind, id, size)
    PROVE  /\ outbound'.busy = outbound.busy
           /\ outbound'.failed = outbound.failed
           /\ \/ outbound'.queue = outbound.queue /\ accepted' = accepted
              \/ /\ ~outbound.failed
                 /\ outbound'.queue = Append(outbound.queue,
                                             NewMessage(kind, id, size))
                 /\ accepted' = accepted + 1
                 /\ NewMessage(kind, id, size) \in Message
<1>1. NewMessage(kind, id, size) \in Message
  BY DEF Types, NewMessage, Message
<1>2. outbound \in OutboundType
  BY DEF Types
<1>3. CASE Accepts
  BY <1>1, <1>2, <1>3 DEF Enqueued, Accepts, OutboundType
<1>4. CASE ~Accepts
  BY <1>4 DEF Enqueued
<1> QED
  BY <1>3, <1>4

(* A message that asks nothing.                                             *)
Sends ==
    \E kind \in {"reply", "input", "quit"}, id \in Nat :
        Enqueued(kind, id, 0) /\ UNCHANGED <<writer, nvim, process>>

WireStays ==
    /\ UNCHANGED <<outbound.queue, outbound.busy, outbound.failed, accepted>>
    /\ UNCHANGED <<writer.message, nvim.in, nvim.read, nvim.alive>>
    /\ process'.stdinOpen => process.stdinOpen

(* The messages to Neovim move only in these steps.                         *)
LEMMA WireChanges ==
    ASSUME Types, ReaderPhase, Next
    PROVE  \/ WireStays
           \/ \E c \in Callers : SendRequest(c)
           \/ Sends
           \/ WriterTakes \/ WriterWrites \/ WriterStrays \/ WriterGivesUp
           \/ NvimReads \/ NvimExits
<1>1. CASE DispatchRequest
  <2>1. reader.buffer # <<>>
    BY <1>1 DEF DispatchRequest, ReaderPhase
  <2>2. Head(reader.buffer).id \in Nat
    BY <2>1, ReaderTypes DEF Output
  <2> QED
    BY <1>1, <2>2 DEF DispatchRequest, Sends
<1>2. CASE SendInput
  BY <1>2 DEF SendInput, Sends
<1>3. CASE AskToQuit
  <2>1. CASE ProcessRunning /\ running
    BY <1>3, <2>1 DEF AskToQuit, Sends
  <2>2. CASE ~(ProcessRunning /\ running)
    BY <1>3, <2>2 DEF AskToQuit, WireStays
  <2> QED
    BY <2>1, <2>2
<1>4. CASE StopOutput
  BY <1>4 DEF StopOutput, WireStays, Types, OutboundType
<1>5. CASE WriterEnds \/ WriterRegisters \/ WriteFails
  BY <1>5 DEF WriterEnds, WriterRegisters, WriteFails, WireStays, Types,
              WriterType
<1>6. CASE WriterPublishes
  BY <1>6 DEF WriterPublishes, WireStays, Types, WriterType
<1>7. CASE NvimAnswers \/ NvimRedraws \/ NvimAsks
  BY <1>7 DEF NvimAnswers, NvimRedraws, NvimAsks, NvimWrites, WireStays,
              Types, NvimType, transportVars
<1>8. CASE ReaderReads \/ KillProcess
  BY <1>8 DEF ReaderReads, KillProcess, WireStays, Types, NvimType,
              transportVars
<1>10. CASE CancelWrites
  BY <1>10 DEF CancelWrites, WireStays, Types, ProcessType, transportVars
<1>9. CASE /\ ~ReaderStep \/ ReaderLoops \/ ReadFails \/ ReaderNotifies
                 \/ DispatchResponse \/ DispatchNotification
           /\ ~WriterStep /\ ~NvimStep /\ ~NvimExits
           /\ ~SendInput /\ ~AskToQuit /\ ~StopOutput /\ ~KillProcess
           /\ ~CancelWrites
           /\ \A c \in Callers : ~SendRequest(c)
  BY <1>9 DEF Next, RequestStep, HostStep, ShutdownStep, WorkerStep,
     CheckResponse, AwaitResponse, TimeOut, ReaderLoops, ReadFails,
     ReaderNotifies, DispatchResponse, DispatchNotification, WorkerTakes,
     WorkerExits, StartupRequest, StartupAnswer, Pump, HostCloses, Close,
     WakeCallers, WakeReader, WritersIdle, StopWorker, JoinThreads,
     ViewportChanged, WireStays, transportVars
<1> QED
  BY <1>1, <1>2, <1>3, <1>4, <1>5, <1>6, <1>7, <1>8, <1>9, <1>10
  DEF ReaderStep, WriterStep, NvimStep

-----------------------------------------------------------------------------
(* The phases of the threads                                                *)

(* The writer has a message in hand exactly while the queue is busy, and a  *)
(* failed queue is empty and stays so.                                      *)
LEMMA WriterPhaseStep ==
    ASSUME NvimAssumption, Types, ReaderPhase, WriterPhase, Next
    PROVE  WriterPhase'
<1>0. outbound \in OutboundType /\ writer \in WriterType
  BY DEF Types
<1>1. CASE \E c \in Callers : SendRequest(c)
  <2>1. PICK c \in Callers : SendRequest(c)
    BY <1>1
  <2>2. call[c].id \in Nat /\ call[c].size \in Sizes \cup {0}
    BY DEF Types, CallType
  <2>3. UNCHANGED writer /\ Enqueued("request", call[c].id, call[c].size)
    BY <2>1 DEF SendRequest
  <2> QED
    BY <2>2, <2>3, EnqueuedFacts DEF WriterPhase
<1>2. CASE Sends
  BY <1>2, EnqueuedFacts DEF Sends, WriterPhase
<1>3. CASE WriterTakes
  BY <1>0, <1>3 DEF WriterTakes, WriterPhase, OutboundType
<1>4. CASE WriterWrites \/ WriterStrays
  BY <1>0, <1>4 DEF WriterWrites, WriterStrays, WriterPhase, OutboundType
<1>5. CASE WriterGivesUp
  BY <1>0, <1>5 DEF WriterGivesUp, WriterPhase, OutboundType
<1>6. CASE WriterEnds \/ WriterRegisters \/ WriteFails \/ WriterPublishes
  BY <1>0, <1>6 DEF WriterEnds, WriterRegisters, WriteFails,
     WriterPublishes, WriterPhase, WriterType
<1>7. CASE NvimReads \/ NvimExits
  BY <1>7 DEF NvimReads, NvimExits, WriterPhase, transportVars
<1>8. CASE WireStays /\ ~WriterStep
  <2>1. UNCHANGED writer
    BY <1>8 DEF Next, RequestStep, WriterStep, ReaderStep, WorkerStep,
       HostStep, ShutdownStep, NvimStep, SendRequest, CheckResponse,
       AwaitResponse, TimeOut, ReaderLoops, ReaderReads, ReadFails,
       ReaderNotifies, DispatchResponse, DispatchRequest,
       DispatchNotification, WorkerTakes, WorkerExits, StartupRequest,
       StartupAnswer, Pump, AskToQuit, Close, WakeCallers, WakeReader,
       StopOutput, CancelWrites, WritersIdle, StopWorker, KillProcess,
       JoinThreads, HostCloses, ViewportChanged, SendInput, NvimReads,
       NvimAnswers, NvimRedraws, NvimAsks, NvimWrites, NvimExits,
       transportVars
  <2> QED
    BY <1>8, <2>1 DEF WireStays, WriterPhase
<1> QED
  BY <1>1, <1>2, <1>3, <1>4, <1>5, <1>6, <1>7, <1>8, WireChanges
  DEF WriterStep

(* The host's own place changes only in its own steps, and nothing opens it *)
(* again.                                                                   *)
LEMMA HostChanges ==
    ASSUME Types, Next
    PROVE  /\ \/ UNCHANGED host.at
              \/ StartupRequest \/ StartupAnswer \/ HostCloses
              \/ ShutdownStep
           /\ host.at \notin Open => host'.at \notin Open
           /\ running' => running
<1>1. CASE Pump \/ SendInput \/ \E size \in Sizes : ViewportChanged(size)
  <2>1. host \in HostType
    BY DEF Types
  <2>2. running' = running
    BY <1>1 DEF Pump, SendInput, ViewportChanged, transportVars
  <2>3. host'.at = host.at
    BY <1>1, <2>1 DEF Pump, SendInput, ViewportChanged, HostType
  <2> QED
    BY <2>2, <2>3
<1>2. CASE StartupRequest \/ StartupAnswer \/ HostCloses
  BY <1>2 DEF StartupRequest, StartupAnswer, HostCloses, transportVars, Open
<1>3. CASE ShutdownStep
  <2>1. running' => running
    BY <1>3 DEF ShutdownStep, AskToQuit, Close, WakeCallers, WakeReader,
       StopOutput, CancelWrites, WritersIdle, StopWorker, KillProcess,
       JoinThreads, transportVars
  <2>2. host'.at \notin Open
    BY <1>3 DEF ShutdownStep, AskToQuit, Close, WakeCallers, WakeReader,
       StopOutput, CancelWrites, WritersIdle, StopWorker, KillProcess,
       JoinThreads, transportVars, Types, HostType, Open
  <2> QED
    BY <1>3, <2>1, <2>2
<1>4. CASE \/ \E c \in Callers : RequestStep(c) \/ TimeOut(c)
           \/ WriterStep \/ ReaderStep \/ WorkerStep
           \/ NvimStep \/ NvimExits
  <2>1. UNCHANGED host
    BY <1>4 DEF RequestStep, SendRequest, CheckResponse, AwaitResponse,
       TimeOut, WriterStep, WriterTakes, WriterEnds, WriterRegisters,
       WriterWrites, WriterStrays, WriteFails, WriterGivesUp,
       WriterPublishes, ReaderStep,
       ReaderLoops, ReaderReads, ReadFails, ReaderNotifies,
       DispatchResponse, DispatchRequest, DispatchNotification, WorkerStep,
       WorkerTakes, WorkerExits, NvimStep, NvimReads, NvimAnswers,
       NvimRedraws, NvimAsks, NvimWrites, NvimExits
  <2>2. running' => running
    BY <1>4 DEF RequestStep, SendRequest, CheckResponse, AwaitResponse,
       TimeOut, WriterStep, WriterTakes, WriterEnds, WriterRegisters,
       WriterWrites, WriterStrays, WriteFails, WriterGivesUp,
       WriterPublishes, ReaderStep,
       ReaderLoops, ReaderReads, ReadFails, ReaderNotifies,
       DispatchResponse, DispatchRequest, DispatchNotification, WorkerStep,
       WorkerTakes, WorkerExits, NvimStep, NvimReads, NvimAnswers,
       NvimRedraws, NvimAsks, NvimWrites, NvimExits, transportVars
  <2> QED
    BY <2>1, <2>2
<1> QED
  BY <1>1, <1>2, <1>3, <1>4 DEF Next, HostStep

(* Writes are cancelled before the descriptor is closed, and nobody enters  *)
(* write() from then on.                                                    *)
LEMMA ClosePhaseStep ==
    ASSUME Types, ClosePhase, Next PROVE ClosePhase'
<1>0. host \in HostType /\ writer \in WriterType /\ process \in ProcessType
  BY DEF Types
<1>1. CASE CancelWrites
  BY <1>0, <1>1 DEF CancelWrites, ClosePhase, ProcessType, HostType,
                    transportVars
<1>2. CASE WritersIdle
  BY <1>0, <1>2 DEF WritersIdle, ClosePhase, HostType, transportVars
<1>3. CASE StopWorker
  BY <1>0, <1>3 DEF StopWorker, ClosePhase, HostType, transportVars
<1>4. CASE KillProcess
  BY <1>0, <1>4 DEF KillProcess, ClosePhase, HostType, ProcessType,
                    transportVars
<1>5. CASE JoinThreads \/ StopOutput \/ AskToQuit \/ Close \/ WakeCallers
           \/ WakeReader
  <2>1. /\ host.at \notin {"cancel", "stopWorker", "joinWorker"}
        /\ host'.at \notin {"cancel", "stopWorker", "joinWorker"}
        /\ UNCHANGED <<process, writer>>
    BY <1>0, <1>5 DEF JoinThreads, StopOutput, AskToQuit, Close,
       WakeCallers, WakeReader, HostType, transportVars
  <2> QED
    BY <2>1 DEF ClosePhase
<1>6. CASE WriterStep
  <2>1. UNCHANGED <<host, process>>
    BY <1>6 DEF WriterStep, WriterTakes, WriterEnds, WriterRegisters,
       WriterWrites, WriterStrays, WriteFails, WriterGivesUp,
       WriterPublishes
  <2>2. writer'.at = "writing" => ~process.cancelled
    BY <1>0, <1>6 DEF WriterStep, WriterTakes, WriterEnds, WriterRegisters,
       WriterWrites, WriterStrays, WriteFails, WriterGivesUp,
       WriterPublishes, MayWrite,
       WriterType
  <2> QED
    BY <2>1, <2>2 DEF ClosePhase
<1>7. CASE ~WriterStep /\ ~ShutdownStep
  <2>1. UNCHANGED <<process, writer>>
    BY <1>7 DEF Next, RequestStep, ReaderStep, WorkerStep, HostStep,
       NvimStep, SendRequest, CheckResponse, AwaitResponse, TimeOut,
       ReaderLoops, ReaderReads, ReadFails, ReaderNotifies,
       DispatchResponse, DispatchRequest, DispatchNotification, WorkerTakes,
       WorkerExits, StartupRequest, StartupAnswer, Pump, HostCloses,
       ViewportChanged, SendInput, NvimReads, NvimAnswers, NvimRedraws,
       NvimAsks, NvimWrites, NvimExits, transportVars
  <2>2. host'.at = host.at \/ host'.at \notin Closing
    BY <1>0, <1>7, HostChanges DEF StartupRequest, StartupAnswer, HostCloses,
       HostType, Closing
  <2> QED
    BY <2>1, <2>2 DEF ClosePhase, Closing
<1> QED
  BY <1>1, <1>2, <1>3, <1>4, <1>5, <1>6, <1>7 DEF ShutdownStep

(* The reader has something to dispatch exactly while it dispatches or is   *)
(* paused; a closing transport no longer runs, and one that no longer runs  *)
(* is closed by the host or by its reader, which is at its end.             *)
LEMMA ReaderPhaseStep ==
    ASSUME Types, ReaderPhase, Next PROVE ReaderPhase'
<1>0. host \in HostType /\ reader \in ReaderType
  BY DEF Types
<1>1. CASE ReaderLoops
  BY <1>0, <1>1 DEF ReaderLoops, ReaderPhase, ReaderType, Gone
<1>2. CASE ReaderReads
  BY <1>0, <1>2 DEF ReaderReads, ReaderPhase, ReaderType, Gone
<1>3. CASE ReadFails
  BY <1>0, <1>3 DEF ReadFails, ReaderPhase, ReaderType, Gone
<1>4. CASE ReaderNotifies
  BY <1>0, <1>4 DEF ReaderNotifies, ReaderPhase, ReaderType, Gone
<1>5. CASE DispatchResponse \/ DispatchRequest \/ DispatchNotification
  <2>1. reader.buffer # <<>> /\ reader.at = "dispatch"
    BY <1>5 DEF DispatchResponse, DispatchRequest, DispatchNotification,
                ReaderPhase
  <2>2. /\ Len(reader.buffer) \in Nat \ {0}
        /\ Tail(reader.buffer) \in Seq(Output)
        /\ Len(Tail(reader.buffer)) = Len(reader.buffer) - 1
    BY <1>0, <2>1, HeadTailProperties, EmptySeq DEF ReaderType
  <2>3. Tail(reader.buffer) # <<>> <=> Len(reader.buffer) # 1
    <3>1. Tail(reader.buffer) # <<>> <=> Len(Tail(reader.buffer)) # 0
      BY <2>2, EmptySeq
    <3> QED
      BY <2>2, <3>1
  <2>4. /\ Dispatched.at \notin Gone
        /\ Dispatched.buffer # <<>>
              <=> Dispatched.at \in {"dispatch", "paused"}
    BY <2>3 DEF Dispatched, Gone
  <2>5. /\ UNCHANGED <<host, running>>
        /\ reader' = Dispatched \/ reader' = [reader EXCEPT !.at = "paused"]
    BY <1>5 DEF DispatchResponse, DispatchRequest, DispatchNotification
  <2> QED
    BY <1>0, <2>1, <2>4, <2>5 DEF ReaderPhase, ReaderType, Gone
<1>6. CASE Pump
  <2>1. host'.at = host.at /\ running' = running
    BY <1>0, <1>6 DEF Pump, HostType
  <2> QED
    BY <1>0, <1>6, <2>1 DEF Pump, Resumed, ReaderWoken, ReaderPhase,
       ReaderType, Gone
<1>7. CASE WakeReader
  BY <1>0, <1>7 DEF WakeReader, ReaderWoken, ReaderPhase, ReaderType, Gone,
     Open, Closing, HostType
<1>8. CASE Close
  BY <1>0, <1>8 DEF Close, ReaderPhase, Open, Closing, HostType
<1>9. CASE ~ReaderStep /\ ~Pump /\ ~WakeReader /\ ~Close
  <2>1. UNCHANGED <<reader, running>>
    BY <1>9 DEF Next, RequestStep, WriterStep, WorkerStep, HostStep,
       ShutdownStep, NvimStep, SendRequest, CheckResponse, AwaitResponse,
       TimeOut, WriterTakes, WriterEnds, WriterRegisters, WriterWrites,
       WriterStrays, WriteFails, WriterGivesUp, WriterPublishes,
       WorkerTakes, WorkerExits,
       StartupRequest, StartupAnswer, AskToQuit, WakeCallers, StopOutput,
       CancelWrites, WritersIdle, StopWorker, KillProcess, JoinThreads,
       HostCloses, ViewportChanged, SendInput, NvimReads, NvimAnswers,
       NvimRedraws, NvimAsks, NvimWrites, NvimExits, transportVars
  <2>2. host.at \notin Open => host'.at \notin Open
    BY HostChanges
  <2>3. host'.at \in Closing => host.at \in Closing
    <3>1. CASE ShutdownStep
      <4>1. CASE AskToQuit \/ KillProcess
        <5>1. host'.at = "close"
          BY <1>0, <4>1 DEF AskToQuit, KillProcess, HostType
        <5> QED
          BY <5>1 DEF Closing
      <4>2. CASE WakeCallers \/ StopOutput \/ CancelWrites
        BY <4>2 DEF WakeCallers, StopOutput, CancelWrites, Closing
      <4>3. CASE WritersIdle \/ StopWorker \/ JoinThreads
        BY <4>3 DEF WritersIdle, StopWorker, JoinThreads, Closing
      <4> QED
        BY <1>9, <3>1, <4>1, <4>2, <4>3 DEF ShutdownStep
    <3>2. CASE StartupRequest \/ StartupAnswer \/ HostCloses
      BY <1>0, <3>2 DEF StartupRequest, StartupAnswer, HostCloses, Closing,
         HostType
    <3> QED
      BY <3>1, <3>2, HostChanges
  <2> QED
    BY <2>1, <2>2, <2>3 DEF ReaderPhase
<1> QED
  BY <1>1, <1>2, <1>3, <1>4, <1>5, <1>6, <1>7, <1>8, <1>9 DEF ReaderStep

(* The main thread asks during startup, the worker afterwards: never both.  *)
LEMMA CallPhaseStep ==
    ASSUME Types, CallPhase, Next PROVE CallPhase'
<1>0. /\ host \in HostType /\ worker \in WorkerType
      /\ call \in [Callers -> CallType] /\ call["main"] \in CallType
      /\ call["worker"] \in CallType
  BY DEF Types, Callers
<1>1. CASE \E c \in Callers : RequestStep(c) \/ TimeOut(c)
  <2>1. PICK c \in Callers : RequestStep(c) \/ TimeOut(c)
    BY <1>1
  <2>2. /\ call[c].at # "idle"
        /\ \A d \in Callers \ {c} : call'[d] = call[d]
        /\ UNCHANGED <<host, worker>>
    BY <1>0, <2>1 DEF RequestStep, SendRequest, CheckResponse,
       AwaitResponse, TimeOut, Finish
  <2> QED
    BY <2>1, <2>2 DEF CallPhase, Callers
<1>2. CASE WriterStep \/ ReaderStep \/ WakeCallers
  <2>1. /\ \A c \in Callers : call'[c].at = "idle" <=> call[c].at = "idle"
        /\ UNCHANGED worker
    BY <1>0, <1>2 DEF WriterStep, WriterTakes, WriterEnds, WriterRegisters,
       WriterWrites, WriterStrays, WriteFails, WriterGivesUp,
       WriterPublishes, ReaderStep,
       ReaderLoops, ReaderReads, ReadFails, ReaderNotifies,
       DispatchResponse, DispatchRequest, DispatchNotification, WakeCallers,
       CallersWoken, CallType
  <2>2. host' = host \/ WakeCallers
    BY <1>2 DEF WriterStep, WriterTakes, WriterEnds, WriterRegisters,
       WriterWrites, WriterStrays, WriteFails, WriterGivesUp,
       WriterPublishes, ReaderStep,
       ReaderLoops, ReaderReads, ReadFails, ReaderNotifies,
       DispatchResponse, DispatchRequest, DispatchNotification
  <2> QED
    BY <1>0, <2>1, <2>2 DEF CallPhase, Callers, WakeCallers, HostType
<1>3. CASE WorkerTakes
  BY <1>0, <1>3 DEF WorkerTakes, BeginRequest, CallPhase, Callers, CallType,
     WorkerType, NothingPending
<1>4. CASE StartupRequest
  BY <1>0, <1>4 DEF StartupRequest, BeginRequest, CallPhase, Callers,
     HostType
<1>5. CASE StartupAnswer
  BY <1>0, <1>5 DEF StartupAnswer, CallPhase, HostType, transportVars
<1>6. CASE Pump \/ \E size \in Sizes : ViewportChanged(size)
  <2>1. host.at = "run" /\ host'.at = "run" /\ UNCHANGED call
    BY <1>0, <1>6 DEF Pump, ViewportChanged, HostType, transportVars
  <2> QED
    BY <2>1 DEF CallPhase
<1>7. CASE WorkerExits
  BY <1>0, <1>7 DEF WorkerExits, CallPhase, WorkerType, transportVars
<1>8. CASE SendInput \/ NvimStep \/ NvimExits
  <2>1. host'.at = host.at /\ UNCHANGED <<call, worker>>
    BY <1>0, <1>8 DEF SendInput, NvimStep, NvimReads, NvimAnswers,
       NvimRedraws, NvimAsks, NvimWrites, NvimExits, transportVars, HostType
  <2> QED
    BY <2>1 DEF CallPhase
<1>9. CASE HostCloses \/ (ShutdownStep /\ ~WakeCallers)
  <2>1. /\ host.at \notin {"startup", "calling"}
        /\ host'.at \notin {"startup", "calling"} /\ UNCHANGED call
    BY <1>0, <1>9 DEF HostCloses, ShutdownStep, AskToQuit, Close,
       WakeReader, StopOutput, CancelWrites, WritersIdle, StopWorker,
       KillProcess, JoinThreads, HostType, transportVars
  <2> QED
    BY <2>1 DEF CallPhase
<1> QED
  BY <1>1, <1>2, <1>3, <1>4, <1>5, <1>6, <1>7, <1>8, <1>9
  DEF Next, HostStep, WorkerStep

-----------------------------------------------------------------------------
(* The order of messages                                                    *)

(* The numbering goes on at the end ...                                     *)
LEMMA NumberedAppend ==
    ASSUME NEW q \in Seq(Message), NEW m \in Message, NEW n \in Nat,
           Numbered(q, n), m.serial = n + Len(q) + 1
    PROVE  Numbered(Append(q, m), n)
<1>1. /\ Len(q) \in Nat /\ Len(Append(q, m)) = Len(q) + 1
      /\ \A i \in 1..Len(q) : Append(q, m)[i] = q[i]
      /\ Append(q, m)[Len(q) + 1] = m
  BY AppendProperties, LenProperties
<1>2. ASSUME NEW i \in 1..(Len(q) + 1)
      PROVE  Append(q, m)[i].serial = n + i
  <2>1. CASE i \in 1..Len(q)
    BY <1>1, <2>1 DEF Numbered
  <2>2. CASE i = Len(q) + 1
    <3>1. n + Len(q) + 1 = n + (Len(q) + 1)
      BY <1>1
    <3> QED
      BY <1>1, <2>2, <3>1
  <2> QED
    BY <1>1, <2>1, <2>2
<1> QED
  BY <1>1, <1>2 DEF Numbered

(* ... and at the front.                                                    *)
LEMMA NumberedTail ==
    ASSUME NEW q \in Seq(Message), q # <<>>, NEW n \in Nat, Numbered(q, n)
    PROVE  /\ Head(q).serial = n + 1
           /\ Numbered(Tail(q), n + 1)
<1>1. /\ Len(q) \in Nat \ {0} /\ Len(Tail(q)) = Len(q) - 1
      /\ Head(q) = q[1]
      /\ \A i \in 1..(Len(q) - 1) : Tail(q)[i] = q[i + 1]
  BY HeadTailProperties, EmptySeq
<1>2. Head(q).serial = n + 1
  BY <1>1 DEF Numbered
<1>3. ASSUME NEW i \in 1..(Len(q) - 1)
      PROVE  Tail(q)[i].serial = (n + 1) + i
  <2>1. i + 1 \in 1..Len(q) /\ n + (i + 1) = (n + 1) + i
    BY <1>1
  <2> QED
    BY <1>1, <2>1 DEF Numbered
<1> QED
  BY <1>1, <1>2, <1>3 DEF Numbered

(* An empty sequence is numbered from anywhere.                             *)
LEMMA NumberedEmpty == \A n : Numbered(<<>>, n)
<1>1. Len(<<>>) = 0
  BY EmptySeq
<1> QED
  BY <1>1 DEF Numbered

(* A message is accepted under the serial that follows all on their way.    *)
LEMMA WireAppend ==
    ASSUME Types, Wire, NEW kind \in {"request", "reply", "input", "quit"},
           NEW id \in Nat, NEW size \in Sizes \cup {0},
           Enqueued(kind, id, size), UNCHANGED <<writer, nvim, process>>
    PROVE  Wire'
<1> DEFINE q == outbound.queue
           m == NewMessage(kind, id, size)
<1>1. q \in Seq(Message) /\ Len(q) \in Nat
  BY LenProperties DEF Types, OutboundType
<1>2. nvim.read \in Nat /\ Len(nvim.in) \in Nat /\ accepted \in Nat
  BY LenProperties DEF Types, NvimType
<1>3. /\ Held' = Held /\ outbound'.busy = outbound.busy
      /\ outbound'.failed = outbound.failed
  BY EnqueuedFacts DEF Held
<1>4. CASE outbound'.queue = q /\ accepted' = accepted
  BY <1>3, <1>4 DEF Wire, Ahead
<1>5. CASE /\ ~outbound.failed /\ outbound'.queue = Append(q, m)
           /\ accepted' = accepted + 1 /\ m \in Message
  <2>1. Len(Append(q, m)) = Len(q) + 1
    BY <1>1, <1>5, AppendProperties
  <2>2. m.serial = accepted + 1
    BY DEF NewMessage
  <2>3. Ahead' = Ahead
    <3>1. Ahead' = (accepted + 1) - (Len(q) + 1)
      BY <1>5, <2>1 DEF Ahead
    <3>2. (accepted + 1) - (Len(q) + 1) = accepted - Len(q)
      BY <1>1, <1>2
    <3> QED
      BY <3>1, <3>2 DEF Ahead
  <2>4. ASSUME nvim.alive PROVE Numbered(Append(q, m), Ahead)
    <3>1. Numbered(q, Ahead) /\ nvim.read + Len(nvim.in) + Held <= Ahead
      BY <1>5, <2>4 DEF Wire
    <3>2. Ahead \in Nat /\ accepted + 1 = Ahead + Len(q) + 1
      BY <1>1, <1>2, <3>1 DEF Ahead, Held
    <3> HIDE DEF q, m
    <3> QED
      BY <1>1, <1>5, <2>2, <3>1, <3>2, NumberedAppend
  <2> HIDE DEF q, m
  <2> QED
    BY <1>3, <1>5, <2>3, <2>4 DEF Wire
<1> QED
  BY <1>4, <1>5, EnqueuedFacts

(* Every step keeps the numbering of all messages on their way.             *)
LEMMA WireStep ==
    ASSUME NvimAssumption, Types, WriterPhase, ReaderPhase, Wire, Next
    PROVE  Wire'
<1>0. /\ outbound \in OutboundType /\ writer \in WriterType
      /\ nvim \in NvimType /\ accepted \in Nat
      /\ Len(outbound.queue) \in Nat /\ Len(nvim.in) \in Nat
  BY LenProperties DEF Types, OutboundType, NvimType
<1>1. CASE WireStays
  BY <1>1 DEF WireStays, Wire, Held, Ahead
<1>2. CASE \E c \in Callers : SendRequest(c)
  <2>1. PICK c \in Callers : SendRequest(c)
    BY <1>2
  <2>2. call[c].id \in Nat /\ call[c].size \in Sizes \cup {0}
    BY DEF Types, CallType
  <2> QED
    BY <2>1, <2>2, WireAppend DEF SendRequest
<1>3. CASE Sends
  BY <1>3, WireAppend DEF Sends
<1>4. CASE WriterTakes
  <2> DEFINE q == outbound.queue
  <2>1. q # <<>> /\ q \in Seq(Message) /\ Len(q) \in Nat \ {0}
    BY <1>0, <1>4, EmptySeq DEF WriterTakes, OutboundType
  <2>2. /\ ~outbound.busy /\ outbound'.busy /\ outbound'.queue = Tail(q)
        /\ outbound'.failed = outbound.failed
        /\ writer'.message = Head(q)
        /\ UNCHANGED <<nvim, process, accepted>>
    BY <1>0, <1>4 DEF WriterTakes, WriterPhase, OutboundType
  <2>3. Len(Tail(q)) = Len(q) - 1
    BY <2>1, HeadTailProperties
  <2>4. Held = 0 /\ Held' = 1
    BY <2>2 DEF Held
  <2>5. nvim.read \in Nat
    BY <1>0 DEF NvimType
  <2>6. Ahead \in Int /\ Ahead' = Ahead + 1
    BY <1>0, <2>1, <2>2, <2>3 DEF Ahead
  <2>7. ASSUME nvim.alive, ~outbound.failed
        PROVE  /\ writer'.message.serial = Ahead'
               /\ Numbered(Tail(q), Ahead')
               /\ nvim.read + Len(nvim.in) + 1 <= Ahead'
               /\ process.stdinOpen => nvim.read + Len(nvim.in) + 1 = Ahead'
    <3>1. /\ Numbered(q, Ahead) /\ nvim.read + Len(nvim.in) + 0 <= Ahead
          /\ process.stdinOpen => nvim.read + Len(nvim.in) + 0 = Ahead
      BY <2>4, <2>7 DEF Wire
    <3>2. Ahead \in Nat
      BY <1>0, <2>5, <2>6, <3>1
    <3> HIDE DEF q
    <3>3. Head(q).serial = Ahead + 1 /\ Numbered(Tail(q), Ahead + 1)
      BY <2>1, <3>1, <3>2, NumberedTail
    <3>4. /\ nvim.read + Len(nvim.in) + 1 <= Ahead + 1
          /\ process.stdinOpen =>
                nvim.read + Len(nvim.in) + 1 = Ahead + 1
      BY <1>0, <2>5, <3>1, <3>2
    <3> QED
      BY <2>2, <2>6, <3>3, <3>4
  <2> HIDE DEF q
  <2> QED
    BY <2>2, <2>4, <2>7 DEF Wire
<1>5. CASE WriterWrites
  <2> DEFINE s == nvim.in
             m == writer.message
  <2>1. /\ outbound.busy /\ ~outbound'.busy /\ ~outbound.failed
        /\ outbound'.queue = outbound.queue /\ ~outbound'.failed
        /\ nvim'.in = Append(s, m) /\ nvim'.read = nvim.read
        /\ nvim.alive /\ nvim'.alive /\ process.stdinOpen
        /\ UNCHANGED <<accepted, process>>
    BY <1>0, <1>5 DEF WriterWrites, WriterPhase, OutboundType, NvimType
  <2>2. s \in Seq(Message) /\ m \in Message /\ nvim.read \in Nat
    BY <1>0 DEF NvimType, WriterType
  <2>3. Len(Append(s, m)) = Len(s) + 1
    BY <2>2, AppendProperties
  <2>4. Held = 1 /\ Held' = 0 /\ Ahead' = Ahead
    BY <2>1 DEF Held, Ahead
  <2>5. /\ m.serial = nvim.read + Len(s) + 1
        /\ Numbered(outbound.queue, Ahead)
        /\ Ahead = nvim.read + Len(s) + 1
        /\ Numbered(s, nvim.read)
    BY <2>1, <2>4 DEF Wire
  <2>6. Numbered(Append(s, m), nvim.read)
    BY <2>2, <2>5, NumberedAppend
  <2>7. /\ nvim.read + Len(s) + 1 = nvim.read + (Len(s) + 1) + 0
        /\ nvim.read + Len(s) + 1 <= nvim.read + Len(s) + 1
    BY <1>0, <2>2
  <2> HIDE DEF s, m
  <2> QED
    BY <2>1, <2>3, <2>4, <2>5, <2>6, <2>7 DEF Wire
<1>9. CASE WriterStrays
  <2>1. /\ outbound.busy /\ ~outbound'.busy /\ ~outbound.failed
        /\ outbound'.queue = outbound.queue /\ ~outbound'.failed
        /\ ~process.stdinOpen /\ UNCHANGED <<accepted, process, nvim>>
    BY <1>0, <1>9 DEF WriterStrays, WriterPhase, OutboundType
  <2>2. Held = 1 /\ Held' = 0 /\ Ahead' = Ahead
    BY <2>1 DEF Held, Ahead
  <2>3. nvim.read \in Nat /\ Ahead \in Int
    BY <1>0 DEF NvimType, Ahead
  <2>4. nvim.read + Len(nvim.in) + 1 <= Ahead
            => nvim.read + Len(nvim.in) + 0 <= Ahead
    BY <1>0, <2>3
  <2> QED
    BY <2>1, <2>2, <2>4 DEF Wire
<1>6. CASE WriterGivesUp
  BY <1>0, <1>6 DEF WriterGivesUp, Wire, OutboundType
<1>7. CASE NvimReads
  <2> DEFINE s == nvim.in
  <2>1. s # <<>> /\ s \in Seq(Message) /\ Len(s) \in Nat \ {0}
        /\ nvim.read \in Nat
    BY <1>0, <1>7, EmptySeq DEF NvimReads, NvimType
  <2>2. CASE Head(s).kind = "quit"
    <3>1. /\ nvim' = NvimGone
          /\ UNCHANGED <<outbound, writer, accepted>>
      BY <1>7, <2>2 DEF NvimReads, transportVars
    <3>2. nvim'.in = <<>> /\ ~nvim'.alive
      BY <1>0, <3>1 DEF NvimGone, NvimType
    <3> QED
      BY <3>1, <3>2, NumberedEmpty DEF Wire
  <2>3. CASE Head(s).kind # "quit"
    <3>1. /\ nvim'.in = Tail(s) /\ nvim'.read = Head(s).serial
          /\ nvim'.alive = nvim.alive /\ nvim.alive
          /\ UNCHANGED <<outbound, writer, process, accepted>>
      BY <1>0, <1>7, <2>3 DEF NvimReads, NvimType, transportVars
    <3>2. Len(Tail(s)) = Len(s) - 1
      BY <2>1, HeadTailProperties
    <3>3. nvim'.read = nvim.read + 1 /\ Numbered(Tail(s), nvim.read + 1)
      BY <2>1, <3>1, NumberedTail DEF Wire
    <3>4. nvim.read + Len(s) = (nvim.read + 1) + (Len(s) - 1)
      BY <2>1
    <3>5. Held' = Held /\ Ahead' = Ahead
      BY <3>1 DEF Held, Ahead
    <3>6. nvim'.read + Len(nvim'.in) = nvim.read + Len(nvim.in)
      BY <3>1, <3>2, <3>3, <3>4
    <3>7. Numbered(nvim'.in, nvim'.read)
      BY <3>1, <3>3
    <3> HIDE DEF s
    <3> QED
      BY <3>1, <3>5, <3>6, <3>7 DEF Wire
  <2> QED
    BY <2>2, <2>3
<1>8. CASE NvimExits
  <2>1. UNCHANGED <<outbound, writer, accepted>> /\ nvim' = NvimGone
    BY <1>8 DEF NvimExits, transportVars
  <2>2. nvim'.in = <<>> /\ ~nvim'.alive
    BY <1>0, <2>1 DEF NvimGone, NvimType
  <2> QED
    BY <2>1, <2>2, NumberedEmpty DEF Wire
<1> QED
  BY <1>1, <1>2, <1>3, <1>4, <1>5, <1>6, <1>7, <1>8, <1>9, WireChanges

-----------------------------------------------------------------------------
(* The completeness of redraws                                              *)

(* Everything but the redraws may change.                                   *)
RedrawsStay ==
    /\ UNCHANGED <<notifications, host.drained, reader.buffer, nvim.out>>
    /\ UNCHANGED nvim.redraws

(* The redraws move only in these steps.                                    *)
LEMMA RedrawChanges ==
    ASSUME Types, Next
    PROVE  \/ RedrawsStay
           \/ ReaderReads \/ DispatchResponse \/ DispatchRequest
           \/ DispatchNotification \/ Pump
           \/ NvimAnswers \/ NvimRedraws \/ NvimAsks
<1>0. host \in HostType /\ reader \in ReaderType /\ nvim \in NvimType
  BY DEF Types
<1>1. CASE ReaderLoops \/ ReadFails \/ ReaderNotifies
  BY <1>0, <1>1 DEF ReaderLoops, ReadFails, ReaderNotifies, RedrawsStay,
     ReaderType
<1>2. CASE WakeReader
  BY <1>0, <1>2 DEF WakeReader, ReaderWoken, RedrawsStay, ReaderType,
     HostType
<1>3. CASE HostStep /\ ~Pump /\ ~WakeReader
  BY <1>0, <1>3 DEF HostStep, ShutdownStep, StartupRequest, StartupAnswer,
     AskToQuit, Close, WakeCallers, StopOutput, CancelWrites, WritersIdle,
     StopWorker, KillProcess, JoinThreads, RedrawsStay, HostType, NvimType,
     transportVars
<1>4. CASE HostCloses \/ SendInput \/ \E size \in Sizes :
              ViewportChanged(size)
  BY <1>0, <1>4 DEF HostCloses, SendInput, ViewportChanged, RedrawsStay,
     HostType, transportVars
<1>5. CASE NvimReads \/ NvimExits \/ WriterWrites
  BY <1>0, <1>5 DEF NvimReads, NvimExits, NvimGone, WriterWrites,
     RedrawsStay, NvimType, transportVars
<1>6. CASE \/ \E c \in Callers : RequestStep(c) \/ TimeOut(c)
           \/ WriterStep /\ ~WriterWrites
           \/ WorkerStep
  BY <1>6 DEF RequestStep, SendRequest, CheckResponse, AwaitResponse,
     TimeOut, WriterStep, WriterTakes, WriterEnds, WriterRegisters,
     WriterStrays, WriteFails, WriterGivesUp, WriterPublishes, WorkerStep,
     WorkerTakes,
     WorkerExits, RedrawsStay, transportVars
<1> QED
  BY <1>1, <1>2, <1>3, <1>4, <1>5, <1>6
  DEF Next, ReaderStep, HostStep, NvimStep

(* Redraws that are where they were, or moved on in their order.            *)
LEMMA RedrawMoves ==
    ASSUME Redrawn, Types, Next,
           UNCHANGED <<notifications, host.drained, nvim.redraws>>,
           Rising(reader.buffer'), Rising(nvim'.out),
           \A m, n \in Nat : DrawnIn(reader'.buffer, m)
                                /\ DrawnIn(nvim'.out, n) => m < n,
           \A n \in Nat : Drawn(n)' <=> Drawn(n)
    PROVE  Redrawn'
<1>1. Queued' = Queued /\ (QueueInOrder <=> QueueInOrder')
  BY DEF Queued, QueueInOrder
<1>2. host.drained \in Nat /\ Len(notifications) \in Nat
      /\ nvim.redraws \in Nat
  BY LenProperties DEF Types, HostType, NvimType
<1>3. \A n \in (Queued + 1)..nvim.redraws : n \in Nat
  BY <1>2 DEF Queued
<1>4. Complete => Complete'
  BY <1>1, <1>3 DEF Complete
<1> QED
  BY <1>1, <1>4, HostChanges DEF Redrawn

(* Every step keeps the redraws in order and without a gap.                 *)
LEMMA RedrawnStep ==
    ASSUME NvimAssumption, Types, ReaderPhase, Redrawn, Next
    PROVE  Redrawn'
<1>0. /\ host \in HostType /\ reader \in ReaderType /\ nvim \in NvimType
      /\ reader.buffer \in Seq(Output) /\ nvim.out \in Seq(Output)
      /\ host.drained \in Nat /\ Len(notifications) \in Nat
      /\ nvim.redraws \in Nat /\ Queued \in Nat
  BY LenProperties DEF Types, HostType, NvimType, ReaderType, Queued
<1>1. CASE RedrawsStay
  BY <1>1, RedrawMoves DEF RedrawsStay, Redrawn, Drawn
<1>2. CASE ReaderReads
  <2>1. /\ reader.buffer = <<>> /\ reader'.buffer = nvim.out
        /\ nvim'.out = <<>>
        /\ UNCHANGED <<notifications, host, nvim.redraws>>
    BY <1>0, <1>2 DEF ReaderReads, ReaderPhase, NvimType
  <2> QED
    BY <2>1, RedrawMoves, OutputEmpty DEF Redrawn, Drawn
<1>3. CASE DispatchResponse \/ DispatchRequest
  <2>1. /\ reader.buffer # <<>> /\ Head(reader.buffer).kind # "redraw"
        /\ reader'.buffer = Tail(reader.buffer)
        /\ UNCHANGED <<notifications, host, nvim>>
    <3>1. /\ reader.at = "dispatch" /\ Head(reader.buffer).kind # "redraw"
          /\ reader' = Dispatched /\ UNCHANGED <<notifications, host, nvim>>
      BY <1>3 DEF DispatchResponse, DispatchRequest
    <3> QED
      BY <3>1 DEF ReaderPhase, Dispatched
  <2>2. \A n : DrawnIn(reader'.buffer, n) <=> DrawnIn(reader.buffer, n)
    BY <1>0, <2>1, OutputTail
  <2>3. Rising(reader'.buffer)
    BY <1>0, <2>1, RisingTail DEF Redrawn
  <2> QED
    BY <2>1, <2>2, <2>3, RedrawMoves DEF Redrawn, Drawn
<1>4. CASE DispatchNotification
  <2> DEFINE first == Head(reader.buffer)
             rest == Tail(reader.buffer)
  <2>1. /\ reader.buffer # <<>> /\ first.kind = "redraw"
        /\ first \in Output /\ first.id \in Nat /\ rest \in Seq(Output)
    <3>1. reader.buffer # <<>> /\ first.kind = "redraw"
      BY <1>4 DEF DispatchNotification, ReaderPhase
    <3>2. first \in Output /\ rest \in Seq(Output)
      BY <1>0, <3>1, HeadTailProperties
    <3> QED
      BY <3>1, <3>2 DEF Output
  <2>2. CASE Pauses
    <3>1. reader'.buffer = reader.buffer
          /\ UNCHANGED <<notifications, host, nvim>>
      BY <1>0, <1>4, <2>2 DEF DispatchNotification, ReaderType
    <3> QED
      BY <3>1, RedrawMoves DEF Redrawn, Drawn
  <2>3. CASE ~Pauses
    <3>1. /\ reader'.buffer = rest /\ UNCHANGED <<host, nvim, running>>
          /\ notifications' = IF HasSpace THEN Append(notifications, first)
                              ELSE notifications
      BY <1>4, <2>3 DEF DispatchNotification, Dispatched
    <3>2. /\ \A n : DrawnIn(reader.buffer, n)
                       <=> DrawnIn(rest, n) \/ first.id = n
          /\ Rising(rest)
          /\ \A n \in Nat : DrawnIn(rest, n) => first.id < n
      BY <1>0, <2>1, OutputTail, RisingTail DEF Redrawn
    <3>3. \A n \in Nat : Drawn(n)' => Drawn(n) /\ first.id < n
      BY <2>1, <3>1, <3>2 DEF Drawn, Redrawn
    <3>4. \A n \in Nat : Drawn(n) => Drawn(n)' \/ n = first.id
      BY <3>1, <3>2 DEF Drawn
    <3>5. Drawn(first.id) /\ first.id \in 1..nvim.redraws
      BY <2>1, <3>2 DEF Drawn, Redrawn
    <3>6. /\ Rising(reader'.buffer) /\ Rising(nvim'.out)
          /\ \A m, n \in Nat : DrawnIn(reader'.buffer, m)
                                  /\ DrawnIn(nvim'.out, n) => m < n
          /\ \A n \in Nat : Drawn(n)' => n \in 1..nvim'.redraws
      BY <3>1, <3>2, <3>3 DEF Redrawn
    <3>7. CASE HasSpace
      <4>1. /\ Len(notifications') = Len(notifications) + 1
            /\ \A i \in 1..Len(notifications) :
                  notifications'[i] = notifications[i]
            /\ notifications'[Len(notifications) + 1] = first
        BY <2>1, <3>1, <3>7, AppendProperties DEF Types
      <4>2. Queued' = Queued + 1
        <5>1. Queued' = host.drained + (Len(notifications) + 1)
          BY <3>1, <4>1 DEF Queued
        <5> QED
          BY <1>0, <5>1 DEF Queued
      <4>3. Complete
        BY <1>0, <3>7 DEF Redrawn, HasSpace
      <4>4. first.id = Queued + 1
        <5>1. first.id > Queued
          BY <2>1, <3>5, <4>3 DEF Complete
        <5>2. ASSUME first.id > Queued + 1 PROVE FALSE
          <6>1. Queued + 1 \in (Queued + 1)..nvim.redraws
            BY <1>0, <2>1, <3>5, <5>2
          <6>2. Drawn(Queued + 1) /\ Queued + 1 \in Nat
            BY <1>0, <4>3, <6>1 DEF Complete
          <6>3. Queued + 1 # first.id
            BY <1>0, <2>1, <5>2
          <6>4. first.id < Queued + 1
            BY <3>3, <3>4, <6>2, <6>3
          <6> QED
            BY <1>0, <2>1, <5>2, <6>4
        <5> QED
          BY <1>0, <2>1, <5>1, <5>2
      <4>5. QueueInOrder'
        <5>1. ASSUME NEW i \in 1..(Len(notifications) + 1)
              PROVE  /\ notifications'[i].kind = "redraw"
                     /\ notifications'[i].id = host.drained + i
          <6>1. CASE i \in 1..Len(notifications)
            BY <4>1, <6>1 DEF Redrawn, QueueInOrder
          <6>2. CASE i = Len(notifications) + 1
            <7>1. Queued + 1 = host.drained + i
              <8>1. host.drained \in Nat /\ Len(notifications) \in Nat
                BY <1>0
              <8>2. Queued = host.drained + Len(notifications)
                BY DEF Queued
              <8> QED
                BY <6>2, <8>1, <8>2
            <7> QED
              BY <2>1, <4>1, <4>4, <6>2, <7>1
          <6>3. i \in 1..Len(notifications) \/ i = Len(notifications) + 1
            BY <1>0
          <6> QED
            BY <6>1, <6>2, <6>3
        <5> QED
          BY <3>1, <4>1, <5>1 DEF QueueInOrder
      <4>6. Queued' <= nvim'.redraws
        BY <1>0, <3>1, <3>5, <4>2, <4>4
      <4>7. Complete'
        <5>1. \A n \in Nat : Drawn(n)' => n > Queued'
          BY <1>0, <3>3, <4>2, <4>4
        <5>2. ASSUME NEW n \in (Queued' + 1)..nvim'.redraws PROVE Drawn(n)'
          <6>1. n \in (Queued + 1)..nvim.redraws /\ n # first.id /\ n \in Nat
            BY <1>0, <3>1, <4>2, <4>4
          <6> QED
            BY <3>4, <4>3, <6>1 DEF Complete
        <5> QED
          BY <5>1, <5>2 DEF Complete
      <4> QED
        BY <3>6, <4>5, <4>6, <4>7 DEF Redrawn
    <3>8. CASE ~HasSpace
      <4>1. ~running /\ Len(notifications) = QueueDepth
        BY <1>0, <2>3, <3>8 DEF Pauses, HasSpace, Types, NvimAssumption
      <4>2. host.at \notin Open
        BY <1>4, <4>1 DEF ReaderPhase, DispatchNotification, Gone
      <4>3. Queued' = Queued /\ (QueueInOrder => QueueInOrder')
        BY <3>1, <3>8 DEF Queued, QueueInOrder
      <4> QED
        BY <3>1, <3>6, <3>8, <4>1, <4>2, <4>3 DEF Redrawn
    <3> QED
      BY <3>7, <3>8
  <2> QED
    BY <2>2, <2>3
<1>5. CASE Pump
  <2>1. Len(notifications) \in Nat \ {0} /\ host.at \in Open
    BY <1>5, EmptySeq DEF Pump, Types, Open
  <2>2. notifications[Len(notifications)].id = Queued
    BY <2>1 DEF Redrawn, QueueInOrder, Queued
  <2>3. /\ notifications' = <<>> /\ host'.drained = Queued
        /\ reader'.buffer = reader.buffer /\ UNCHANGED nvim
    BY <1>0, <1>5, <2>2 DEF Pump, Resumed, ReaderWoken, HostType, ReaderType
  <2>4. Queued' = Queued /\ QueueInOrder'
    <3>1. Len(notifications') = 0
      BY <2>3, EmptySeq
    <3> QED
      BY <1>0, <2>3, <3>1 DEF Queued, QueueInOrder
  <2>5. Complete
    BY <2>1 DEF Redrawn
  <2>6. Complete' /\ \A n : Drawn(n)' <=> Drawn(n)
    BY <2>3, <2>4, <2>5 DEF Complete, Drawn
  <2> QED
    BY <2>3, <2>4, <2>6 DEF Redrawn
<1>6. CASE NvimAnswers \/ NvimAsks
  <2>1. PICK e \in Output : /\ e.kind # "redraw"
                            /\ nvim'.out = Append(nvim.out, e)
                            /\ nvim'.redraws = nvim.redraws
    <3>1. CASE NvimAnswers
      <4>1. PICK id \in nvim.owes :
                 NvimWrites(Out("response", id, 0),
                            [nvim EXCEPT !.owes = @ \ {id}])
        BY <3>1 DEF NvimAnswers
      <4> DEFINE e == Out("response", id, 0)
      <4>2. e \in Output /\ e.kind # "redraw"
        BY <1>0 DEF Out, Output, NvimType
      <4>3. nvim'.out = Append(nvim.out, e) /\ nvim'.redraws = nvim.redraws
        BY <1>0, <4>1 DEF NvimWrites, NvimType
      <4> QED
        BY <4>2, <4>3
    <3>2. CASE NvimAsks
      <4> DEFINE e == Out("ask", nvim.asks + 1, 0)
      <4>1. nvim.asks + 1 \in Nat
        BY <1>0 DEF NvimType
      <4>2. e \in Output /\ e.kind # "redraw"
        BY <4>1 DEF Out, Output
      <4>3. nvim'.out = Append(nvim.out, e) /\ nvim'.redraws = nvim.redraws
        BY <1>0, <3>2 DEF NvimAsks, NvimWrites, NvimType
      <4> QED
        BY <4>2, <4>3
    <3> QED
      BY <1>6, <3>1, <3>2
  <2>2. UNCHANGED <<notifications, host, reader>>
    BY <1>6 DEF NvimAnswers, NvimAsks, NvimWrites, transportVars
  <2>3. Rising(nvim'.out)
    BY <1>0, <2>1, RisingAppend DEF Redrawn
  <2>4. \A n : DrawnIn(nvim'.out, n) <=> DrawnIn(nvim.out, n)
    BY <1>0, <2>1, OutputAppend
  <2> QED
    BY <2>1, <2>2, <2>3, <2>4, RedrawMoves DEF Redrawn, Drawn
<1>7. CASE NvimRedraws
  <2> DEFINE e == Out("redraw", nvim.redraws + 1, nvim.size)
  <2>1. e \in Output /\ e.kind = "redraw" /\ e.id = nvim.redraws + 1
    BY <1>0 DEF Out, Output, NvimType
  <2>2. /\ nvim'.out = Append(nvim.out, e)
        /\ nvim'.redraws = nvim.redraws + 1
        /\ UNCHANGED <<notifications, host, reader, running>>
    BY <1>0, <1>7 DEF NvimRedraws, NvimWrites, NvimType, transportVars
  <2> HIDE DEF e
  <2>3. \A n : DrawnIn(nvim'.out, n)
                  <=> DrawnIn(nvim.out, n) \/ n = nvim.redraws + 1
    BY <1>0, <2>1, <2>2, OutputAppend
  <2>4. Rising(nvim'.out)
    BY <1>0, <2>1, <2>2, RisingAppend DEF Redrawn, Drawn
  <2>5. Queued' = Queued /\ QueueInOrder' /\ Queued <= nvim.redraws
    BY <2>2 DEF Queued, Redrawn, QueueInOrder
  <2>6. \A n \in Nat : Drawn(n)' <=> Drawn(n) \/ n = nvim.redraws + 1
    BY <2>2, <2>3 DEF Drawn
  <2>7. \A n \in Nat : Drawn(n) => n \in 1..nvim.redraws
    BY DEF Redrawn
  <2>8. \A n \in Nat : Drawn(n)' => n \in 1..nvim'.redraws
    BY <1>0, <2>2, <2>6, <2>7
  <2>9. \A m, n \in Nat : DrawnIn(reader'.buffer, m)
                             /\ DrawnIn(nvim'.out, n) => m < n
    BY <1>0, <2>2, <2>3, <2>7 DEF Redrawn, Drawn
  <2>10. Complete => Complete'
    <3>1. ASSUME Complete, NEW n \in (Queued + 1)..(nvim.redraws + 1)
          PROVE  Drawn(n)'
      <4>1. n \in Nat
        BY <1>0, <2>5
      <4>2. n \in (Queued + 1)..nvim.redraws \/ n = nvim.redraws + 1
        BY <1>0
      <4>3. n \in (Queued + 1)..nvim.redraws => Drawn(n)
        BY <3>1 DEF Complete
      <4> QED
        BY <2>6, <4>1, <4>2, <4>3
    <3>2. ASSUME Complete, NEW n \in Nat, Drawn(n)' PROVE n > Queued
      BY <1>0, <2>5, <2>6, <3>2 DEF Complete
    <3> QED
      BY <2>2, <2>5, <3>1, <3>2 DEF Complete
  <2> QED
    BY <1>0, <2>2, <2>4, <2>5, <2>8, <2>9, <2>10 DEF Redrawn
<1> QED
  BY <1>1, <1>2, <1>3, <1>4, <1>5, <1>6, <1>7, RedrawChanges

-----------------------------------------------------------------------------
(* The way of a request                                                     *)

(* What is on its way to Neovim are messages.                               *)
LEMMA SentTypes == ASSUME Types PROVE Sent \subseteq Message
<1>1. Elements(nvim.in) \subseteq Message
  BY ElementsIn DEF Types, NvimType
<1>2. Elements(outbound.queue) \subseteq Message
  BY ElementsIn DEF Types, OutboundType
<1>3. writer.message \in Message
  BY DEF Types, WriterType
<1> QED
  BY <1>1, <1>2, <1>3 DEF Sent

(* A message that is read is gone from all places: serials do not repeat.   *)
LEMMA ReadIsGone ==
    ASSUME NvimAssumption, Types, WriterPhase, Wire, NvimReads,
           Head(nvim.in).kind # "quit"
    PROVE  /\ Head(nvim.in) \in Sent /\ Head(nvim.in) \in Message
           /\ Sent' \subseteq Sent /\ Head(nvim.in) \notin Sent'
<1> DEFINE s == nvim.in
           q == outbound.queue
<1>1. /\ s # <<>> /\ s \in Seq(Message) /\ q \in Seq(Message)
      /\ Len(s) \in Nat \ {0} /\ Len(q) \in Nat /\ nvim.read \in Nat
      /\ nvim.alive
  BY EmptySeq, LenProperties DEF NvimReads, Types, NvimType, OutboundType
<1>2. /\ nvim'.in = Tail(s) /\ UNCHANGED <<outbound, writer>>
  BY DEF NvimReads, Types, NvimType, transportVars
<1>3. Elements(s) = {Head(s)} \cup Elements(Tail(s)) /\ Head(s) \in Message
  BY <1>1, ElementsTail, HeadTailProperties
<1>4. /\ Tail(s) \in Seq(Message) /\ Len(Tail(s)) = Len(s) - 1
      /\ Head(s).serial = nvim.read + 1
      /\ Numbered(Tail(s), nvim.read + 1)
  BY <1>1, HeadTailProperties, NumberedTail DEF Wire
<1>5. Held \in Nat /\ Ahead \in Int
  BY <1>1 DEF Held, Ahead, Types
<1>6. ASSUME NEW m \in Elements(Tail(s)) PROVE m.serial # nvim.read + 1
  <2>1. PICK i \in 1..(Len(s) - 1) : m = Tail(s)[i]
    BY <1>4 DEF Elements
  <2>2. m.serial = (nvim.read + 1) + i
    BY <1>4, <2>1 DEF Numbered
  <2> QED
    BY <1>1, <2>1, <2>2
<1>7. ASSUME NEW m \in Elements(q) PROVE m.serial # nvim.read + 1
  <2>1. ~outbound.failed
    <3>1. Elements(<<>>) = {}
      BY ElementsEmpty
    <3> QED
      BY <1>7, <3>1 DEF WriterPhase
  <2>2. PICK i \in 1..Len(q) : m = q[i]
    BY <1>7 DEF Elements
  <2>3. m.serial = Ahead + i /\ nvim.read + Len(s) + Held <= Ahead
    BY <1>1, <2>1, <2>2 DEF Wire, Numbered
  <2>4. i >= 1 /\ Len(s) >= 1 /\ Held >= 0
    <3>1. Len(q) \in Nat /\ Len(s) \in Nat \ {0} /\ Held \in Nat
      BY <1>1, <1>5
    <3> QED
      BY <2>2, <3>1
  <2>5. Ahead + i # nvim.read + 1
    <3>1. /\ i \in Int /\ Len(s) \in Int /\ Held \in Int /\ Ahead \in Int
          /\ nvim.read \in Int
      BY <1>1, <1>5, <2>2
    <3> QED
      BY <2>3, <2>4, <3>1
  <2> QED
    BY <2>3, <2>5
<1>8. ASSUME outbound.busy PROVE writer.message.serial # nvim.read + 1
  <2>1. /\ writer.message.serial = Ahead /\ Held = 1
        /\ nvim.read + Len(s) + Held <= Ahead
    BY <1>1, <1>8 DEF WriterPhase, Wire, Held
  <2>2. Ahead # nvim.read + 1
    BY <1>1, <1>5, <2>1
  <2> QED
    BY <2>1, <2>2
<1>9. Sent' = Elements(Tail(s))
                 \cup (IF outbound.busy THEN {writer.message} ELSE {})
                 \cup Elements(q)
  BY <1>2 DEF Sent
<1> HIDE DEF s, q
<1>10. Head(s) \notin Sent'
  BY <1>4, <1>6, <1>7, <1>8, <1>9
<1> QED
  BY <1>3, <1>9, <1>10 DEF Sent, s, q

(* What the writer does loses no message but when it gives up; only a       *)
(* request adds one that asks.                                              *)
LEMMA SentChanges ==
    ASSUME NvimAssumption, Types, WriterPhase, ReaderPhase, Wire, Next
    PROVE  \/ Sent' \subseteq Sent
           \/ \E c \in Callers : SendRequest(c)
           \/ Sends
<1>0. /\ outbound \in OutboundType /\ writer \in WriterType
      /\ nvim \in NvimType
      /\ outbound.queue \in Seq(Message) /\ nvim.in \in Seq(Message)
      /\ writer.message \in Message
  BY DEF Types, OutboundType, NvimType, WriterType
<1>1. CASE WireStays
  BY <1>1 DEF WireStays, Sent
<1>2. CASE WriterTakes
  <2>1. /\ outbound.queue # <<>> /\ ~outbound.busy /\ outbound'.busy
        /\ outbound'.queue = Tail(outbound.queue)
        /\ writer'.message = Head(outbound.queue) /\ UNCHANGED nvim
    BY <1>0, <1>2 DEF WriterTakes, WriterPhase, OutboundType
  <2>2. Elements(outbound.queue)
           = {Head(outbound.queue)} \cup Elements(Tail(outbound.queue))
    BY <1>0, <2>1, ElementsTail
  <2> QED
    BY <2>1, <2>2 DEF Sent
<1>3. CASE WriterWrites
  <2>1. /\ outbound.busy /\ ~outbound'.busy
        /\ outbound'.queue = outbound.queue
        /\ nvim'.in = Append(nvim.in, writer.message)
    BY <1>0, <1>3 DEF WriterWrites, WriterPhase, OutboundType, NvimType
  <2>2. Elements(nvim'.in) = Elements(nvim.in) \cup {writer.message}
    BY <1>0, <2>1, ElementsAppend
  <2> QED
    BY <2>1, <2>2 DEF Sent
<1>7. CASE WriterStrays
  <2>1. outbound'.queue = outbound.queue /\ ~outbound'.busy
        /\ UNCHANGED nvim
    BY <1>0, <1>7 DEF WriterStrays, OutboundType
  <2> QED
    BY <2>1 DEF Sent
<1>4. CASE WriterGivesUp
  <2>1. outbound'.queue = <<>> /\ ~outbound'.busy /\ UNCHANGED nvim
    BY <1>0, <1>4 DEF WriterGivesUp, OutboundType
  <2> QED
    BY <2>1, ElementsEmpty DEF Sent
<1>5. CASE NvimExits \/ (NvimReads /\ Head(nvim.in).kind = "quit")
  <2>1. nvim' = NvimGone /\ UNCHANGED <<outbound, writer>>
    BY <1>5 DEF NvimExits, NvimReads, transportVars
  <2>2. nvim'.in = <<>>
    BY <1>0, <2>1 DEF NvimGone, NvimType
  <2> QED
    BY <2>1, <2>2, ElementsEmpty DEF Sent
<1>6. CASE NvimReads /\ Head(nvim.in).kind # "quit"
  BY <1>6, ReadIsGone
<1> QED
  BY <1>1, <1>2, <1>3, <1>4, <1>5, <1>6, <1>7, WireChanges

(* An accepted message joins those on their way.                            *)
LEMMA SentAppend ==
    ASSUME Types, NEW kind \in {"request", "reply", "input", "quit"},
           NEW id \in Nat, NEW size \in Sizes \cup {0},
           Enqueued(kind, id, size), UNCHANGED <<writer, nvim>>
    PROVE  Sent' \subseteq Sent \cup {NewMessage(kind, id, size)}
<1>0. outbound.queue \in Seq(Message)
  BY DEF Types, OutboundType
<1>1. CASE outbound'.queue = outbound.queue
  BY <1>1, EnqueuedFacts DEF Sent
<1>2. CASE /\ outbound'.queue = Append(outbound.queue,
                                       NewMessage(kind, id, size))
           /\ NewMessage(kind, id, size) \in Message
  <2>1. Elements(outbound'.queue)
           = Elements(outbound.queue) \cup {NewMessage(kind, id, size)}
    BY <1>0, <1>2, ElementsAppend
  <2> QED
    BY <2>1, EnqueuedFacts DEF Sent
<1> QED
  BY <1>1, <1>2, EnqueuedFacts

(* A request is on its way once, and only SendRequest() puts it there.      *)
LEMMA AskedStep ==
    ASSUME NvimAssumption, Types, WriterPhase, ReaderPhase, Wire, AskedOnce,
           Claims, Next
    PROVE  /\ AskedOnce'
           /\ \A id \in Nat : Asked(id)' =>
                 \/ Asked(id)
                 \/ \E c \in Callers : SendRequest(c) /\ id = call[c].id
<1>1. CASE Sent' \subseteq Sent
  BY <1>1 DEF AskedOnce, Asked
<1>2. CASE \E c \in Callers : SendRequest(c)
  <2>1. PICK c \in Callers : SendRequest(c)
    BY <1>2
  <2>2. call[c].id \in Nat /\ call[c].size \in Sizes \cup {0}
    BY DEF Types, CallType
  <2> DEFINE m == NewMessage("request", call[c].id, call[c].size)
  <2>3. Sent' \subseteq Sent \cup {m}
    BY <2>1, <2>2, SentAppend DEF SendRequest
  <2>4. m.id = call[c].id
    BY DEF NewMessage
  <2>5. ~Asked(call[c].id)
    BY <2>1, <2>2 DEF SendRequest, Claims, Somewhere
  <2> HIDE DEF m
  <2>6. \A n \in Sent : ~Asks(n, call[c].id)
    BY <2>5 DEF Asked
  <2>7. AskedOnce'
    BY <2>3, <2>4, <2>6 DEF AskedOnce, Asks
  <2>8. \A id \in Nat : Asked(id)' => Asked(id) \/ id = call[c].id
    BY <2>3, <2>4 DEF Asked, Asks
  <2> QED
    BY <2>1, <2>7, <2>8
<1>3. CASE Sends
  <2>1. PICK kind \in {"reply", "input", "quit"}, id \in Nat :
             Enqueued(kind, id, 0) /\ UNCHANGED <<writer, nvim, process>>
    BY <1>3 DEF Sends
  <2> DEFINE m == NewMessage(kind, id, 0)
  <2>2. Sent' \subseteq Sent \cup {m}
    BY <2>1, SentAppend
  <2>3. m.kind # "request"
    BY DEF NewMessage
  <2> HIDE DEF m
  <2> QED
    BY <2>2, <2>3 DEF AskedOnce, Asked, Asks
<1> QED
  BY <1>1, <1>2, <1>3, SentChanges

(* Only a response that is dispatched is stored, and only Neovim's reading  *)
(* makes it owe an answer.                                                  *)
LEMMA StoredChanges ==
    ASSUME Types, Next
    PROVE  /\ responses' \subseteq responses \/ DispatchResponse
           /\ nvim'.owes \subseteq nvim.owes \/ NvimReads
<1>0. nvim \in NvimType
  BY DEF Types
<1>1. CASE NvimReads \/ NvimExits
  BY <1>0, <1>1 DEF NvimReads, NvimExits, NvimGone, NvimType, transportVars
<1>2. CASE NvimAnswers \/ NvimRedraws \/ NvimAsks
  <2>1. ASSUME NEW output, NEW after \in NvimType, NvimWrites(output, after)
        PROVE  nvim'.owes = after.owes /\ responses' = responses
    BY <2>1 DEF NvimWrites, NvimType, transportVars
  <2>2. CASE NvimAnswers
    <3>1. PICK id \in nvim.owes :
             NvimWrites(Out("response", id, 0),
                        [nvim EXCEPT !.owes = @ \ {id}])
      BY <2>2 DEF NvimAnswers
    <3> DEFINE after == [nvim EXCEPT !.owes = @ \ {id}]
    <3>2. after \in NvimType /\ after.owes \subseteq nvim.owes
      BY <1>0 DEF NvimType
    <3> HIDE DEF after
    <3>3. NvimWrites(Out("response", id, 0), after)
      BY <3>1 DEF after
    <3> QED
      BY <2>1, <3>2, <3>3
  <2>3. CASE NvimRedraws
    <3> DEFINE next == nvim.redraws + 1
               after == [nvim EXCEPT !.redraws = next, !.dirty = FALSE]
    <3>0. next \in Nat
      BY <1>0 DEF NvimType
    <3> HIDE DEF next
    <3>1. after \in NvimType /\ after.owes = nvim.owes
      BY <1>0, <3>0 DEF NvimType
    <3> USE DEF next
    <3> DEFINE output == Out("redraw", nvim.redraws + 1, nvim.size)
    <3>2. /\ nvim' = [after EXCEPT !.out = Append(@, output)]
          /\ responses' = responses
      BY <2>3 DEF NvimRedraws, NvimWrites, transportVars
    <3> HIDE DEF after, output
    <3> QED
      BY <3>1, <3>2 DEF NvimType
  <2>4. CASE NvimAsks
    <3> DEFINE next == nvim.asks + 1
               after == [nvim EXCEPT !.asks = next]
    <3>0. next \in Nat
      BY <1>0 DEF NvimType
    <3> HIDE DEF next
    <3>1. after \in NvimType /\ after.owes = nvim.owes
      BY <1>0, <3>0 DEF NvimType
    <3> USE DEF next
    <3> DEFINE output == Out("ask", nvim.asks + 1, 0)
    <3>2. /\ nvim' = [after EXCEPT !.out = Append(@, output)]
          /\ responses' = responses
      BY <2>4 DEF NvimAsks, NvimWrites, transportVars
    <3> HIDE DEF after, output
    <3> QED
      BY <3>1, <3>2 DEF NvimType
  <2> QED
    BY <1>2, <2>2, <2>3, <2>4
<1>3. CASE WriterWrites \/ ReaderReads \/ KillProcess
  BY <1>0, <1>3 DEF WriterWrites, ReaderReads, KillProcess, NvimType,
     transportVars
<1>4. CASE \E c \in Callers : CheckResponse(c) \/ TimeOut(c)
  BY <1>4 DEF CheckResponse, TimeOut, Finish
<1>5. CASE DispatchResponse
  BY <1>5 DEF DispatchResponse
<1>6. CASE /\ ~NvimStep /\ ~NvimExits /\ ~WriterWrites /\ ~ReaderReads
           /\ ~KillProcess /\ ~DispatchResponse
           /\ \A c \in Callers : ~CheckResponse(c) /\ ~TimeOut(c)
  <2>1. UNCHANGED <<responses, nvim>>
    BY <1>6 DEF Next, RequestStep, WriterStep, ReaderStep, WorkerStep,
       HostStep, ShutdownStep, SendRequest, AwaitResponse, WriterTakes,
       WriterEnds, WriterRegisters, WriterStrays, WriteFails, WriterGivesUp,
       WriterPublishes, ReaderLoops, ReadFails, ReaderNotifies,
       DispatchRequest, DispatchNotification, WorkerTakes, WorkerExits,
       StartupRequest, StartupAnswer, Pump, AskToQuit, Close, WakeCallers,
       WakeReader, StopOutput, CancelWrites, WritersIdle, StopWorker,
       JoinThreads, HostCloses, ViewportChanged, SendInput, transportVars
  <2> QED
    BY <2>1
<1> QED
  BY <1>1, <1>2, <1>3, <1>4, <1>5, <1>6 DEF NvimStep

(* A request keeps to one place, and gets to a new one only from the one    *)
(* before.                                                                  *)
LEMMA SingleStep ==
    ASSUME NvimAssumption, Types, WriterPhase, ReaderPhase, Wire, Single,
           Claims, Next
    PROVE  /\ Single'
           /\ \A id \in Nat : Somewhere(id)' =>
                 \/ Somewhere(id)
                 \/ \E c \in Callers : SendRequest(c) /\ id = call[c].id
<1>0. /\ reader \in ReaderType /\ nvim \in NvimType
      /\ reader.buffer \in Seq(Output) /\ nvim.out \in Seq(Output)
      /\ nvim.owes \in SUBSET Nat /\ responses \in SUBSET Nat
  BY DEF Types, ReaderType, NvimType
<1>1. /\ AskedOnce'
      /\ \A id \in Nat : Asked(id)' =>
            \/ Asked(id)
            \/ \E c \in Callers : SendRequest(c) /\ id = call[c].id
  BY AskedStep DEF Single
<1>2. \A c \in Callers : SendRequest(c) => ~Somewhere(call[c].id)
  BY DEF SendRequest, Claims, Types, CallType
<1>3. CASE /\ AnsweredOnce'
           /\ \A id \in Nat : Returning(id)' <=> Returning(id)
           /\ responses' \subseteq responses
           /\ nvim'.owes \subseteq nvim.owes
  <2>1. Apart'
    BY <1>1, <1>2, <1>3 DEF Single, Apart, Somewhere
  <2>2. \A id \in Nat : Somewhere(id)' =>
            \/ Somewhere(id)
            \/ \E c \in Callers : SendRequest(c) /\ id = call[c].id
    BY <1>1, <1>3 DEF Somewhere
  <2> QED
    BY <1>1, <1>3, <2>1, <2>2 DEF Single
<1>4. CASE RedrawsStay /\ ~NvimReads
  <2>1. AnsweredOnce' /\ \A id : Returning(id)' <=> Returning(id)
    BY <1>4 DEF RedrawsStay, Single, AnsweredOnce, Returning
  <2>2. ~DispatchResponse \/ responses' \subseteq responses
    <3>1. ASSUME DispatchResponse PROVE FALSE
      <4>1. /\ reader.buffer # <<>>
            /\ reader'.buffer = Tail(reader.buffer)
        BY <3>1 DEF DispatchResponse, Dispatched, ReaderPhase
      <4>2. Len(Tail(reader.buffer)) = Len(reader.buffer) - 1
            /\ Len(reader.buffer) \in Nat
        BY <1>0, <4>1, HeadTailProperties, LenProperties
      <4>3. reader'.buffer = reader.buffer
        BY <1>4 DEF RedrawsStay
      <4>4. Len(reader.buffer) = Len(reader.buffer) - 1
        BY <4>1, <4>2, <4>3
      <4> QED
        BY <4>2, <4>4
    <3> QED
      BY <3>1
  <2> QED
    BY <1>3, <1>4, <2>1, <2>2, StoredChanges
<1>5. CASE NvimReads
  <2>1. UNCHANGED <<reader, responses>> /\ nvim'.out = nvim.out
    BY <1>0, <1>5 DEF NvimReads, NvimGone, NvimType, transportVars
  <2>2. AnsweredOnce' /\ \A id : Returning(id)' <=> Returning(id)
    BY <2>1 DEF Single, AnsweredOnce, Returning
  <2>3. CASE Head(nvim.in).kind # "request"
    <3>1. nvim'.owes \subseteq nvim.owes
      BY <1>0, <1>5, <2>3 DEF NvimReads, NvimGone, NvimType
    <3> QED
      BY <1>3, <2>1, <2>2, <3>1
  <2>4. CASE Head(nvim.in).kind = "request"
    <3>0. PICK m \in Message : m = Head(nvim.in)
      BY <1>5, <2>4, ReadIsGone
    <3>1. /\ m \in Sent /\ m \in Message /\ Sent' \subseteq Sent
          /\ m \notin Sent'
      BY <1>5, <2>4, <3>0, ReadIsGone
    <3>2. nvim'.owes = nvim.owes \cup {m.id}
      BY <1>0, <1>5, <2>4, <3>0 DEF NvimReads, NvimType
    <3>3. m.id \in Nat /\ Asks(m, m.id)
      BY <2>4, <3>0 DEF Message, Asks
    <3>4. Asked(m.id)
      BY <3>1, <3>3 DEF Asked
    <3>5. ~Asked(m.id)'
      <4>1. ASSUME NEW n \in Sent', Asks(n, m.id) PROVE FALSE
        BY <3>1, <3>3, <4>1 DEF Single, AskedOnce
      <4> QED
        BY <4>1 DEF Asked
    <3>6. \A id \in Nat : Asked(id)' => Asked(id)
      BY <3>1 DEF Asked
    <3>7. Apart'
      BY <2>1, <2>2, <3>2, <3>4, <3>5, <3>6 DEF Single, Apart
    <3>8. \A id \in Nat : Somewhere(id)' => Somewhere(id)
      BY <2>1, <2>2, <3>2, <3>4, <3>6 DEF Somewhere
    <3> QED
      BY <1>1, <2>2, <3>7, <3>8 DEF Single
  <2> QED
    BY <2>3, <2>4
<1>6. CASE ReaderReads
  <2>1. /\ reader.buffer = <<>> /\ reader'.buffer = nvim.out
        /\ nvim'.out = <<>>
        /\ responses' = responses /\ nvim'.owes = nvim.owes
    BY <1>0, <1>6 DEF ReaderReads, ReaderPhase, NvimType
  <2>2. AnsweredOnce' /\ \A id : Returning(id)' <=> Returning(id)
    BY <2>1, OutputEmpty DEF Single, AnsweredOnce, Returning
  <2> QED
    BY <1>3, <2>1, <2>2
<1>7. CASE DispatchResponse \/ DispatchRequest \/ DispatchNotification
  <2> DEFINE first == Head(reader.buffer)
             rest == Tail(reader.buffer)
  <2>1. /\ reader.buffer # <<>> /\ UNCHANGED nvim
        /\ reader' = Dispatched \/ reader' = [reader EXCEPT !.at = "paused"]
    BY <1>7 DEF DispatchResponse, DispatchRequest, DispatchNotification,
                ReaderPhase
  <2>2. first \in Output /\ first.id \in Nat
    <3>1. first \in Output
      BY <1>0, <2>1, HeadTailProperties
    <3> QED
      BY <3>1 DEF Output
  <2>3. /\ \A n : AnsweredIn(reader.buffer, n) <=>
              AnsweredIn(rest, n)
                 \/ (first.kind = "response" /\ first.id = n)
        /\ OneAnswer(rest)
        /\ first.kind = "response" => ~AnsweredIn(rest, first.id)
    BY <1>0, <2>1, OutputTail, OneAnswerTail DEF Single, AnsweredOnce
  <2> HIDE DEF first, rest
  <2>4. CASE DispatchResponse
    <3>1. /\ first.kind = "response" /\ reader'.buffer = rest
          /\ responses' \subseteq responses \cup {first.id}
      BY <2>4 DEF DispatchResponse, Dispatched, first, rest
    <3>2. AnsweredOnce'
      BY <2>1, <2>3, <3>1 DEF Single, AnsweredOnce
    <3>3. \A id \in Nat : Returning(id)'
                             <=> Returning(id) /\ id # first.id
      BY <2>1, <2>2, <2>3, <3>1 DEF Single, AnsweredOnce, Returning
    <3>4. Returning(first.id) /\ \A id : Asked(id)' <=> Asked(id)
      BY <2>3, <2>4, <3>1 DEF Returning, DispatchResponse, Asked, Sent
    <3>5. Apart'
      BY <2>1, <2>2, <3>1, <3>3, <3>4 DEF Single, Apart
    <3>6. \A id \in Nat : Somewhere(id)' => Somewhere(id)
      BY <2>1, <3>1, <3>3, <3>4 DEF Somewhere
    <3> QED
      BY <1>1, <3>2, <3>5, <3>6 DEF Single
  <2>5. CASE DispatchRequest \/ DispatchNotification
    <3>1. first.kind # "response" /\ responses' = responses
      BY <2>5 DEF DispatchRequest, DispatchNotification, first
    <3>2. reader'.buffer \in {rest, reader.buffer}
      BY <1>0, <2>1 DEF Dispatched, ReaderType, rest
    <3>3. AnsweredOnce' /\ \A id : Returning(id)' <=> Returning(id)
      BY <2>1, <2>3, <3>1, <3>2 DEF Single, AnsweredOnce, Returning
    <3> QED
      BY <1>3, <2>1, <3>1, <3>3
  <2> QED
    BY <1>7, <2>4, <2>5
<1>8. CASE Pump
  <2>1. /\ reader'.buffer = reader.buffer
        /\ UNCHANGED <<nvim, responses>>
    BY <1>0, <1>8 DEF Pump, Resumed, ReaderWoken, ReaderType
  <2>2. AnsweredOnce' /\ \A id : Returning(id)' <=> Returning(id)
    BY <2>1 DEF Single, AnsweredOnce, Returning
  <2> QED
    BY <1>3, <2>1, <2>2
<1>9. CASE NvimAnswers
  <2>1. PICK key \in nvim.owes :
             NvimWrites(Out("response", key, 0),
                        [nvim EXCEPT !.owes = @ \ {key}])
    BY <1>9 DEF NvimAnswers
  <2> DEFINE e == Out("response", key, 0)
  <2>2. e \in Output /\ e.kind = "response" /\ e.id = key /\ key \in Nat
    BY <1>0 DEF Out, Output
  <2>3. /\ nvim'.out = Append(nvim.out, e) /\ nvim'.owes = nvim.owes \ {key}
        /\ nvim'.in = nvim.in
        /\ UNCHANGED <<reader, responses, outbound, writer>>
    BY <1>0, <2>1 DEF NvimWrites, NvimType, transportVars
  <2> HIDE DEF e
  <2>4. \A n : AnsweredIn(nvim'.out, n) <=> AnsweredIn(nvim.out, n) \/ n = key
    BY <1>0, <2>2, <2>3, OutputAppend
  <2>5. ~Returning(key) /\ ~Asked(key) /\ key \notin responses
    BY <2>2 DEF Single, Apart
  <2>6. OneAnswer(nvim'.out)
    BY <1>0, <2>2, <2>3, <2>5, OneAnswerAppend
    DEF Single, AnsweredOnce, Returning
  <2>7. AnsweredOnce'
    BY <2>3, <2>4, <2>5, <2>6 DEF Single, AnsweredOnce, Returning
  <2>8. \A id : Returning(id)' <=> Returning(id) \/ id = key
    BY <2>3, <2>4 DEF Returning
  <2>9. \A id : Asked(id)' <=> Asked(id)
    BY <2>3 DEF Asked, Sent
  <2>10. Apart'
    BY <2>3, <2>5, <2>8, <2>9 DEF Single, Apart
  <2>11. \A id \in Nat : Somewhere(id)' => Somewhere(id)
    BY <2>3, <2>8, <2>9 DEF Somewhere
  <2> QED
    BY <1>1, <2>7, <2>10, <2>11 DEF Single
<1>10. CASE NvimRedraws \/ NvimAsks
  <2>1. PICK e \in Output : /\ e.kind # "response"
                            /\ nvim'.out = Append(nvim.out, e)
    <3>1. CASE NvimRedraws
      <4> DEFINE e == Out("redraw", nvim.redraws + 1, nvim.size)
      <4>1. nvim.redraws + 1 \in Nat /\ nvim.size \in Sizes \cup {0}
        BY <1>0 DEF NvimType
      <4>2. e \in Output /\ e.kind # "response"
        BY <4>1 DEF Out, Output
      <4>3. nvim'.out = Append(nvim.out, e)
        BY <1>0, <3>1 DEF NvimRedraws, NvimWrites, NvimType
      <4> QED
        BY <4>2, <4>3
    <3>2. CASE NvimAsks
      <4> DEFINE e == Out("ask", nvim.asks + 1, 0)
      <4>1. nvim.asks + 1 \in Nat
        BY <1>0 DEF NvimType
      <4>2. e \in Output /\ e.kind # "response"
        BY <4>1 DEF Out, Output
      <4>3. nvim'.out = Append(nvim.out, e)
        BY <1>0, <3>2 DEF NvimAsks, NvimWrites, NvimType
      <4> QED
        BY <4>2, <4>3
    <3> QED
      BY <1>10, <3>1, <3>2
  <2>2. UNCHANGED <<responses, reader>> /\ nvim'.owes = nvim.owes
    BY <1>0, <1>10 DEF NvimRedraws, NvimAsks, NvimWrites, NvimType,
       transportVars
  <2>3. /\ OneAnswer(nvim'.out)
        /\ \A n : AnsweredIn(nvim'.out, n) <=> AnsweredIn(nvim.out, n)
    BY <1>0, <2>1, OneAnswerAppend, OutputAppend DEF Single, AnsweredOnce
  <2>4. AnsweredOnce' /\ \A id : Returning(id)' <=> Returning(id)
    BY <2>2, <2>3 DEF Single, AnsweredOnce, Returning
  <2> QED
    BY <1>3, <2>2, <2>4
<1> QED
  BY <1>4, <1>5, <1>6, <1>7, <1>8, <1>9, <1>10, RedrawChanges

-----------------------------------------------------------------------------
(* Who waits for an answer                                                  *)

(* Main thread and worker are never in a request at the same time.          *)
LEMMA OneCaller ==
    ASSUME CallPhase, NEW c \in Callers, NEW d \in Callers,
           Active(c), Active(d)
    PROVE  c = d
BY DEF CallPhase, Callers, Active

(* No request begins or ends, no id is given up.                            *)
CallersStay ==
    /\ \A c \in Callers :
          /\ call'[c].id = call[c].id
          /\ call'[c].at = "idle" <=> call[c].at = "idle"
          /\ call'[c].at = "begun" => call[c].at = "begun"
    /\ UNCHANGED <<timedOut, nextId>>

(* Requests begin, are sent and end in these steps.                         *)
LEMMA CallChanges ==
    ASSUME Types, Next
    PROVE  \/ CallersStay
           \/ \E c \in Callers : SendRequest(c)
           \/ \E c \in Callers : Finish(c) /\ call[c].at # "idle"
                                    /\ call[c].at # "begun"
                                    /\ UNCHANGED <<nextId, outbound,
                                                   writer, reader, nvim>>
           \/ \E c \in Callers, size \in Sizes \cup {0} :
                 /\ BeginRequest(c, size) /\ UNCHANGED timedOut
                 /\ WorkerTakes \/ StartupRequest
<1>0. /\ call \in [Callers -> CallType] /\ host \in HostType
      /\ worker \in WorkerType
  BY DEF Types
<1>1. CASE \E c \in Callers : CheckResponse(c) \/ TimeOut(c)
  <2>1. PICK c \in Callers : CheckResponse(c) \/ TimeOut(c)
    BY <1>1
  <2>2. CASE Finish(c)
    <3>1. /\ call[c].at \in {"waiting", "asleep"}
          /\ UNCHANGED <<nextId, outbound, writer, reader, nvim>>
      BY <2>1 DEF CheckResponse, TimeOut
    <3> QED
      BY <2>2, <3>1
  <2>3. CASE ~Finish(c)
    BY <1>0, <2>1, <2>3 DEF CheckResponse, TimeOut, CallersStay, CallType
  <2> QED
    BY <2>2, <2>3
<1>2. CASE \E c \in Callers : AwaitResponse(c)
  BY <1>0, <1>2 DEF AwaitResponse, CallersStay, CallType
<1>3. CASE WriterPublishes \/ ReaderNotifies \/ WakeCallers
           \/ DispatchResponse
  <2>1. call' = call \/ call' = CallersWoken
    BY <1>3 DEF WriterPublishes, ReaderNotifies, WakeCallers,
       DispatchResponse
  <2>2. UNCHANGED <<timedOut, nextId>>
    BY <1>3 DEF WriterPublishes, ReaderNotifies, WakeCallers,
       DispatchResponse
  <2> QED
    BY <1>0, <2>1, <2>2 DEF CallersStay, CallersWoken, CallType
<1>4. CASE WorkerTakes
  <2>1. CASE running
    <3>1. worker.pending \in Sizes \cup {0}
      BY <1>0 DEF WorkerType
    <3>2. BeginRequest("worker", worker.pending) /\ UNCHANGED timedOut
      BY <1>4, <2>1 DEF WorkerTakes
    <3> QED
      BY <1>4, <3>1, <3>2 DEF Callers
  <2>2. CASE ~running
    BY <1>0, <1>4, <2>2 DEF WorkerTakes, CallersStay, CallType
  <2> QED
    BY <2>1, <2>2
<1>5. CASE StartupRequest
  <2>1. CASE running
    <3>1. PICK size \in Sizes \cup {0} : BeginRequest("main", size)
      BY <1>0, <1>5, <2>1 DEF StartupRequest, HostType
    <3>2. UNCHANGED timedOut
      BY <1>5 DEF StartupRequest
    <3> QED
      BY <1>5, <3>1, <3>2 DEF Callers
  <2>2. CASE ~running
    BY <1>5, <2>2 DEF StartupRequest, CallersStay
  <2> QED
    BY <2>1, <2>2
<1>6. CASE /\ ~WriterPublishes /\ ~ReaderNotifies /\ ~WakeCallers
           /\ ~DispatchResponse /\ ~WorkerTakes /\ ~StartupRequest
           /\ \A c \in Callers : /\ ~SendRequest(c) /\ ~CheckResponse(c)
                                 /\ ~AwaitResponse(c) /\ ~TimeOut(c)
  <2>1. UNCHANGED <<call, timedOut, nextId>>
    BY <1>6 DEF Next, RequestStep, WriterStep, ReaderStep, WorkerStep,
       HostStep, ShutdownStep, NvimStep, WriterTakes, WriterEnds,
       WriterRegisters, WriterWrites, WriterStrays, WriteFails,
       WriterGivesUp,
       ReaderLoops, ReaderReads, ReadFails, DispatchRequest,
       DispatchNotification, WorkerExits, StartupAnswer, Pump, AskToQuit,
       Close, WakeReader, StopOutput, CancelWrites, WritersIdle, StopWorker,
       KillProcess, JoinThreads, HostCloses, ViewportChanged, SendInput,
       NvimReads, NvimAnswers, NvimRedraws, NvimAsks, NvimWrites, NvimExits,
       transportVars
  <2> QED
    BY <2>1 DEF CallersStay
<1> QED
  BY <1>1, <1>2, <1>3, <1>4, <1>5, <1>6

(* What is accounted for while nothing begins or ends.                      *)
LEMMA ClaimsStay ==
    ASSUME Claims, CallersStay,
           \A id \in Nat : Somewhere(id)' => Somewhere(id),
           \A id \in responses' : id \notin timedOut'
    PROVE  Claims'
<1>1. \A c \in Callers : Active(c)' <=> Active(c)
  BY DEF CallersStay, Active
<1>2. \A id \in Nat : Accounted(id)' <=> Accounted(id)
  BY <1>1 DEF Accounted, Forgotten, CallersStay
<1>3. \A id \in Nat : Somewhere(id)' => id \in 1..(nextId' - 1)
                                           /\ Accounted(id)'
  BY <1>2 DEF Claims, CallersStay
<1>4. \A c \in Callers : Active(c)' =>
         /\ call'[c].id = nextId' - 1 /\ call'[c].id # 0
         /\ call'[c].id \notin timedOut'
  BY <1>1 DEF Claims, CallersStay
<1>5. ASSUME NEW c \in Callers, NEW id \in Nat,
             call'[c].at = "begun", call'[c].id = id
      PROVE  ~Somewhere(id)'
  BY <1>5 DEF Claims, CallersStay
<1> QED
  BY <1>3, <1>4, <1>5 DEF Claims, CallersStay

(* Every step accounts for the ids that are somewhere.                      *)
LEMMA ClaimsStep ==
    ASSUME NvimAssumption, Types, WriterPhase, ReaderPhase, CallPhase, Wire,
           Single, Claims, Next
    PROVE  Claims'
<1>0. /\ call \in [Callers -> CallType]
      /\ timedOut \in SUBSET Nat /\ responses \in SUBSET Nat
      /\ nextId \in Nat \ {0}
      /\ \A c \in Callers : call[c].id \in Nat
  BY DEF Types, CallType
<1>1. \A id \in Nat : Somewhere(id)' =>
         \/ Somewhere(id)
         \/ \E c \in Callers : SendRequest(c) /\ id = call[c].id
  BY SingleStep
<1>2. CASE CallersStay /\ \A c \in Callers : ~SendRequest(c)
  <2>1. \A id \in Nat : Somewhere(id)' => Somewhere(id)
    BY <1>1, <1>2
  <2>2. \A id \in responses' : id \notin timedOut'
    <3>1. CASE responses' \subseteq responses
      BY <1>2, <3>1 DEF Claims, CallersStay
    <3>2. CASE DispatchResponse
      BY <1>2, <3>2 DEF DispatchResponse, Wanted, Claims, CallersStay
    <3> QED
      BY <3>1, <3>2, StoredChanges
  <2> QED
    BY <1>2, <2>1, <2>2, ClaimsStay
<1>3. CASE \E c \in Callers : SendRequest(c)
  <2>1. PICK c \in Callers : SendRequest(c)
    BY <1>3
  <2>2. /\ call[c].at = "begun" /\ Active(c) /\ ~Somewhere(call[c].id)
        /\ UNCHANGED <<responses, timedOut, nextId>>
    BY <1>0, <2>1 DEF SendRequest, Claims, Active
  <2>3. \A d \in Callers \ {c} : ~Active(d) /\ call'[d] = call[d]
    BY <1>0, <2>1, <2>2, OneCaller DEF SendRequest
  <2>4. \A id \in Nat : Somewhere(id)' => Somewhere(id) \/ id = call[c].id
    <3>1. ASSUME NEW d \in Callers, SendRequest(d) PROVE d = c
      BY <2>2, <3>1, OneCaller DEF SendRequest, Active
    <3> QED
      BY <1>1, <3>1
  <2>5. CASE Accepts
    <3>1. call'[c].id = call[c].id /\ call'[c].at = "waiting"
      <4>1. call[c] \in CallType
        BY <1>0
      <4> QED
        BY <1>0, <2>1, <2>5, <4>1 DEF SendRequest, CallType
    <3>2. \A d \in Callers : /\ call'[d].id = call[d].id
                             /\ Active(d)' <=> Active(d)
                             /\ call'[d].at # "begun"
      BY <2>2, <2>3, <3>1 DEF Active
    <3>3. call[c].id \in 1..(nextId - 1)
      <4>1. call[c].id = nextId - 1 /\ call[c].id # 0
        BY <2>2 DEF Claims
      <4> QED
        BY <1>0, <4>1
    <3>4. ASSUME NEW id \in Nat, Somewhere(id)'
          PROVE  id \in 1..(nextId' - 1) /\ Accounted(id)'
      <4>1. CASE Somewhere(id)
        BY <2>2, <3>2, <4>1 DEF Claims, Accounted, Forgotten
      <4>2. CASE id = call[c].id
        BY <2>2, <3>1, <3>2, <3>3, <4>2 DEF Accounted
      <4> QED
        BY <2>4, <3>4, <4>1, <4>2
    <3> QED
      BY <2>2, <3>2, <3>4 DEF Claims
  <2>6. CASE ~Accepts
    <3>1. /\ call'[c] = Idle(FALSE) /\ UNCHANGED <<outbound, writer, reader>>
          /\ UNCHANGED <<nvim, responses>>
      BY <1>0, <2>1, <2>6 DEF SendRequest, Enqueued
    <3>2. \A id : Somewhere(id)' <=> Somewhere(id)
      BY <3>1 DEF Somewhere, Asked, Sent, Returning
    <3>3. \A d \in Callers : ~Active(d)' /\ call'[d].at # "begun"
      BY <2>3, <3>1 DEF Active, Idle
    <3>4. ASSUME NEW id \in Nat, Somewhere(id)
          PROVE  id \in 1..(nextId - 1) /\ Accounted(id)'
      <4>1. id # call[c].id
        BY <2>2, <3>4
      <4>2. id \in timedOut \/ Forgotten(id)
        BY <2>3, <3>4, <4>1 DEF Claims, Accounted
      <4> QED
        BY <2>2, <3>4, <4>2 DEF Claims, Accounted, Forgotten
    <3> QED
      BY <2>2, <3>2, <3>3, <3>4 DEF Claims
  <2> QED
    BY <2>5, <2>6
<1>4. CASE \E c \in Callers : Finish(c) /\ call[c].at # "idle"
                                 /\ call[c].at # "begun"
                                 /\ UNCHANGED <<nextId, outbound, writer,
                                                reader, nvim>>
  <2>1. PICK c \in Callers : Finish(c) /\ call[c].at # "idle"
                                /\ call[c].at # "begun"
                                /\ UNCHANGED <<nextId, outbound, writer,
                                               reader, nvim>>
    BY <1>4
  <2>0. PICK key \in Nat : key = call[c].id
    BY <1>0
  <2>2. /\ Active(c) /\ key \notin timedOut /\ key = nextId - 1
        /\ key \in Nat \ {0}
    BY <1>0, <2>0, <2>1 DEF Active, Claims
  <2>3. \A d \in Callers \ {c} : ~Active(d) /\ call'[d] = call[d]
    BY <1>0, <2>1, <2>2, OneCaller DEF Finish
  <2>4. call'[c] = Idle(key \in responses)
    BY <1>0, <2>0, <2>1 DEF Finish
  <2>5. \A d \in Callers : ~Active(d)' /\ call'[d].at # "begun"
    BY <2>3, <2>4 DEF Active, Idle
  <2>6. \A id \in Nat : Somewhere(id)' => Somewhere(id)
    <3>1. ASSUME NEW d \in Callers, SendRequest(d) PROVE FALSE
      BY <2>1, <2>2, <3>1, OneCaller DEF SendRequest, Active
    <3> QED
      BY <1>1, <3>1
  <2>7. responses' = responses \ {key}
    BY <2>0, <2>1 DEF Finish
  <2>8. CASE key \in responses
    <3>1. timedOut' = timedOut
      BY <2>0, <2>1, <2>8 DEF Finish
    <3>2. ~Somewhere(key)'
      <4>1. UNCHANGED <<outbound, writer, reader, nvim>>
        BY <2>1
      <4>2. \A id : /\ Asked(id)' <=> Asked(id)
                    /\ Returning(id)' <=> Returning(id)
        BY <4>1 DEF Asked, Sent, Returning
      <4> QED
        BY <2>2, <2>7, <2>8, <4>1, <4>2 DEF Single, Apart, Somewhere
    <3>3. ASSUME NEW id \in Nat, Somewhere(id)'
          PROVE  id \in 1..(nextId' - 1) /\ Accounted(id)'
      <4>1. Somewhere(id) /\ id # key
        BY <2>6, <3>2, <3>3
      <4>2. id \in timedOut \/ Forgotten(id)
        BY <2>0, <2>3, <4>1 DEF Claims, Accounted
      <4> QED
        BY <2>1, <3>1, <4>1, <4>2 DEF Claims, Accounted, Forgotten
    <3> QED
      BY <2>1, <2>5, <2>7, <3>1, <3>3 DEF Claims
  <2>9. CASE key \notin responses
    <3> DEFINE T == Evicted(timedOut \cup {key})
    <3>1. timedOut' = T
      BY <2>0, <2>1, <2>9 DEF Finish
    <3>2. /\ T \in SUBSET (timedOut \cup {key})
          /\ \A i \in timedOut \cup {key} : i \notin T =>
                Cardinality(T) = MaxTimedOutIds /\ \A t \in T : i < t
          /\ Cardinality(timedOut) = MaxTimedOutIds =>
                Cardinality(T) = MaxTimedOutIds
      BY <2>2, EvictedFacts DEF Types
    <3> HIDE DEF T
    <3>3. ASSUME NEW id \in Nat, Somewhere(id)
          PROVE  id \in T \/ (Cardinality(T) = MaxTimedOutIds
                                 /\ \A t \in T : id < t)
      <4>1. CASE id \in timedOut \cup {key}
        BY <3>2, <4>1
      <4>2. CASE id \notin timedOut \cup {key}
        <5>1. Forgotten(id) /\ id \in 1..(nextId - 1)
          BY <2>0, <2>3, <3>3, <4>2 DEF Claims, Accounted
        <5>2. id < key
          BY <1>0, <2>2, <4>2, <5>1
        <5> QED
          BY <3>2, <5>1, <5>2 DEF Forgotten
      <4> QED
        BY <4>1, <4>2
    <3>4. ASSUME NEW id \in Nat, Somewhere(id)'
          PROVE  id \in 1..(nextId' - 1) /\ Accounted(id)'
      BY <2>1, <2>6, <3>1, <3>3, <3>4 DEF Claims, Accounted, Forgotten
    <3>5. \A id \in timedOut' : id \in 1..(nextId' - 1)
      <4>1. key \in 1..(nextId - 1)
        BY <1>0, <2>2
      <4> QED
        BY <2>1, <3>1, <3>2, <4>1 DEF Claims
    <3>6. \A id \in responses' : id \notin timedOut'
      BY <2>7, <2>9, <3>1, <3>2 DEF Claims
    <3> QED
      BY <2>5, <3>4, <3>5, <3>6 DEF Claims
  <2> QED
    BY <2>8, <2>9
<1>5. CASE \E c \in Callers, size \in Sizes \cup {0} :
              /\ BeginRequest(c, size) /\ UNCHANGED timedOut
              /\ WorkerTakes \/ StartupRequest
  <2>1. PICK c \in Callers, size \in Sizes \cup {0} :
              /\ BeginRequest(c, size) /\ UNCHANGED timedOut
              /\ WorkerTakes \/ StartupRequest
    BY <1>5
  <2>2. \A d \in Callers : ~Active(d)
    BY <2>1 DEF WorkerTakes, StartupRequest, CallPhase, Active, Callers,
       NothingPending
  <2>3. /\ nextId' = nextId + 1
        /\ call'[c].id = nextId /\ call'[c].at = "begun"
        /\ \A d \in Callers \ {c} : call'[d] = call[d]
    BY <1>0, <2>1 DEF BeginRequest
  <2>4. UNCHANGED <<outbound, writer, reader, nvim, responses>>
    BY <2>1 DEF WorkerTakes, StartupRequest
  <2>5. \A id : Somewhere(id)' <=> Somewhere(id)
    BY <2>4 DEF Somewhere, Asked, Sent, Returning
  <2>6. ~Somewhere(nextId) /\ nextId \notin timedOut
    BY <1>0 DEF Claims
  <2>7. ASSUME NEW id \in Nat, Somewhere(id)
        PROVE  id \in 1..(nextId' - 1) /\ Accounted(id)'
    <3>1. id \in 1..(nextId - 1) /\ (id \in timedOut \/ Forgotten(id))
      BY <2>2, <2>7 DEF Claims, Accounted
    <3> QED
      BY <1>0, <2>1, <2>3, <3>1 DEF Accounted, Forgotten
  <2>8. \A d \in Callers : Active(d)' => d = c
    BY <2>2, <2>3 DEF Active
  <2>9. nextId = nextId' - 1
    BY <1>0, <2>3
  <2>10. \A id \in timedOut' : id \in 1..(nextId' - 1)
    BY <1>0, <2>1, <2>3 DEF Claims
  <2>11. \A d \in Callers : call'[d].at = "begun" => d = c
    BY <2>2, <2>3 DEF Active
  <2>12. \A id \in Nat : Somewhere(id)' => id \in 1..(nextId' - 1)
                                               /\ Accounted(id)'
    BY <2>5, <2>7
  <2>13. \A id \in responses' : id \notin timedOut'
    BY <2>1, <2>4 DEF Claims
  <2>14. \A d \in Callers : Active(d)' =>
            /\ call'[d].id = nextId' - 1 /\ call'[d].id # 0
            /\ call'[d].id \notin timedOut'
    BY <1>0, <2>1, <2>3, <2>6, <2>8, <2>9
  <2>15. \A d \in Callers, id \in Nat :
            call'[d].at = "begun" /\ call'[d].id = id => ~Somewhere(id)'
    BY <2>3, <2>5, <2>6, <2>11
  <2> QED
    BY <2>10, <2>12, <2>13, <2>14, <2>15 DEF Claims
<1> QED
  BY <1>2, <1>3, <1>4, <1>5, CallChanges

-----------------------------------------------------------------------------
(* The theorems                                                             *)

(* The invariant holds at first ...                                         *)
LEMMA InitOK == ASSUME NvimAssumption, Init PROVE Inv
<1>1. Types
  <2>1. running \in BOOLEAN /\ readFailed \in BOOLEAN
    BY DEF Init
  <2>11. process \in ProcessType
    BY DEF Init, ProcessType
  <2>12. nextId \in Nat \ {0} /\ accepted \in Nat
    BY DEF Init
  <2>9. NoMessage \in Message
    BY DEF NoMessage, Message
  <2>10. writer \in WriterType
    BY <2>9 DEF Init, WriterType
  <2>2. outbound \in OutboundType /\ reader \in ReaderType
    BY EmptySeq DEF Init, OutboundType, ReaderType
  <2>3. notifications \in Seq(Output) /\ Len(notifications) <= QueueDepth
    BY EmptySeq DEF Init, NvimAssumption
  <2>4. /\ responses \in SUBSET Nat /\ timedOut \in SUBSET Nat
        /\ IsFiniteSet(timedOut) /\ Cardinality(timedOut) <= MaxTimedOutIds
    BY FS_EmptySet DEF Init, NvimAssumption
  <2>5. call \in [Callers -> CallType]
    BY DEF Init, Idle, CallType
  <2>6. worker \in WorkerType
    BY DEF Init, WorkerType, NothingPending
  <2>7. host \in HostType
    BY DEF Init, HostType, NvimAssumption
  <2>8. nvim \in NvimType
    BY EmptySeq DEF Init, NvimType
  <2> QED
    BY <2>1, <2>2, <2>3, <2>4, <2>5, <2>6, <2>7, <2>8, <2>10, <2>11,
       <2>12 DEF Types
<1>2. WriterPhase /\ ClosePhase /\ ReaderPhase /\ CallPhase
  BY DEF Init, WriterPhase, ClosePhase, ReaderPhase, CallPhase, Closing,
     Gone, Open, Idle, Callers, NothingPending
<1>3. Wire
  <2>1. nvim.in = <<>> /\ outbound.queue = <<>> /\ ~outbound.busy
        /\ nvim.read = 0 /\ accepted = 0 /\ nvim.alive
    BY DEF Init
  <2>2. Len(nvim.in) = 0 /\ Len(outbound.queue) = 0 /\ Held = 0
    BY <2>1, EmptySeq DEF Held
  <2>3. Ahead = 0
    <3>1. accepted = 0 /\ Len(outbound.queue) = 0
      BY <2>1, <2>2
    <3>2. Ahead = 0 - 0
      BY <3>1, Zenon DEF Ahead
    <3> QED
      BY <3>2
  <2> QED
    <3>1. /\ Numbered(nvim.in, nvim.read) /\ Numbered(outbound.queue, Ahead)
          /\ nvim.read + Len(nvim.in) + Held = 0
      BY <2>1, <2>2, NumberedEmpty
    <3> QED
      BY <2>1, <2>3, <3>1 DEF Wire
<1>4. Redrawn
  <2>1. /\ notifications = <<>> /\ reader.buffer = <<>> /\ nvim.out = <<>>
        /\ host.drained = 0 /\ nvim.redraws = 0
    BY DEF Init
  <2>2. Len(notifications) = 0 /\ Queued = 0
    BY <2>1, EmptySeq DEF Queued
  <2>3. \A n : ~Drawn(n)
    BY <2>1, OutputEmpty DEF Drawn
  <2> QED
    BY <2>1, <2>2, <2>3, OutputEmpty DEF Redrawn, QueueInOrder, Complete
<1>5. /\ Sent = {} /\ responses = {} /\ nvim.owes = {}
      /\ reader.buffer = <<>> /\ nvim.out = <<>> /\ timedOut = {}
      /\ \A c \in Callers : call[c].at = "idle"
  BY ElementsEmpty DEF Init, Sent, Idle
<1>6. \A id : ~Asked(id) /\ ~Returning(id) /\ ~Somewhere(id)
  BY <1>5, OutputEmpty DEF Asked, Returning, Somewhere
<1>7. Single
  BY <1>5, <1>6, OutputEmpty DEF Single, AskedOnce, AnsweredOnce, Apart
<1>8. Claims
  BY <1>5, <1>6 DEF Claims, Active
<1> QED
  BY <1>1, <1>2, <1>3, <1>4, <1>7, <1>8 DEF Inv

(* ... and every step keeps it.                                             *)
LEMMA StepOK == ASSUME NvimAssumption, Inv, [Next]_vars PROVE Inv'
<1>1. CASE Next
  BY <1>1, TypesStep, WriterPhaseStep, ClosePhaseStep, ReaderPhaseStep,
     CallPhaseStep, WireStep, RedrawnStep, SingleStep, ClaimsStep DEF Inv
<1>2. CASE UNCHANGED vars
  <2>1. /\ Types' /\ WriterPhase' /\ ClosePhase' /\ ReaderPhase'
        /\ CallPhase'
    BY <1>2 DEF vars, transportVars, Inv, Types, WriterPhase, ClosePhase,
       ReaderPhase, CallPhase
  <2>2. Wire'
    BY <1>2 DEF vars, transportVars, Inv, Wire, Held, Ahead
  <2>3. Redrawn'
    BY <1>2 DEF vars, transportVars, Inv, Redrawn, QueueInOrder, Queued,
       Complete, Drawn
  <2>4. Single'
    BY <1>2 DEF vars, transportVars, Inv, Single, AskedOnce, AnsweredOnce,
       Apart, Asked, Sent, Returning
  <2>5. Claims'
    BY <1>2 DEF vars, transportVars, Inv, Claims, Somewhere, Asked, Sent,
       Returning, Active, Accounted, Forgotten
  <2> QED
    BY <2>1, <2>2, <2>3, <2>4, <2>5 DEF Inv
<1> QED
  BY <1>1, <1>2

(* The phases of the threads, the numbering of messages, the place of every *)
(* request and the order of redraws hold in every reachable state.          *)
THEOREM Invariance == Spec => []Inv
<1>1. Init => Inv
  BY InitOK, NvimAssumption
<1>2. Inv /\ [Next]_vars => Inv'
  BY StepOK, NvimAssumption
<1> QED
  BY <1>1, <1>2, PTL DEF Spec

(* The transport's variables keep their types: the notification queue and   *)
(* the memory of given up ids stay within their limits, and only ids that   *)
(* were given out are stored.                                               *)
THEOREM TypeCorrect == Spec => []NvimTypeOK
<1>1. ASSUME Inv PROVE NvimTypeOK
  <2>1. responses \subseteq 1..(nextId - 1)
    BY <1>1 DEF Inv, Types, Claims, Somewhere
  <2>2. timedOut \subseteq 1..(nextId - 1)
    BY <1>1 DEF Inv, Claims
  <2>3. /\ nvim.in \in Seq(Message) /\ nvim.out \in Seq(Output)
    BY <1>1 DEF Inv, Types, NvimType
  <2> QED
    BY <1>1, <2>1, <2>2, <2>3
    DEF NvimTypeOK, Inv, Types, OutboundType, WriterType, ReaderType,
        CallType, WorkerType
<1> QED
  BY Invariance, <1>1, PTL

(* Nobody enters write() on a descriptor that shutdown() closed: a thread   *)
(* that is inside was there already when the wait of kWriterCancelWait, the *)
(* last before the descriptor was closed, was over.                         *)
THEOREM ClosedToWriters == Spec => []NoEntryAfterClose
<1>1. Inv => NoEntryAfterClose
  BY DEF Inv, ClosePhase, NoEntryAfterClose
<1> QED
  BY Invariance, <1>1, PTL

(* responses_ does not fill up: a stored response has a request that waits  *)
(* for it, or one whose id the full memory of given up ids had to drop.     *)
THEOREM StoredClaimed == Spec => []ResponsesClaimed
<1>1. ASSUME Inv PROVE ResponsesClaimed
  <2>1. ASSUME NEW id \in responses
        PROVE  \/ \E c \in Callers : call[c].id = id /\ call[c].at # "idle"
               \/ /\ Cardinality(timedOut) = MaxTimedOutIds
                  /\ \A t \in timedOut : id < t
    <3>1. id \in Nat /\ Somewhere(id)
      BY <1>1, <2>1 DEF Inv, Types, Somewhere
    <3>2. Accounted(id) /\ id \notin timedOut
      BY <1>1, <2>1, <3>1 DEF Inv, Claims
    <3> QED
      BY <3>2 DEF Accounted, Active, Forgotten
  <2> QED
    BY <2>1 DEF ResponsesClaimed
<1> QED
  BY Invariance, <1>1, PTL

(* The numbering in the words of the module.                                *)
LEMMA NumberedConsecutive ==
    ASSUME NEW s \in Seq(Message), NEW n
    PROVE  Numbered(s, n) <=> Consecutive(Serials(s), n)
<1>1. DOMAIN s = 1..Len(s) /\ DOMAIN Serials(s) = DOMAIN s
  BY LenProperties DEF Serials
<1>2. \A i \in DOMAIN s : Serials(s)[i] = s[i].serial
  BY DEF Serials
<1> QED
  BY <1>1, <1>2 DEF Numbered, Consecutive

(* Two sequences whose numberings follow each other.                        *)
LEMMA NumberedConcat ==
    ASSUME NEW s \in Seq(Message), NEW t \in Seq(Message), NEW n \in Nat,
           Numbered(s, n), Numbered(t, n + Len(s))
    PROVE  /\ s \o t \in Seq(Message) /\ Len(s \o t) = Len(s) + Len(t)
           /\ Numbered(s \o t, n)
<1>1. /\ s \o t \in Seq(Message) /\ Len(s \o t) = Len(s) + Len(t)
      /\ \A i \in 1..(Len(s) + Len(t)) : (s \o t)[i] =
            IF i <= Len(s) THEN s[i] ELSE t[i - Len(s)]
      /\ Len(s) \in Nat /\ Len(t) \in Nat
  BY ConcatProperties, LenProperties
<1>2. ASSUME NEW i \in 1..(Len(s) + Len(t))
      PROVE  (s \o t)[i].serial = n + i
  <2>1. CASE i <= Len(s)
    BY <1>1, <2>1 DEF Numbered
  <2>2. CASE ~(i <= Len(s))
    <3>1. i - Len(s) \in 1..Len(t) /\ (n + Len(s)) + (i - Len(s)) = n + i
      BY <1>1, <2>2
    <3>2. t[i - Len(s)].serial = (n + Len(s)) + (i - Len(s))
      BY <3>1 DEF Numbered
    <3> QED
      BY <1>1, <2>2, <3>1, <3>2
  <2> QED
    BY <2>1, <2>2
<1> QED
  BY <1>1, <1>2 DEF Numbered

(* Neovim reads what the transport accepted, all of it and in that order,   *)
(* until a write fails or the pipe is closed.                               *)
THEOREM MessagesInOrder == Spec => []WireOrder
<1>1. ASSUME Inv PROVE WireOrder
  <2> DEFINE taken == IF outbound.busy THEN <<writer.message>> ELSE <<>>
             s == nvim.in
             q == outbound.queue
             n == nvim.read
  <2>1. /\ s \in Seq(Message) /\ q \in Seq(Message) /\ n \in Nat
        /\ writer.message \in Message /\ accepted \in Nat
        /\ Len(s) \in Nat /\ Len(q) \in Nat
    BY <1>1, LenProperties
    DEF Inv, Types, NvimType, OutboundType, WriterType
  <2>2. taken \in Seq(Message) /\ Len(taken) = Held /\ Held \in Nat
    BY <2>1, EmptySeq DEF Held
  <2>3. Numbered(s, n)
    BY <1>1 DEF Inv, Wire
  <2>4. ASSUME nvim.alive, process.stdinOpen, ~outbound.failed
        PROVE  /\ Consecutive(Serials(s \o taken \o q), n)
               /\ Len(s \o taken \o q) = accepted - n
    <3>8. /\ Ahead = n + Len(s) + Held /\ Numbered(q, Ahead)
          /\ outbound.busy => writer.message.serial = Ahead
      BY <1>1, <2>4 DEF Inv, Wire
    <3>1. Numbered(taken, n + Len(s))
      BY <2>1, <3>8, NumberedEmpty DEF Numbered, Held
    <3>2. /\ Numbered(q, n + Len(s) + Held)
          /\ accepted = n + Len(s) + Held + Len(q)
      BY <2>1, <2>2, <3>8 DEF Ahead
    <3> HIDE DEF taken, s, q, n
    <3>3. /\ s \o taken \in Seq(Message)
          /\ Len(s \o taken) = Len(s) + Held
          /\ Numbered(s \o taken, n)
      BY <2>1, <2>2, <2>3, <3>1, NumberedConcat
    <3>4. n + Len(s \o taken) = n + Len(s) + Held
      BY <2>1, <2>2, <3>3
    <3>5. /\ (s \o taken) \o q \in Seq(Message)
          /\ Len((s \o taken) \o q) = Len(s \o taken) + Len(q)
          /\ Numbered((s \o taken) \o q, n)
      BY <2>1, <3>2, <3>3, <3>4, NumberedConcat
    <3>6. Len((s \o taken) \o q) = accepted - n
      BY <2>1, <2>2, <3>2, <3>3, <3>5
    <3> QED
      BY <2>1, <3>5, <3>6, NumberedConsecutive
  <2>5. Consecutive(Serials(s), n)
    BY <2>1, <2>3, NumberedConsecutive
  <2> QED
    BY <2>4, <2>5 DEF WireOrder
<1> QED
  BY Invariance, <1>1, PTL

(* Redraws of two sequences that follow each other.                         *)
LEMMA RisingConcat ==
    ASSUME NEW s \in Seq(Output), NEW t \in Seq(Output),
           Rising(s), Rising(t),
           \A m, n \in Nat : DrawnIn(s, m) /\ DrawnIn(t, n) => m < n
    PROVE  /\ s \o t \in Seq(Output)
           /\ Rising(s \o t)
           /\ \A n : DrawnIn(s \o t, n) <=> DrawnIn(s, n) \/ DrawnIn(t, n)
<1> DEFINE u == s \o t
<1>1. /\ u \in Seq(Output) /\ Len(u) = Len(s) + Len(t)
      /\ \A i \in 1..(Len(s) + Len(t)) : u[i] =
            IF i <= Len(s) THEN s[i] ELSE t[i - Len(s)]
      /\ Len(s) \in Nat /\ Len(t) \in Nat
  BY ConcatProperties, LenProperties
<1> HIDE DEF u
<1>2. \A i \in 1..Len(s) : i \in 1..Len(u) /\ u[i] = s[i]
  BY <1>1
<1>3. \A i \in 1..Len(t) : Len(s) + i \in 1..Len(u) /\ u[Len(s) + i] = t[i]
  <2> TAKE i \in 1..Len(t)
  <2>1. /\ Len(s) + i \in 1..Len(u) /\ ~(Len(s) + i <= Len(s))
        /\ (Len(s) + i) - Len(s) = i
    BY <1>1
  <2> QED
    BY <1>1, <2>1
<1>4. \A i \in 1..Len(u) :
         i \in 1..Len(s) \/ \E j \in 1..Len(t) : i = Len(s) + j
  <2> TAKE i \in 1..Len(u)
  <2>1. CASE i <= Len(s)
    BY <1>1, <2>1
  <2>2. CASE ~(i <= Len(s))
    <3>1. i - Len(s) \in 1..Len(t) /\ i = Len(s) + (i - Len(s))
      BY <1>1, <2>2
    <3> QED
      BY <3>1
  <2> QED
    BY <2>1, <2>2
<1>5. ASSUME NEW n PROVE DrawnIn(u, n) <=> DrawnIn(s, n) \/ DrawnIn(t, n)
  <2>1. ASSUME DrawnIn(u, n) PROVE DrawnIn(s, n) \/ DrawnIn(t, n)
    <3>1. PICK i \in 1..Len(u) : u[i].kind = "redraw" /\ u[i].id = n
      BY <2>1 DEF DrawnIn, Elements
    <3>2. CASE i \in 1..Len(s)
      <4>1. s[i].kind = "redraw" /\ s[i].id = n
        BY <1>2, <3>1, <3>2
      <4> QED
        BY <3>2, <4>1 DEF DrawnIn, Elements
    <3>3. ASSUME NEW j \in 1..Len(t), i = Len(s) + j PROVE DrawnIn(t, n)
      <4>1. t[j].kind = "redraw" /\ t[j].id = n
        BY <1>3, <3>1, <3>3
      <4> QED
        BY <4>1 DEF DrawnIn, Elements
    <3> QED
      BY <1>4, <3>2, <3>3
  <2>2. ASSUME DrawnIn(s, n) PROVE DrawnIn(u, n)
    <3>1. PICK i \in 1..Len(s) : s[i].kind = "redraw" /\ s[i].id = n
      BY <2>2 DEF DrawnIn, Elements
    <3>2. i \in 1..Len(u) /\ u[i].kind = "redraw" /\ u[i].id = n
      BY <1>2, <3>1
    <3> QED
      BY <3>2 DEF DrawnIn, Elements
  <2>3. ASSUME DrawnIn(t, n) PROVE DrawnIn(u, n)
    <3>1. PICK i \in 1..Len(t) : t[i].kind = "redraw" /\ t[i].id = n
      BY <2>3 DEF DrawnIn, Elements
    <3>2. /\ Len(s) + i \in 1..Len(u) /\ u[Len(s) + i].kind = "redraw"
          /\ u[Len(s) + i].id = n
      BY <1>3, <3>1
    <3> QED
      BY <3>2 DEF DrawnIn, Elements
  <2> QED
    BY <2>1, <2>2, <2>3
<1>6. Rising(u)
  <2> SUFFICES ASSUME NEW i \in 1..Len(u), NEW j \in 1..Len(u),
                      u[i].kind = "redraw", u[j].kind = "redraw", i < j
               PROVE  u[i].id < u[j].id
    BY DEF Rising
  <2>1. CASE i \in 1..Len(s) /\ j \in 1..Len(s)
    BY <1>2, <2>1 DEF Rising
  <2>2. CASE i \in 1..Len(s) /\ j \notin 1..Len(s)
    <3>1. PICK k \in 1..Len(t) : j = Len(s) + k
      BY <1>4, <2>2
    <3>2. s[i].kind = "redraw" /\ t[k].kind = "redraw"
      BY <1>2, <1>3, <2>2, <3>1
    <3>3. DrawnIn(s, s[i].id) /\ DrawnIn(t, t[k].id)
      BY <2>2, <3>2 DEF DrawnIn, Elements
    <3>4. s[i] \in Output /\ t[k] \in Output
      BY <2>2, ElementOfSeq
    <3>5. s[i].id \in Nat /\ t[k].id \in Nat
      BY <3>4 DEF Output
    <3>6. s[i].id < t[k].id
      BY <3>3, <3>5
    <3> QED
      BY <1>2, <1>3, <2>2, <3>1, <3>6
  <2>3. CASE i \notin 1..Len(s)
    <3>1. PICK k \in 1..Len(t) : i = Len(s) + k
      BY <1>4, <2>3
    <3>2. j \notin 1..Len(s)
      BY <1>1, <2>3
    <3>3. PICK l \in 1..Len(t) : j = Len(s) + l
      BY <1>4, <3>2
    <3>4. k < l
      BY <1>1, <3>1, <3>3
    <3>5. t[k].kind = "redraw" /\ t[l].kind = "redraw"
      BY <1>3, <3>1, <3>3
    <3>6. t[k].id < t[l].id
      BY <3>4, <3>5 DEF Rising
    <3> QED
      BY <1>3, <3>1, <3>3, <3>6
  <2> QED
    BY <2>1, <2>2, <2>3
<1> QED
  BY <1>1, <1>5, <1>6 DEF u

(* A rising sequence with the redraws from a + 1 to b, read by position.    *)
LEMMA RedrawsByPosition ==
    ASSUME NEW s \in Seq(Output), Rising(s), NEW a \in Nat, NEW b \in Nat,
           \A n \in Nat : DrawnIn(s, n) <=> n \in (a + 1)..b
    PROVE  /\ \A i, j \in Redraws(s) : i < j => s[i].id < s[j].id
           /\ {s[i].id : i \in Redraws(s)} = (a + 1)..b
<1>1. /\ DOMAIN s = 1..Len(s)
      /\ \A i \in 1..Len(s) : s[i] \in Output /\ s[i].id \in Nat
  <2>1. \A i \in 1..Len(s) : s[i] \in Output
    BY ElementOfSeq
  <2> QED
    BY <2>1, LenProperties DEF Output
<1>2. \A i, j \in Redraws(s) : i < j => s[i].id < s[j].id
  BY <1>1 DEF Redraws, Rising
<1>3. ASSUME NEW i \in Redraws(s) PROVE s[i].id \in (a + 1)..b
  <2>1. i \in 1..Len(s) /\ s[i].kind = "redraw"
    BY <1>1 DEF Redraws
  <2>2. DrawnIn(s, s[i].id) /\ s[i].id \in Nat
    BY <1>1, <2>1 DEF DrawnIn, Elements
  <2> QED
    BY <2>2
<1>4. ASSUME NEW n \in (a + 1)..b PROVE \E i \in Redraws(s) : s[i].id = n
  <2>1. n \in Nat /\ DrawnIn(s, n)
    OBVIOUS
  <2>2. PICK i \in 1..Len(s) : s[i].kind = "redraw" /\ s[i].id = n
    BY <2>1 DEF DrawnIn, Elements
  <2> QED
    BY <1>1, <2>2 DEF Redraws
<1> QED
  BY <1>2, <1>3, <1>4

(* No redraw batch is lost or overtaken while the transport runs, and what  *)
(* waits in the notification queue never has a gap.                         *)
THEOREM RedrawsComplete == Spec => []NoRedrawLost
<1>1. ASSUME Inv PROVE NoRedrawLost
  <2> DEFINE q == notifications
             b == reader.buffer
             o == nvim.out
             all == q \o b \o o
  <2>1. /\ q \in Seq(Output) /\ b \in Seq(Output) /\ o \in Seq(Output)
        /\ host.drained \in Nat /\ nvim.redraws \in Nat
        /\ Len(q) \in Nat /\ Queued = host.drained + Len(q)
    BY <1>1, LenProperties
    DEF Inv, Types, ReaderType, NvimType, HostType, Queued
  <2>2. \A i \in 1..Len(q) : q[i].kind = "redraw"
                                /\ q[i].id = host.drained + i
    BY <1>1 DEF Inv, Redrawn, QueueInOrder
  <2>3. \A n \in Nat : Drawn(n) <=> DrawnIn(b, n) \/ DrawnIn(o, n)
    BY DEF Drawn
  <2>4. /\ Rising(b) /\ Rising(o) /\ Queued <= nvim.redraws
        /\ \A m, n \in Nat : DrawnIn(b, m) /\ DrawnIn(o, n) => m < n
        /\ \A n \in Nat : Drawn(n) => n \in 1..nvim.redraws
    BY <1>1 DEF Inv, Redrawn
  <2> HIDE DEF q, b, o
  <2>5. \A n \in Nat : DrawnIn(q, n) <=> n \in (host.drained + 1)..Queued
    <3> SUFFICES ASSUME NEW n \in Nat
                 PROVE  DrawnIn(q, n) <=> n \in (host.drained + 1)..Queued
      OBVIOUS
    <3>1. ASSUME DrawnIn(q, n) PROVE n \in (host.drained + 1)..Queued
      <4>1. PICK i \in 1..Len(q) : q[i].id = n
        BY <3>1 DEF DrawnIn, Elements
      <4> QED
        BY <2>1, <2>2, <4>1
    <3>2. ASSUME n \in (host.drained + 1)..Queued PROVE DrawnIn(q, n)
      <4>1. /\ n - host.drained \in 1..Len(q)
            /\ host.drained + (n - host.drained) = n
        BY <2>1, <3>2
      <4>2. q[n - host.drained].kind = "redraw" /\ q[n - host.drained].id = n
        BY <2>2, <4>1
      <4> QED
        BY <4>1, <4>2 DEF DrawnIn, Elements
    <3> QED
      BY <3>1, <3>2
  <2>6. Rising(q)
    BY <2>1, <2>2 DEF Rising
  <2>7. ASSUME running
        PROVE  /\ \A i, j \in Redraws(all) : i < j => all[i].id < all[j].id
               /\ {all[i].id : i \in Redraws(all)}
                      = (host.drained + 1)..nvim.redraws
    <3>1. Complete
      BY <1>1, <2>7 DEF Inv, Redrawn
    <3>2. \A m, n \in Nat : DrawnIn(q, m) /\ DrawnIn(b, n) => m < n
      BY <2>1, <2>3, <2>5, <3>1 DEF Complete
    <3>3. /\ q \o b \in Seq(Output) /\ Rising(q \o b)
          /\ \A n : DrawnIn(q \o b, n) <=> DrawnIn(q, n) \/ DrawnIn(b, n)
      BY <2>1, <2>4, <2>6, <3>2, RisingConcat
    <3>4. \A m, n \in Nat : DrawnIn(q \o b, m) /\ DrawnIn(o, n) => m < n
      BY <2>1, <2>3, <2>4, <2>5, <3>1, <3>3 DEF Complete
    <3>5. /\ all \in Seq(Output) /\ Rising(all)
          /\ \A n : DrawnIn(all, n) <=> DrawnIn(q \o b, n) \/ DrawnIn(o, n)
      BY <2>1, <2>4, <3>3, <3>4, RisingConcat
    <3>6. \A n \in Nat :
             DrawnIn(all, n) <=> n \in (host.drained + 1)..nvim.redraws
      <4> SUFFICES ASSUME NEW n \in Nat
                   PROVE  DrawnIn(all, n)
                             <=> n \in (host.drained + 1)..nvim.redraws
        OBVIOUS
      <4>1. DrawnIn(all, n) <=> DrawnIn(q, n) \/ Drawn(n)
        BY <2>3, <3>3, <3>5
      <4>2. Drawn(n) <=> n \in (Queued + 1)..nvim.redraws
        BY <2>1, <2>4, <3>1 DEF Complete
      <4>3. n \in (host.drained + 1)..nvim.redraws <=>
               \/ n \in (host.drained + 1)..Queued
               \/ n \in (Queued + 1)..nvim.redraws
        BY <2>1, <2>4
      <4> QED
        BY <2>5, <4>1, <4>2, <4>3
    <3> HIDE DEF all
    <3> QED
      BY <2>1, <3>5, <3>6, RedrawsByPosition
  <2>8. \A i \in DOMAIN q : q[i].id = host.drained + i
    BY <2>1, <2>2, LenProperties
  <2> QED
    BY <2>7, <2>8 DEF NoRedrawLost, q, b, o
<1> QED
  BY Invariance, <1>1, PTL

=============================================================================
