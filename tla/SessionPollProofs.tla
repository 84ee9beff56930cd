-------------------------- MODULE SessionPollProofs --------------------------
(***************************************************************************)
(* Proofs about SessionPoll.  A response is built channel by channel and   *)
(* terminal by terminal; each of these steps keeps it within the budget    *)
(* and announces what it leaves out.  The terminal whose turn it is moves  *)
(* on with every poll, past one terminal at least and past nobody who has  *)
(* not been asked, so the terminals before a waiting one become fewer.     *)
(***************************************************************************)
EXTENDS SessionPoll, Counting

-----------------------------------------------------------------------------
(* The inductive invariant                                                  *)

(* Who needs a snapshot, or is not wanted, has no events queued.            *)
QueuesOK ==
    \A t \in Subscriptions : t \in resync \/ t \notin wanted => queue[t] = <<>>

(* The subscriptions whose turn is before that of t, wanted or not.         *)
Ahead(t) == {u \in Subscriptions : Before(u, t)}

(* They are fewer the longer t has waited.                                  *)
Turns ==
    \A t \in Subscriptions :
       skipped[t] + Cardinality(Ahead(t)) < Cardinality(Subscriptions)

(* The polls until a projection is the first channel of one.                *)
Until(p) ==
    IF p = "topology"
    THEN IF schedule.channel <= 1 THEN 1 - schedule.channel
         ELSE 5 - schedule.channel
    ELSE 3 - schedule.channel

Rounds == \A p \in Projections : missed[p] + Until(p) <= 3

Inv == PollTypeOK /\ QueuesOK /\ Turns /\ Rounds /\ MoreTold

-----------------------------------------------------------------------------
(* Sizes                                                                    *)

(* The sizes of the first events of a queue, added up.                      *)
Adds(events, f) ==
    f = [n \in 0..Len(events) |->
            IF n = 0 THEN 0 ELSE f[n - 1] + events[n]]

(* Size as a choice of the function it is defined by.                       *)
LEMMA SizeOf ==
    ASSUME NEW events
    PROVE  Size(events) = (CHOOSE f : Adds(events, f))[Len(events)]
BY DEF Size, Adds

(* The size of a queue is a number, that of none is 0, and of one event its *)
(* own.                                                                     *)
LEMMA SizeType ==
    ASSUME NEW events \in Seq(Nat)
    PROVE  /\ Size(events) \in Nat
           /\ Len(events) = 0 => Size(events) = 0
           /\ Len(events) = 1 => Size(events) = events[1]
<1> DEFINE N == Len(events)
           step == [n \in 1..N |-> [m \in Nat |-> m + events[n]]]
<1>1. N \in Nat /\ \A n \in 1..N : events[n] \in Nat
  BY LenProperties, ElementOfSeq
<1>2. \A n \in 1..N : \A m \in Nat : step[n][m] = m + events[n]
  OBVIOUS
<1> HIDE DEF step, N
<1>3. Closed(step, N, Nat)
  <2>1. \A n \in 1..N : \A m \in Nat : m + events[n] \in Nat
    BY <1>1
  <2> QED
    BY <1>2, <2>1 DEF Closed
<1>4. 0 \in Nat
  OBVIOUS
<1>5. PICK f \in [0..N -> Nat] : Repeats(f, N, 0, step)
  BY <1>1, <1>3, <1>4, Recursion
<1>6. f[0] = 0 /\ \A n \in 1..N : f[n] = f[n - 1] + events[n]
  <2>1. f[0] = 0 /\ \A n \in 1..N : f[n] = step[n][f[n - 1]]
    BY <1>5 DEF Repeats
  <2>2. \A n \in 1..N : n - 1 \in 0..N /\ f[n - 1] \in Nat
    BY <1>1, <1>5
  <2> QED
    BY <1>2, <2>1, <2>2
<1>7. Adds(events, f)
  BY <1>1, <1>6 DEF Adds, N
<1>8. PICK g : g = CHOOSE h : Adds(events, h)
  OBVIOUS
<1>9. Adds(events, g)
  BY <1>7, <1>8
<1>10. /\ DOMAIN g = 0..N /\ g[0] = 0
      /\ \A n \in 1..N : g[n] = g[n - 1] + events[n]
  BY <1>1, <1>9 DEF Adds, N
<1>11. \A n \in 0..N : g[n] \in Nat
  <2> DEFINE T == {n \in 0..N : g[n] \in Nat}
  <2>1. 0 \in T
    BY <1>1, <1>10
  <2>2. ASSUME NEW n \in Nat, n < N, n \in T PROVE n + 1 \in T
    <3>1. /\ n + 1 \in 1..N /\ n + 1 \in 0..N /\ (n + 1) - 1 = n
          /\ g[n] \in Nat
      BY <1>1, <2>2
    <3>2. g[n + 1] = g[n] + events[n + 1] /\ events[n + 1] \in Nat
      BY <1>1, <1>10, <3>1
    <3>3. g[n + 1] \in Nat
      BY <3>1, <3>2
    <3> QED
      BY <3>1, <3>3
  <2> HIDE DEF T
  <2>3. 0..N \subseteq T
    BY <1>1, <2>1, <2>2, Induction
  <2> QED
    BY <2>3 DEF T
<1>12. Size(events) = g[N]
  BY <1>8, SizeOf DEF N
<1>13. N = 1 => g[1] = events[1]
  <2>1. ASSUME N = 1 PROVE g[1] = events[1]
    <3>1. 1 \in 1..N /\ 1 - 1 = 0 /\ events[1] \in Nat
      BY <1>1, <2>1
    <3>2. g[1] = g[0] + events[1] /\ g[0] = 0
      BY <1>10, <3>1
    <3> QED
      BY <3>1, <3>2
  <2> QED
    BY <2>1
<1>14. /\ Size(events) \in Nat
       /\ N = 0 => Size(events) = 0
       /\ N = 1 => Size(events) = events[1]
  <2>1. N \in 0..N
    BY <1>1
  <2>2. g[N] \in Nat
    BY <1>11, <2>1
  <2> QED
    BY <1>10, <1>12, <1>13, <2>2
<1> QED
  BY <1>14 DEF N

(* What goes out of a queue by a budget is within it.                       *)
LEMMA FittingType ==
    ASSUME NEW events \in Seq(Nat), NEW budget \in Nat
    PROVE  /\ Fitting(events, budget) \in 0..Len(events)
           /\ Size(SubSeq(events, 1, Fitting(events, budget))) <= budget
<1> DEFINE N == Smaller(Len(events), EventLimit)
           fits == {n \in 0..N : Size(SubSeq(events, 1, n)) <= budget}
<1>1. /\ Len(events) \in Nat /\ N \in Nat /\ N <= Len(events)
  BY LenProperties, PollAssumption DEF Smaller
<1>2. fits \subseteq 0..N
  OBVIOUS
<1>3. 0 \in fits
  <2>1. SubSeq(events, 1, 0) \in Seq(Nat) /\ Len(SubSeq(events, 1, 0)) = 0
    BY <1>1, SubSeqProperties
  <2>2. Size(SubSeq(events, 1, 0)) = 0
    BY <2>1, SizeType
  <2> QED
    BY <1>1, <2>2
<1>4. Fitting(events, budget) = CHOOSE n \in fits : \A m \in fits : m <= n
  BY DEF Fitting
<1>5. \A n \in fits : n \in 0..N /\ Size(SubSeq(events, 1, n)) <= budget
  OBVIOUS
<1> HIDE DEF fits, N
<1>6. \E n \in fits : \A m \in fits : m <= n
  <2> DEFINE T == {N - n : n \in fits}
  <2>1. T \in SUBSET Nat /\ T # {}
    BY <1>1, <1>2, <1>3
  <2>2. PICK x \in T : \A y \in T : x <= y
    <3> HIDE DEF T
    <3> QED
      BY <2>1, LeastExists
  <2>3. PICK n \in fits : x = N - n
    OBVIOUS
  <2>4. \A m \in fits : N - n <= N - m
    BY <2>2, <2>3
  <2>5. \A m \in fits : m <= n
    BY <1>1, <1>2, <2>4
  <2> QED
    BY <2>5
<1>7. Fitting(events, budget) \in fits
  BY <1>4, <1>6
<1> QED
  BY <1>1, <1>5, <1>7

-----------------------------------------------------------------------------
(* Slices                                                                   *)

(* What terminal t gives to a response with room for hard.                  *)
Slice(t, hard) ==
    IF t \in resync THEN SnapshotSlice(t, Smaller(hard, Quantum), hard)
    ELSE EventSlice(t, Smaller(hard, Quantum), hard)

SliceType ==
    [bytes : Nat, sent : Nat, more : BOOLEAN, oversized : BOOLEAN]

(* Everything t has is in a slice.                                          *)
Empties(slice, t) ==
    /\ t \in resync => slice.bytes > 0
    /\ slice.sent = Len(queue[t])

(* The queue of a terminal, and the sizes in it.                            *)
LEMMA QueueType ==
    ASSUME PollTypeOK, NEW t \in Subscriptions
    PROVE  /\ queue[t] \in Seq(EventSizes) /\ queue[t] \in Seq(Nat)
           /\ Len(queue[t]) \in Nat
           /\ \A i \in 1..Len(queue[t]) : queue[t][i] \in 1..Budget
           /\ queue[t] # <<>> => Len(queue[t]) > 0
           /\ queue[t] = <<>> => Len(queue[t]) = 0
<1>1. PICK q : q = queue[t]
  OBVIOUS
<1>2. q \in Seq(EventSizes)
  BY <1>1 DEF PollTypeOK
<1>3. EventSizes \subseteq Nat /\ EventSizes \subseteq 1..Budget
  BY PollAssumption
<1>4. q \in Seq(Nat)
  BY <1>2, <1>3, SeqMonotonic
<1>5. /\ Len(q) \in Nat /\ q \in [1..Len(q) -> EventSizes]
  BY <1>2, LenProperties
<1>6. q # <<>> => Len(q) > 0
  BY <1>2, EmptySeq
<1>7. q = <<>> => Len(q) = 0
  BY EmptySeq
<1> QED
  BY <1>1, <1>2, <1>3, <1>4, <1>5, <1>6, <1>7

(* A slice is within its room, and says so when it is not everything.       *)
LEMMA SliceOK ==
    ASSUME PollTypeOK, QueuesOK, NEW t \in Subscriptions,
           NEW hard \in 0..Budget
    PROVE  /\ Slice(t, hard) \in SliceType
           /\ Slice(t, hard).bytes <= hard
           /\ Slice(t, hard).sent <= Len(queue[t])
           /\ Slice(t, hard).more \/ Empties(Slice(t, hard), t)
<1> DEFINE soft == Smaller(hard, Quantum)
<1>1. soft \in Nat /\ hard \in Nat /\ soft <= hard
  BY PollAssumption DEF Smaller
<1> HIDE DEF soft
<1>2. CASE t \in resync
  <2>1. PICK size \in Nat \ {0} : size = SnapshotSize[t]
    BY PollAssumption
  <2>2. Slice(t, hard) = IF size > hard
           THEN [bytes |-> 0, sent |-> 0, more |-> TRUE, oversized |-> FALSE]
           ELSE [bytes |-> size, sent |-> 0, more |-> FALSE,
                 oversized |-> size > soft]
    BY <1>2, <2>1 DEF Slice, SnapshotSlice, soft
  <2>3. Len(queue[t]) = 0
    BY <1>2, QueueType DEF QueuesOK
  <2>4. (size > soft) \in BOOLEAN
    OBVIOUS
  <2>5. CASE size > hard
    BY <1>1, <2>2, <2>3, <2>5 DEF SliceType
  <2>6. CASE ~(size > hard)
    BY <1>1, <2>1, <2>2, <2>3, <2>4, <2>6 DEF SliceType, Empties
  <2> QED
    BY <2>5, <2>6
<1>3. CASE t \notin resync
  <2>1. PICK events : events = queue[t]
    OBVIOUS
  <2>2. /\ events \in Seq(Nat) /\ Len(events) \in Nat
        /\ events # <<>> => Len(events) > 0
    BY <2>1, QueueType
  <2>3. PICK large : large = (/\ events # <<>>
                              /\ events[1] > soft /\ events[1] <= hard)
    OBVIOUS
  <2>4. large \in BOOLEAN
    BY <2>3
  <2>5. PICK sent : sent = IF large THEN 1 ELSE Fitting(events, soft)
    OBVIOUS
  <2>6. PICK bytes : bytes = Size(SubSeq(events, 1, sent))
    OBVIOUS
  <2>7. PICK more : more = (sent < Len(events))
    OBVIOUS
  <2>8. more \in BOOLEAN
    BY <2>7
  <2>9. Slice(t, hard) = [bytes |-> bytes, sent |-> sent,
                          more |-> more, oversized |-> large]
    <3>1. Slice(t, hard) = EventSlice(t, soft, hard)
      BY <1>3 DEF Slice, soft
    <3> QED
      BY <3>1, <2>1, <2>3, <2>5, <2>6, <2>7 DEF EventSlice
  <2>10. sent \in 0..Len(events) /\ bytes \in Nat /\ bytes <= hard
    <3>1. CASE large
      <4>1. sent = 1 /\ 1 \in 1..Len(events) /\ events[1] \in Nat
        <5>1. events # <<>>
          BY <2>3, <3>1
        <5>2. sent = 1
          BY <2>5, <3>1
        <5>3. 1 \in 1..Len(events)
          BY <2>2, <5>1
        <5> QED
          BY <2>2, <5>2, <5>3, ElementOfSeq
      <4>5. events[1] <= hard
        BY <2>3, <3>1
      <4>2. /\ SubSeq(events, 1, 1) \in Seq(Nat)
            /\ Len(SubSeq(events, 1, 1)) = 1
            /\ SubSeq(events, 1, 1)[1] = events[1]
        <5>1. \A i \in 1..1 : events[i] \in Nat
          BY <4>1
        <5>2. /\ SubSeq(events, 1, 1) \in Seq(Nat)
              /\ Len(SubSeq(events, 1, 1)) = IF 1 <= 1 THEN 1-1+1 ELSE 0
              /\ \A i \in 1 .. 1-1+1 :
                    SubSeq(events, 1, 1)[i] = events[1+i-1]
          BY <5>1, SubSeqProperties
        <5> QED
          BY <5>2
      <4>3. Size(SubSeq(events, 1, 1)) = events[1]
        BY <4>2, SizeType
      <4> QED
        BY <2>2, <2>6, <4>1, <4>3, <4>5
    <3>2. CASE ~large
      <4>1. sent = Fitting(events, soft)
        BY <2>5, <3>2
      <4>2. sent \in 0..Len(events) /\ bytes <= soft
        BY <1>1, <2>2, <2>6, <4>1, FittingType
      <4>3. SubSeq(events, 1, sent) \in Seq(Nat)
        <5>1. \A i \in 1..sent : events[i] \in Nat
          BY <2>2, <4>2, ElementOfSeq
        <5> QED
          BY <4>2, <5>1, SubSeqProperties
      <4>4. bytes \in Nat
        BY <2>6, <4>3, SizeType
      <4> QED
        BY <1>1, <4>2, <4>4
    <3> QED
      BY <2>4, <3>1, <3>2
  <2>11. Slice(t, hard) \in SliceType
    BY <2>4, <2>9, <2>10, <2>8 DEF SliceType
  <2>12. Slice(t, hard).more \/ Slice(t, hard).sent = Len(queue[t])
    <3>1. Slice(t, hard).sent = sent /\ Slice(t, hard).more = more
      BY <2>9
    <3>2. CASE sent < Len(events)
      <4>1. more
        BY <2>7, <3>2
      <4> QED
        BY <3>1, <4>1, Zenon
    <3>3. CASE ~(sent < Len(events))
      BY <2>1, <2>2, <2>10, <3>1, <3>3
    <3> QED
      BY <3>2, <3>3
  <2> QED
    BY <1>3, <2>1, <2>9, <2>10, <2>11, <2>12 DEF Empties
<1> QED
  BY <1>2, <1>3

-----------------------------------------------------------------------------
(* The order of the terminals                                               *)

(* From a on, and round to before it.                                       *)
From(a, t, u) == IF (t >= a) = (u >= a) THEN t < u ELSE t >= a

(* The order of a response begins at next_subscription_id.                  *)
LEMMA BeforeIsFrom == \A t, u : Before(t, u) = From(schedule.next, t, u)
BY DEF Before, From

(* It is an order of all numbers.                                           *)
LEMMA FromOrders ==
    ASSUME NEW a \in Nat, NEW t \in Nat, NEW u \in Nat
    PROVE  /\ ~From(a, t, t)
           /\ t = u \/ From(a, t, u) \/ From(a, u, t)
           /\ \A s \in Nat : From(a, s, t) /\ From(a, t, u) => From(a, s, u)
BY DEF From

(* The turn moves on to s, not beyond t: who is before t now was before t,  *)
(* and the numbers before s are not any more.                               *)
LEMMA FromMoves ==
    ASSUME NEW a \in Nat, NEW s \in Nat, NEW t \in Nat,
           s = t \/ From(a, s, t)
    PROVE  /\ \A u \in Nat : From(s, u, t) => From(a, u, t)
           /\ \A u \in Nat : From(a, u, s) => From(a, u, t) /\ ~From(s, u, t)
BY DEF From

(* The number of the wanted terminals before t.                             *)
WantedBefore(t) == {u \in wanted : Before(u, t)}
Rank(t) == Cardinality(WantedBefore(t))

(* The terminals are ordered by how many are before them.                   *)
LEMMA RankOrders ==
    ASSUME PollTypeOK
    PROVE  /\ \A t \in wanted : Rank(t) \in 0..(Cardinality(wanted) - 1)
           /\ \A t, u \in wanted : Rank(t) < Rank(u) <=> Before(t, u)
           /\ \A t, u \in wanted : Rank(t) = Rank(u) => t = u
<1>1. /\ IsFiniteSet(wanted) /\ Cardinality(wanted) \in Nat
      /\ wanted \subseteq Nat
  <2>1. wanted \subseteq Subscriptions /\ IsFiniteSet(Subscriptions)
    BY PollAssumption DEF PollTypeOK
  <2>2. IsFiniteSet(wanted)
    BY <2>1, FS_Subset
  <2> QED
    BY <2>1, <2>2, FS_CardinalityType, PollAssumption
<1>2. schedule.next \in Nat
  <2>1. schedule.next \in Subscriptions \cup {0}
    BY DEF PollTypeOK, Schedule
  <2>2. CASE schedule.next \in Subscriptions
    BY <2>2, PollAssumption, Zenon
  <2>3. CASE schedule.next = 0
    BY <2>3
  <2> QED
    BY <2>1, <2>2, <2>3
<1>3. \A t, u \in Nat :
         /\ ~Before(t, t)
         /\ t = u \/ Before(t, u) \/ Before(u, t)
         /\ \A s \in Nat : Before(s, t) /\ Before(t, u) => Before(s, u)
  BY <1>2, FromOrders, BeforeIsFrom
<1>4. \A t \in wanted : /\ WantedBefore(t) \in SUBSET wanted
                        /\ IsFiniteSet(WantedBefore(t)) /\ Rank(t) \in Nat
  <2>1. \A t \in wanted : WantedBefore(t) \in SUBSET wanted
    BY DEF WantedBefore
  <2> QED
    BY <1>1, <2>1, FS_Subset, FS_CardinalityType DEF Rank
<1>5. \A t \in wanted : Rank(t) \in 0..(Cardinality(wanted) - 1)
  <2> TAKE t \in wanted
  <2>1. t \notin WantedBefore(t)
    BY <1>1, <1>3 DEF WantedBefore
  <2>2. WantedBefore(t) # wanted
    BY <2>1
  <2>3. Rank(t) < Cardinality(wanted)
    BY <1>1, <1>4, <2>2, FS_Subset DEF Rank
  <2> QED
    BY <1>1, <1>4, <2>3
<1>6. ASSUME NEW t \in wanted, NEW u \in wanted, Before(t, u)
      PROVE  Rank(t) < Rank(u)
  <2>1. WantedBefore(t) \subseteq WantedBefore(u)
    BY <1>1, <1>3, <1>6 DEF WantedBefore
  <2>2. t \in WantedBefore(u) /\ t \notin WantedBefore(t)
    BY <1>1, <1>3, <1>6 DEF WantedBefore
  <2>3. WantedBefore(t) # WantedBefore(u)
    BY <2>2
  <2> QED
    BY <1>4, <2>1, <2>3, FS_Subset DEF Rank
<1>7. \A t, u \in wanted : Rank(t) < Rank(u) => Before(t, u)
  <2> TAKE t, u \in wanted
  <2>1. Rank(t) \in Nat /\ Rank(u) \in Nat
    BY <1>4
  <2>2. t = u \/ Before(t, u) \/ Before(u, t)
    BY <1>1, <1>3
  <2>3. Before(u, t) => Rank(u) < Rank(t)
    BY <1>6
  <2> QED
    BY <2>1, <2>2, <2>3
<1>8. \A t, u \in wanted : Rank(t) = Rank(u) => t = u
  <2> TAKE t, u \in wanted
  <2>1. Rank(t) \in Nat /\ Rank(u) \in Nat
    BY <1>4
  <2>2. t = u \/ Before(t, u) \/ Before(u, t)
    BY <1>1, <1>3
  <2>3. /\ Before(u, t) => Rank(u) < Rank(t)
        /\ Before(t, u) => Rank(t) < Rank(u)
    BY <1>6
  <2> QED
    BY <2>1, <2>2, <2>3
<1> QED
  BY <1>5, <1>6, <1>7, <1>8

(* The wanted terminals in order, each of them once.                        *)
LEMMA OrderOK ==
    ASSUME PollTypeOK
    PROVE  /\ Cardinality(wanted) \in Nat /\ IsFiniteSet(wanted)
           /\ Order \in Seq(wanted) /\ Len(Order) = Cardinality(wanted)
           /\ \A n \in 1..Len(Order) :
                 Order[n] \in wanted /\ Rank(Order[n]) = n - 1
           /\ \A t \in wanted : Order[Rank(t) + 1] = t
<1> DEFINE N == Cardinality(wanted)
<1>1. IsFiniteSet(wanted) /\ N \in Nat
  <2>1. wanted \subseteq Subscriptions /\ IsFiniteSet(Subscriptions)
    BY PollAssumption DEF PollTypeOK
  <2> QED
    BY <2>1, FS_Subset, FS_CardinalityType
<1>2. \A n \in 1..N : \E t \in wanted : Rank(t) = n - 1
  <2> DEFINE S == 0..(N - 1)
             f == [t \in wanted |-> Rank(t)]
  <2>1. f \in [wanted -> S]
    BY RankOrders
  <2>2. \A t, u \in wanted : f[t] = f[u] => t = u
    BY RankOrders
  <2>3. f \in Injection(wanted, S)
    BY <2>1, <2>2 DEF Injection, IsInjective
  <2>4. IsFiniteSet(S) /\ Cardinality(S) = N
    <3>1. IsFiniteSet(S) /\ Cardinality(S) = IF 0 > N - 1 THEN 0 ELSE (N-1)-0+1
      BY <1>1, FS_Interval
    <3> QED
      BY <1>1, <3>1
  <2>5. f \in Surjection(wanted, S)
    <3> HIDE DEF f, S, N
    <3> QED
      BY <1>1, <2>3, <2>4, FS_Injection DEF N
  <2>6. \A n \in S : \E t \in wanted : f[t] = n
    BY <2>5 DEF Surjection
  <2>7. \A n \in 1..N : n - 1 \in S
    BY <1>1
  <2> QED
    BY <2>6, <2>7
<1>3. Order = [n \in 1..N |-> CHOOSE t \in wanted : Rank(t) = n - 1]
  BY DEF Order, Rank, WantedBefore
<1>4. \A n \in 1..N : Order[n] \in wanted /\ Rank(Order[n]) = n - 1
  BY <1>2, <1>3
<1>5. Order \in [1..N -> wanted]
  BY <1>3, <1>4
<1> HIDE DEF N
<1>6. Order \in Seq(wanted)
  BY <1>1, <1>5, SeqDef
<1>7. Len(Order) = N
  <2>1. PICK L : L = Len(Order)
    OBVIOUS
  <2>2. L \in Nat /\ DOMAIN Order = 1..L
    BY <1>6, <2>1, LenProperties
  <2>3. DOMAIN Order = 1..N
    BY <1>5
  <2>4. \A n : n \in 1..L <=> n \in 1..N
    BY <2>2, <2>3
  <2>5. N = 0 \/ N \in 1..N
    BY <1>1
  <2>6. L = 0 \/ L \in 1..L
    BY <2>2
  <2> QED
    BY <1>1, <2>1, <2>2, <2>4, <2>5, <2>6
<1>8. \A t \in wanted : Order[Rank(t) + 1] = t
  <2> TAKE t \in wanted
  <2>1. Rank(t) \in 0..(N - 1)
    BY RankOrders DEF N
  <2>2. Rank(t) + 1 \in 1..N /\ (Rank(t) + 1) - 1 = Rank(t)
    BY <1>1, <2>1
  <2>3. PICK u : u = Order[Rank(t) + 1]
    OBVIOUS
  <2>4. u \in wanted /\ Rank(u) = Rank(t)
    BY <1>4, <2>2, <2>3
  <2> QED
    BY <2>3, <2>4, RankOrders
<1> QED
  BY <1>1, <1>4, <1>6, <1>7, <1>8 DEF N

-----------------------------------------------------------------------------
(* Asking the terminals in turn                                             *)

Channels == {"terminals", "topology", "agents"}

TurnType ==
    [used : 0..Budget, more : BOOLEAN, stopped : BOOLEAN,
     done : SUBSET Channels, projected : SUBSET Projections,
     considered : Seq(Subscriptions), slices : [Subscriptions -> SliceType]]

(* What remains of the budget is within it.                                 *)
LEMMA RemainingType ==
    ASSUME NEW turn \in TurnType
    PROVE  /\ Remaining(turn) \in 0..Budget
           /\ turn.used + Remaining(turn) <= Budget
<1>1. turn.used \in 0..Budget
  BY DEF TurnType
<1>2. Budget \in Nat
  BY PollAssumption
<1> QED
  BY <1>1, <1>2 DEF Remaining

(* Asking one, unless the response is complete.                             *)
LEMMA ConsiderIs ==
    ASSUME NEW turn \in TurnType, NEW t \in Subscriptions
    PROVE  /\ turn.stopped => Consider(turn, t) = turn
           /\ ~turn.stopped =>
                 \E stopped \in BOOLEAN :
                    Consider(turn, t) =
                       [used |-> turn.used + Slice(t, Remaining(turn)).bytes,
                        more |-> turn.more \/ Slice(t, Remaining(turn)).more,
                        stopped |-> stopped, done |-> turn.done,
                        projected |-> turn.projected,
                        considered |-> Append(turn.considered, t),
                        slices |-> [turn.slices EXCEPT ![t] =
                                       Slice(t, Remaining(turn))]]
<1>1. PICK hard : hard = Remaining(turn)
  OBVIOUS
<1>2. PICK slice : slice = Slice(t, hard)
  OBVIOUS
<1>3. Consider(turn, t) =
         IF turn.stopped THEN turn
         ELSE [turn EXCEPT !.used = @ + slice.bytes,
                           !.more = @ \/ slice.more,
                           !.stopped = slice.oversized \/ slice.bytes = hard,
                           !.considered = Append(@, t),
                           !.slices[t] = slice]
  BY <1>1, <1>2 DEF Consider, Slice
<1>4. turn = [used |-> turn.used, more |-> turn.more,
              stopped |-> turn.stopped, done |-> turn.done,
              projected |-> turn.projected, considered |-> turn.considered,
              slices |-> turn.slices]
  BY DEF TurnType
<1>5. PICK stopped \in BOOLEAN :
         stopped = (slice.oversized \/ slice.bytes = hard)
  OBVIOUS
<1>6. ~turn.stopped =>
         Consider(turn, t) =
            [used |-> turn.used + slice.bytes,
             more |-> turn.more \/ slice.more,
             stopped |-> stopped, done |-> turn.done,
             projected |-> turn.projected,
             considered |-> Append(turn.considered, t),
             slices |-> [turn.slices EXCEPT ![t] = slice]]
  BY <1>3, <1>4, <1>5
<1> QED
  BY <1>1, <1>2, <1>3, <1>6

(* Asking a terminal makes a response of a response, with nothing taken     *)
(* back.                                                                    *)
LEMMA ConsiderType ==
    ASSUME PollTypeOK, QueuesOK,
           NEW turn \in TurnType, NEW t \in Subscriptions
    PROVE  /\ Consider(turn, t) \in TurnType
           /\ Consider(turn, t).done = turn.done
           /\ Consider(turn, t).projected = turn.projected
           /\ turn.more => Consider(turn, t).more
<1>1. CASE turn.stopped
  BY <1>1, ConsiderIs
<1>2. CASE ~turn.stopped
  <2>1. PICK hard \in 0..Budget :
           hard = Remaining(turn) /\ turn.used + hard <= Budget
    BY RemainingType
  <2>2. PICK slice \in SliceType :
           slice = Slice(t, hard) /\ slice.bytes <= hard
    BY SliceOK
  <2>3. PICK stopped \in BOOLEAN : Consider(turn, t) =
            [used |-> turn.used + slice.bytes,
             more |-> turn.more \/ slice.more,
             stopped |-> stopped, done |-> turn.done,
             projected |-> turn.projected,
             considered |-> Append(turn.considered, t),
             slices |-> [turn.slices EXCEPT ![t] = slice]]
    BY <1>2, <2>1, <2>2, ConsiderIs
  <2>4. /\ turn.used \in 0..Budget /\ turn.done \in SUBSET Channels
        /\ turn.projected \in SUBSET Projections
        /\ turn.considered \in Seq(Subscriptions)
        /\ turn.slices \in [Subscriptions -> SliceType]
    BY DEF TurnType
  <2>5. turn.used + slice.bytes \in 0..Budget
    <3>1. slice.bytes \in Nat
      BY DEF SliceType
    <3> QED
      BY <2>1, <2>2, <2>4, <3>1, PollAssumption
  <2>6. PICK considered \in Seq(Subscriptions) :
           considered = Append(turn.considered, t)
    BY <2>4, AppendProperties
  <2>7. PICK slices \in [Subscriptions -> SliceType] :
           slices = [turn.slices EXCEPT ![t] = slice]
    BY <2>4
  <2>8. PICK more \in BOOLEAN : more = (turn.more \/ slice.more)
    OBVIOUS
  <2>9. PICK used \in 0..Budget : used = turn.used + slice.bytes
    BY <2>5
  <2>10. Consider(turn, t) =
            [used |-> used, more |-> more,
             stopped |-> stopped, done |-> turn.done,
             projected |-> turn.projected,
             considered |-> considered, slices |-> slices]
    BY <2>3, <2>6, <2>7, <2>8, <2>9
  <2>11. Consider(turn, t) \in TurnType
    BY <2>4, <2>10 DEF TurnType
  <2>12. Consider(turn, t).more = more
    BY <2>10
  <2>13. turn.more => Consider(turn, t).more
    BY <2>8, <2>12, Zenon
  <2> QED
    BY <2>10, <2>11, <2>13
<1> QED
  BY <1>1, <1>2

(* Of the first k terminals, those before the response was complete were    *)
(* asked, and gave all they have or had that told.                          *)
Asked(turn, k) ==
    /\ Len(turn.considered) <= k
    /\ turn.stopped \/ Len(turn.considered) = k
    /\ turn.stopped => Len(turn.considered) > 0
    /\ \A i \in 1..Len(turn.considered) :
          /\ turn.considered[i] = Order[i]
          /\ turn.more \/ Empties(turn.slices[Order[i]], Order[i])

(* Asking the next terminal keeps the order of those asked.                 *)
LEMMA ConsiderAsked ==
    ASSUME PollTypeOK, QueuesOK, NEW turn \in TurnType, NEW k \in Nat,
           k < Len(Order), Asked(turn, k)
    PROVE  Asked(Consider(turn, Order[k + 1]), k + 1)
<1>1. /\ Len(Order) \in Nat
      /\ \A n \in 1..Len(Order) :
            /\ Order[n] \in wanted /\ Order[n] \in Subscriptions
            /\ Rank(Order[n]) = n - 1
  <2>1. wanted \subseteq Subscriptions
    BY DEF PollTypeOK
  <2> QED
    BY <2>1, OrderOK
<1>2. k + 1 \in 1..Len(Order)
  BY <1>1
<1>3. PICK t \in Subscriptions : t = Order[k + 1] /\ Rank(t) = k
  BY <1>1, <1>2
<1>4. PICK asked \in Seq(Subscriptions) : asked = turn.considered
  BY DEF TurnType
<1>5. /\ Len(asked) \in Nat /\ Len(asked) <= k
      /\ turn.stopped \/ Len(asked) = k
      /\ turn.stopped => Len(asked) > 0
      /\ \A i \in 1..Len(asked) :
            /\ asked[i] = Order[i]
            /\ turn.more \/ Empties(turn.slices[Order[i]], Order[i])
  BY <1>4, LenProperties DEF Asked
<1>6. CASE turn.stopped
  <2>1. Consider(turn, t) = turn
    BY <1>6, ConsiderIs
  <2>2. Len(asked) <= k + 1 /\ Len(asked) > 0
    BY <1>5, <1>6
  <2> QED
    BY <1>3, <1>4, <1>5, <1>6, <2>1, <2>2 DEF Asked
<1>7. CASE ~turn.stopped
  <2>1. PICK hard \in 0..Budget : hard = Remaining(turn)
    BY RemainingType
  <2>2. PICK slice \in SliceType :
           slice = Slice(t, hard) /\ (slice.more \/ Empties(slice, t))
    BY SliceOK
  <2>3. PICK next : next = Consider(turn, t)
    OBVIOUS
  <2>4. PICK considered : considered = Append(asked, t)
    OBVIOUS
  <2>5. PICK slices : slices = [turn.slices EXCEPT ![t] = slice]
    OBVIOUS
  <2>6. PICK stopped \in BOOLEAN : next =
            [used |-> turn.used + slice.bytes,
             more |-> turn.more \/ slice.more,
             stopped |-> stopped, done |-> turn.done,
             projected |-> turn.projected,
             considered |-> considered, slices |-> slices]
    BY <1>4, <1>7, <2>1, <2>2, <2>3, <2>4, <2>5, ConsiderIs
  <2>7. PICK more : more = (turn.more \/ slice.more)
    OBVIOUS
  <2>8. /\ next.considered = considered /\ next.slices = slices
        /\ next.more = more
    BY <2>6, <2>7
  <2>9. /\ Len(considered) = Len(asked) + 1
        /\ \A i \in 1..Len(asked) : considered[i] = asked[i]
        /\ considered[Len(asked) + 1] = t
    BY <2>4, AppendProperties
  <2>10. Len(asked) = k /\ Len(considered) = k + 1 /\ Len(considered) > 0
    BY <1>5, <1>7, <2>9
  <2>11. ASSUME NEW i \in 1..(k + 1)
         PROVE  /\ considered[i] = Order[i]
                /\ more \/ Empties(slices[Order[i]], Order[i])
    <3>1. CASE i = k + 1
      <4>1. considered[i] = t /\ Order[i] = t
        BY <1>3, <2>9, <2>10, <3>1
      <4>2. slices[t] = slice
        BY <2>5 DEF TurnType
      <4>3. more \/ Empties(slice, t)
        BY <2>2, <2>7, Zenon
      <4> QED
        BY <4>1, <4>2, <4>3, Zenon
    <3>2. CASE i # k + 1
      <4>1. i \in 1..Len(asked) /\ i \in 1..Len(Order)
        BY <1>1, <1>2, <2>10, <3>2
      <4>2. considered[i] = Order[i]
        BY <1>5, <2>9, <4>1
      <4>3. PICK u \in Subscriptions : u = Order[i] /\ Rank(u) = i - 1
        BY <1>1, <4>1
      <4>4. u # t
        BY <1>3, <3>2, <4>3
      <4>5. slices[u] = turn.slices[u]
        BY <2>5, <4>4 DEF TurnType
      <4>6. turn.more \/ Empties(turn.slices[u], u)
        BY <1>5, <4>1, <4>3
      <4>7. more \/ Empties(slices[u], u)
        BY <2>7, <4>5, <4>6, Zenon
      <4> QED
        BY <4>2, <4>3, <4>7, Zenon
    <3> QED
      BY <3>1, <3>2
  <2>12. Asked(next, k + 1)
    <3>1. /\ Len(next.considered) <= k + 1 /\ Len(next.considered) = k + 1
          /\ Len(next.considered) > 0
      BY <2>8, <2>10
    <3>2. \A i \in 1..Len(next.considered) :
             /\ next.considered[i] = Order[i]
             /\ next.more \/ Empties(next.slices[Order[i]], Order[i])
      BY <2>8, <2>10, <2>11, Zenon
    <3> QED
      BY <3>1, <3>2 DEF Asked
  <2> QED
    BY <1>3, <2>3, <2>12
<1> QED
  BY <1>6, <1>7

(* Asking all of them, one after the other.                                 *)
Asking(turn, f) ==
    f = [n \in 0..Len(Order) |->
            IF n = 0 THEN {turn}
            ELSE {Consider(before, Order[n]) : before \in f[n - 1]}]

(* ConsideredAll as a choice of the function it is defined by ...           *)
LEMMA ConsideredAllIs ==
    ASSUME NEW turn
    PROVE  ConsideredAll(turn) = (CHOOSE f : Asking(turn, f))[Len(Order)]
BY DEF ConsideredAll, Asking

(* ... which exists.                                                        *)
LEMMA AskingExists ==
    ASSUME PollTypeOK, QueuesOK, NEW turn \in TurnType
    PROVE  \E f : /\ ConsideredAll(turn) = f[Len(Order)]
                  /\ f[0] = {turn}
                  /\ \A n \in 1..Len(Order) :
                        f[n] = {Consider(before, Order[n]) :
                                   before \in f[n - 1]}
<1> DEFINE N == Len(Order)
           S == SUBSET TurnType
           base == {turn}
           step == [n \in 1..N |-> [turns \in S |->
                       {Consider(before, Order[n]) : before \in turns}]]
<1>1. /\ N \in Nat /\ \A n \in 1..N : Order[n] \in Subscriptions
  <2>1. wanted \subseteq Subscriptions
    BY DEF PollTypeOK
  <2> QED
    BY <2>1, OrderOK
<1>2. base \in S
  OBVIOUS
<1>3. \A n \in 1..N : \A turns \in S : step[n][turns] =
         {Consider(before, Order[n]) : before \in turns}
  OBVIOUS
<1>4. \A n \in 1..N : \A turns \in S :
         {Consider(before, Order[n]) : before \in turns} \in S
  BY <1>1, ConsiderType
<1> HIDE DEF step, N, S, base
<1>5. Closed(step, N, S)
  BY <1>3, <1>4 DEF Closed
<1>6. PICK f \in [0..N -> S] : Repeats(f, N, base, step)
  BY <1>1, <1>2, <1>5, Recursion
<1>7. f[0] = {turn} /\ \A n \in 1..N :
         f[n] = {Consider(before, Order[n]) : before \in f[n - 1]}
  <2>1. f[0] = base /\ \A n \in 1..N : f[n] = step[n][f[n - 1]]
    BY <1>6 DEF Repeats
  <2>2. \A n \in 1..N : n - 1 \in 0..N /\ f[n - 1] \in S
    BY <1>1, <1>6
  <2> QED
    BY <1>3, <2>1, <2>2 DEF base
<1>8. Asking(turn, f)
  <2>1. f = [n \in 0..N |-> f[n]]
    BY <1>6
  <2>2. \A n \in 0..N : n = 0 \/ n \in 1..N
    BY <1>1
  <2>3. \A n \in 0..N : f[n] =
           IF n = 0 THEN {turn}
           ELSE {Consider(before, Order[n]) : before \in f[n - 1]}
    BY <1>7, <2>2
  <2> QED
    BY <2>1, <2>3 DEF Asking, N
<1>9. PICK g : g = CHOOSE h : Asking(turn, h)
  OBVIOUS
<1>10. Asking(turn, g)
  BY <1>8, <1>9
<1>11. /\ g[0] = {turn}
       /\ \A n \in 1..N : g[n] = {Consider(before, Order[n]) :
                                     before \in g[n - 1]}
  <2>1. \A n \in 0..N : g[n] =
           IF n = 0 THEN {turn}
           ELSE {Consider(before, Order[n]) : before \in g[n - 1]}
    BY <1>10 DEF Asking, N
  <2>2. 0 \in 0..N /\ \A n \in 1..N : n \in 0..N /\ n # 0
    BY <1>1
  <2> QED
    BY <2>1, <2>2
<1>12. ConsideredAll(turn) = g[N]
  BY <1>9, ConsideredAllIs DEF N
<1> QED
  BY <1>11, <1>12 DEF N

(* All of them have been asked, in order, until the response was complete.  *)
LEMMA ConsideredAllOK ==
    ASSUME PollTypeOK, QueuesOK, NEW turn \in TurnType,
           NEW after \in ConsideredAll(turn)
    PROVE  /\ after \in TurnType
           /\ after.done = turn.done /\ after.projected = turn.projected
           /\ turn.more => after.more
           /\ Asked(turn, 0) => Asked(after, Cardinality(wanted))
<1> DEFINE N == Len(Order)
           OK(turns, n) ==
              \A e \in turns :
                 /\ e \in TurnType
                 /\ e.done = turn.done /\ e.projected = turn.projected
                 /\ turn.more => e.more
                 /\ Asked(turn, 0) => Asked(e, n)
<1>1. /\ N \in Nat /\ N = Cardinality(wanted)
      /\ \A n \in 1..N : Order[n] \in Subscriptions
  <2>1. wanted \subseteq Subscriptions
    BY DEF PollTypeOK
  <2> QED
    BY <2>1, OrderOK
<1>2. PICK f : /\ ConsideredAll(turn) = f[N] /\ f[0] = {turn}
               /\ \A n \in 1..N : f[n] = {Consider(before, Order[n]) :
                                             before \in f[n - 1]}
  BY AskingExists
<1>3. \A n \in 0..N : OK(f[n], n)
  <2> DEFINE T == {n \in 0..N : OK(f[n], n)}
  <2>1. 0 \in T
    <3>1. OK({turn}, 0)
      OBVIOUS
    <3> QED
      BY <1>1, <1>2, <3>1
  <2>2. ASSUME NEW n \in Nat, n < N, n \in T PROVE n + 1 \in T
    <3>1. /\ n + 1 \in 1..N /\ n + 1 \in 0..N /\ (n + 1) - 1 = n
      BY <1>1, <2>2
    <3>2. f[n + 1] = {Consider(before, Order[n + 1]) : before \in f[n]}
      BY <1>2, <3>1
    <3>3. OK(f[n], n)
      BY <2>2
    <3>4. ASSUME NEW before \in f[n], NEW e, e = Consider(before, Order[n + 1])
          PROVE  /\ e \in TurnType
                 /\ e.done = turn.done /\ e.projected = turn.projected
                 /\ turn.more => e.more
                 /\ Asked(turn, 0) => Asked(e, n + 1)
      <4>1. before \in TurnType /\ Order[n + 1] \in Subscriptions
        BY <1>1, <3>1, <3>3
      <4>2. /\ e \in TurnType
            /\ e.done = before.done /\ e.projected = before.projected
            /\ before.more => e.more
        BY <3>4, <4>1, ConsiderType
      <4>3. Asked(before, n) => Asked(e, n + 1)
        BY <2>2, <3>4, <4>1, ConsiderAsked
      <4> QED
        BY <3>3, <4>2, <4>3, Zenon
    <3>5. OK(f[n + 1], n + 1)
      BY <3>2, <3>4
    <3> QED
      BY <3>1, <3>5
  <2> HIDE DEF T
  <2>3. 0..N \subseteq T
    BY <1>1, <2>1, <2>2, Induction
  <2> QED
    BY <2>3 DEF T
<1>4. OK(f[N], N)
  BY <1>1, <1>3
<1> QED
  BY <1>1, <1>2, <1>4

-----------------------------------------------------------------------------
(* Taking a channel                                                         *)

(* The terminals had their turn: the first of them were asked, one at least,*)
(* and what any of them could not give is told.                             *)
Served(turn) ==
    /\ Len(turn.considered) <= Cardinality(wanted)
    /\ wanted # {} => Len(turn.considered) > 0
    /\ \A i \in 1..Len(turn.considered) : turn.considered[i] = Order[i]
    /\ \A t \in wanted : turn.more \/ SentAll(turn, t)

TurnOK(turn) ==
    /\ "terminals" \notin turn.done => Asked(turn, 0)
    /\ "terminals" \in turn.done => Served(turn)
    /\ \A p \in Projections :
          p \in turn.done => p \notin stale \/ p \in turn.projected \/ turn.more

(* What another channel leaves alone, or adds to.                           *)
Follows(turn, after) ==
    /\ after.stopped = turn.stopped /\ after.considered = turn.considered
    /\ after.slices = turn.slices
    /\ turn.projected \subseteq after.projected
    /\ turn.more => after.more

(* What the terminals gave is not affected by another channel.              *)
LEMMA FollowsKeeps ==
    ASSUME NEW turn, NEW after, Follows(turn, after)
    PROVE  /\ Asked(turn, 0) => Asked(after, 0)
           /\ Served(turn) => Served(after)
<1>1. Asked(turn, 0) => Asked(after, 0)
  BY Zenon DEF Follows, Asked
<1>2. Served(turn) => Served(after)
  BY Zenon DEF Follows, Served, SentAll
<1> QED
  BY <1>1, <1>2

(* A projection goes out, is not needed, or has its delay told; it goes out *)
(* when it has the whole budget.                                            *)
LEMMA ProjectOK ==
    ASSUME NEW turn \in TurnType, NEW p \in Projections
    PROVE  /\ Project(turn, p) \in TurnType
           /\ Follows(turn, Project(turn, p))
           /\ Project(turn, p).done = turn.done
           /\ \/ p \notin stale \/ p \in Project(turn, p).projected
              \/ Project(turn, p).more
           /\ Remaining(turn) = Budget =>
                 p \notin stale \/ p \in Project(turn, p).projected
<1>1. PICK size \in 1..Budget : size = ProjectionSize[p]
  BY ProjectionAssumption
<1>2. PICK room \in 0..Budget :
         room = Remaining(turn) /\ turn.used + room <= Budget
  BY RemainingType
<1>3. turn = [used |-> turn.used, more |-> turn.more,
              stopped |-> turn.stopped, done |-> turn.done,
              projected |-> turn.projected, considered |-> turn.considered,
              slices |-> turn.slices]
  BY DEF TurnType
<1>4. /\ turn.used \in 0..Budget /\ turn.stopped \in BOOLEAN
      /\ turn.more \in BOOLEAN /\ turn.done \in SUBSET Channels
      /\ turn.projected \in SUBSET Projections
      /\ turn.considered \in Seq(Subscriptions)
      /\ turn.slices \in [Subscriptions -> SliceType]
  BY DEF TurnType
<1>5. CASE p \notin stale
  <2>1. Project(turn, p) = turn
    BY <1>5 DEF Project
  <2> QED
    BY <1>5, <2>1 DEF Follows
<1>6. CASE p \in stale /\ size > room
  <2>1. Project(turn, p) =
           [used |-> turn.used, more |-> TRUE,
            stopped |-> turn.stopped, done |-> turn.done,
            projected |-> turn.projected, considered |-> turn.considered,
            slices |-> turn.slices]
    BY <1>1, <1>2, <1>3, <1>6 DEF Project
  <2>2. Project(turn, p) \in TurnType
    BY <1>4, <2>1 DEF TurnType
  <2>3. room # Budget
    BY <1>1, <1>2, <1>6, PollAssumption
  <2> QED
    BY <1>2, <2>1, <2>2, <2>3 DEF Follows
<1>7. CASE p \in stale /\ ~(size > room)
  <2>1. PICK used : used = turn.used + size
    OBVIOUS
  <2>2. used \in 0..Budget
    BY <1>1, <1>2, <1>4, <1>7, <2>1, PollAssumption
  <2>3. Project(turn, p) =
           [used |-> used, more |-> turn.more,
            stopped |-> turn.stopped, done |-> turn.done,
            projected |-> turn.projected \cup {p},
            considered |-> turn.considered, slices |-> turn.slices]
    BY <1>1, <1>2, <1>3, <1>7, <2>1 DEF Project
  <2>4. Project(turn, p) \in TurnType
    BY <1>4, <2>2, <2>3 DEF TurnType
  <2>5. Project(turn, p).more = turn.more
    BY <2>3
  <2> QED
    BY <2>3, <2>4, <2>5 DEF Follows
<1> QED
  BY <1>1, <1>2, <1>5, <1>6, <1>7

(* The terminals have their turn: those that were not asked are told of.    *)
LEMMA ConsiderAllOK ==
    ASSUME PollTypeOK, QueuesOK, NEW turn \in TurnType,
           NEW after \in ConsiderAll(turn)
    PROVE  /\ after \in TurnType
           /\ after.done = turn.done /\ after.projected = turn.projected
           /\ turn.more => after.more
           /\ Asked(turn, 0) => Served(after)
<1> DEFINE N == Cardinality(wanted)
<1>1. PICK all \in ConsideredAll(turn) :
         after = [all EXCEPT !.more = @ \/ Len(all.considered) < N]
  BY DEF ConsiderAll
<1>2. /\ all \in TurnType
      /\ all.done = turn.done /\ all.projected = turn.projected
      /\ turn.more => all.more
      /\ Asked(turn, 0) => Asked(all, N)
  BY ConsideredAllOK
<1>3. PICK more \in BOOLEAN : more = (all.more \/ Len(all.considered) < N)
  OBVIOUS
<1>4. /\ all.used \in 0..Budget /\ all.stopped \in BOOLEAN
      /\ all.more \in BOOLEAN /\ all.done \in SUBSET Channels
      /\ all.projected \in SUBSET Projections
      /\ all.considered \in Seq(Subscriptions)
      /\ all.slices \in [Subscriptions -> SliceType]
  BY <1>2 DEF TurnType
<1>5. after = [used |-> all.used, more |-> more,
               stopped |-> all.stopped, done |-> all.done,
               projected |-> all.projected,
               considered |-> all.considered, slices |-> all.slices]
  <2>1. all = [used |-> all.used, more |-> all.more,
               stopped |-> all.stopped, done |-> all.done,
               projected |-> all.projected,
               considered |-> all.considered, slices |-> all.slices]
    BY <1>2 DEF TurnType
  <2> QED
    BY <1>1, <1>3, <2>1
<1>6. /\ after.done = turn.done /\ after.projected = turn.projected
      /\ after.considered = all.considered /\ after.slices = all.slices
      /\ after.more = more
  BY <1>2, <1>5
<1>7. after \in TurnType
  BY <1>4, <1>5 DEF TurnType
<1>8. turn.more => after.more
  BY <1>2, <1>3, <1>6, Zenon
<1>9. ASSUME Asked(all, N) PROVE Served(after)
  <2>1. /\ N \in Nat /\ Len(all.considered) \in Nat
        /\ wanted # {} => N > 0
    <3>1. IsFiniteSet(wanted) /\ N \in Nat
      BY OrderOK
    <3>2. wanted # {} => N # 0
      BY <3>1, FS_EmptySet
    <3> QED
      BY <1>4, <3>1, <3>2, LenProperties
  <2>2. /\ Len(all.considered) <= N
        /\ all.stopped \/ Len(all.considered) = N
        /\ all.stopped => Len(all.considered) > 0
        /\ \A i \in 1..Len(all.considered) :
              /\ all.considered[i] = Order[i]
              /\ all.more \/ Empties(all.slices[Order[i]], Order[i])
    BY <1>9 DEF Asked
  <2> HIDE DEF N
  <2>3. wanted # {} => Len(all.considered) > 0
    BY <2>1, <2>2
  <2>4. ASSUME NEW t \in wanted PROVE after.more \/ SentAll(after, t)
    <3>1. CASE Len(all.considered) < N
      BY <1>3, <1>6, <3>1, Zenon
    <3>2. CASE ~(Len(all.considered) < N)
      <4>1. Rank(t) \in 0..(N - 1) /\ Order[Rank(t) + 1] = t
        BY OrderOK, RankOrders DEF N
      <4>2. Rank(t) + 1 \in 1..Len(all.considered)
        BY <2>1, <2>2, <3>2, <4>1
      <4>3. all.more \/ Empties(all.slices[t], t)
        BY <2>2, <4>1, <4>2
      <4>4. Empties(all.slices[t], t) => SentAll(after, t)
        BY <1>6 DEF Empties, SentAll
      <4> QED
        BY <1>3, <1>6, <4>3, <4>4, Zenon
    <3> QED
      BY <3>1, <3>2
  <2>5. \A i \in 1..Len(all.considered) : all.considered[i] = Order[i]
    BY <2>2
  <2> QED
    BY <1>6, <2>2, <2>3, <2>4, <2>5 DEF Served, N
<1> QED
  BY <1>2, <1>6, <1>7, <1>8, <1>9

(* Every channel has its turn once; the first one has the whole budget.     *)
LEMMA TakeChannelOK ==
    ASSUME PollTypeOK, QueuesOK, NEW turn \in TurnType,
           NEW channel \in Channels, NEW after \in TakeChannel(turn, channel)
    PROVE  /\ after \in TurnType
           /\ after.done = turn.done \cup {channel}
           /\ turn.projected \subseteq after.projected
           /\ TurnOK(turn) => TurnOK(after)
           /\ Remaining(turn) = Budget /\ channel # "terminals"
                 /\ channel \notin turn.done
              => channel \notin stale \/ channel \in after.projected
<1>1. CASE channel \in turn.done
  <2>1. after = turn
    BY <1>1 DEF TakeChannel
  <2> QED
    BY <1>1, <2>1
<1>2. CASE channel \notin turn.done
  <2>1. PICK begun : begun = [turn EXCEPT !.done = @ \cup {channel}]
    OBVIOUS
  <2>2. /\ begun \in TurnType /\ begun.done = turn.done \cup {channel}
        /\ Follows(turn, begun) /\ begun.projected = turn.projected
        /\ begun.used = turn.used /\ begun.more = turn.more
    BY <2>1 DEF TurnType, Follows
  <2>3. Remaining(begun) = Remaining(turn)
    BY <2>2 DEF Remaining
  <2>4. CASE channel = "terminals"
    <3>1. after \in ConsiderAll(begun)
      BY <1>2, <2>1, <2>4 DEF TakeChannel
    <3>2. /\ after \in TurnType /\ after.done = begun.done
          /\ after.projected = begun.projected
          /\ begun.more => after.more
          /\ Asked(begun, 0) => Served(after)
      BY <2>2, <3>1, ConsiderAllOK
    <3>3. ASSUME TurnOK(turn) PROVE TurnOK(after)
      <4>1. Asked(turn, 0)
        BY <1>2, <2>4, <3>3 DEF TurnOK
      <4>2. Served(after)
        BY <2>2, <3>2, <4>1, FollowsKeeps
      <4>3. ASSUME NEW p \in Projections, p \in after.done
            PROVE  p \notin stale \/ p \in after.projected \/ after.more
        <5>1. p # "terminals"
          BY DEF Projections
        <5>2. p \in turn.done
          BY <2>2, <2>4, <3>2, <4>3, <5>1
        <5>3. p \notin stale \/ p \in turn.projected \/ turn.more
          BY <3>3, <5>2 DEF TurnOK
        <5> QED
          BY <2>2, <3>2, <5>3, Zenon
      <4>4. "terminals" \in after.done
        BY <2>2, <2>4, <3>2
      <4> QED
        BY <4>2, <4>3, <4>4 DEF TurnOK
    <3> QED
      BY <2>2, <2>4, <3>2, <3>3
  <2>5. CASE channel # "terminals"
    <3>1. after = Project(begun, channel) /\ channel \in Projections
      BY <1>2, <2>1, <2>5 DEF TakeChannel, Channels, Projections
    <3>2. /\ after \in TurnType /\ Follows(begun, after)
          /\ after.done = begun.done
          /\ channel \notin stale \/ channel \in after.projected \/ after.more
          /\ Remaining(begun) = Budget =>
                channel \notin stale \/ channel \in after.projected
      BY <2>2, <3>1, ProjectOK
    <3>3. turn.projected \subseteq after.projected /\ (turn.more => after.more)
      BY <2>2, <3>2, Zenon DEF Follows
    <3>4. ASSUME TurnOK(turn) PROVE TurnOK(after)
      <4>1. /\ "terminals" \notin turn.done => Asked(after, 0)
            /\ "terminals" \in turn.done => Served(after)
        BY <2>2, <3>2, <3>4, FollowsKeeps DEF TurnOK
      <4>2. "terminals" \in after.done <=> "terminals" \in turn.done
        BY <2>2, <2>5, <3>2
      <4>3. ASSUME NEW p \in Projections, p \in after.done
            PROVE  p \notin stale \/ p \in after.projected \/ after.more
        <5>1. CASE p = channel
          BY <3>2, <5>1, Zenon
        <5>2. CASE p # channel
          <6>1. p \in turn.done
            BY <2>2, <3>2, <4>3, <5>2
          <6>2. p \notin stale \/ p \in turn.projected \/ turn.more
            BY <3>4, <6>1 DEF TurnOK
          <6> QED
            BY <3>3, <6>2, Zenon
        <5> QED
          BY <5>1, <5>2
      <4> QED
        BY <4>1, <4>2, <4>3 DEF TurnOK
    <3> QED
      BY <2>2, <2>3, <3>2, <3>3, <3>4
  <2> QED
    BY <2>4, <2>5
<1> QED
  BY <1>1, <1>2

(* An empty response is one.                                                *)
LEMMA NewTurnOK == NewTurn \in TurnType /\ TurnOK(NewTurn)
<1>1. NoSlice \in SliceType
  BY DEF NoSlice, SliceType
<1>2. Len(<<>>) = 0 /\ <<>> \in Seq(Subscriptions)
  BY EmptySeq
<1>3. Budget \in Nat
  BY PollAssumption
<1>4. NewTurn \in TurnType
  BY <1>1, <1>2, <1>3 DEF NewTurn, TurnType
<1>5. Asked(NewTurn, 0)
  BY <1>2 DEF NewTurn, Asked
<1>6. NewTurn.done = {}
  BY DEF NewTurn
<1> QED
  BY <1>4, <1>5, <1>6 DEF TurnOK

-----------------------------------------------------------------------------
(* The whole response                                                       *)

(* The n-th channel of this response.                                       *)
Channel(n) == WeightedChannels[((schedule.channel + n - 1)
                                   % Len(WeightedChannels)) + 1]

Building(f) ==
    f = [n \in 0..Len(WeightedChannels) |->
            IF n = 0 THEN {NewTurn}
            ELSE UNION {TakeChannel(before, Channel(n)) :
                           before \in f[n - 1]}]

(* Build as a choice of the function it is defined by ...                   *)
LEMMA BuildIs == Build = (CHOOSE f : Building(f))[Len(WeightedChannels)]
BY DEF Build, Building, Channel

(* Four turns; between them every channel has its own.                      *)
LEMMA ChannelsOK ==
    ASSUME PollTypeOK
    PROVE  /\ Len(WeightedChannels) = 4
           /\ \A n \in 1..4 : Channel(n) \in Channels
           /\ {Channel(n) : n \in 1..4} = Channels
           /\ schedule.channel \in 0..3
           /\ schedule.channel = 1 => Channel(1) = "topology"
           /\ schedule.channel = 3 => Channel(1) = "agents"
<1>1. Len(WeightedChannels) = 4
  BY DEF WeightedChannels
<1>2. schedule.channel \in 0..3
  BY DEF PollTypeOK, Schedule
<1>3. /\ WeightedChannels[1] = "terminals" /\ WeightedChannels[2] = "topology"
      /\ WeightedChannels[3] = "terminals" /\ WeightedChannels[4] = "agents"
  BY DEF WeightedChannels
<1>4. PICK c \in 0..3 : c = schedule.channel
  BY <1>2
<1>5. \A n \in 1..4 : Channel(n) = WeightedChannels[((c + n - 1) % 4) + 1]
  BY <1>1, <1>4 DEF Channel
<1>6. \A n \in 1..4 : (c + n - 1) % 4 =
         IF c + n - 1 < 4 THEN c + n - 1 ELSE c + n - 5
  OBVIOUS
<1>7. \A n \in 1..4 : Channel(n) =
         WeightedChannels[IF c + n - 1 < 4 THEN c + n ELSE c + n - 4]
  <2> TAKE n \in 1..4
  <2>1. ((c + n - 1) % 4) + 1 = IF c + n - 1 < 4 THEN c + n ELSE c + n - 4
    BY <1>6
  <2> QED
    BY <1>5, <2>1
<1>8. CASE c = 0
  <2>1. /\ Channel(1) = "terminals" /\ Channel(2) = "topology"
        /\ Channel(3) = "terminals" /\ Channel(4) = "agents"
    BY <1>3, <1>7, <1>8
  <2> QED
    BY <1>1, <1>4, <1>8, <2>1 DEF Channels
<1>9. CASE c = 1
  <2>1. /\ Channel(1) = "topology" /\ Channel(2) = "terminals"
        /\ Channel(3) = "agents" /\ Channel(4) = "terminals"
    BY <1>3, <1>7, <1>9
  <2> QED
    BY <1>1, <1>4, <1>9, <2>1 DEF Channels
<1>10. CASE c = 2
  <2>1. /\ Channel(1) = "terminals" /\ Channel(2) = "agents"
        /\ Channel(3) = "terminals" /\ Channel(4) = "topology"
    BY <1>3, <1>7, <1>10
  <2> QED
    BY <1>1, <1>4, <1>10, <2>1 DEF Channels
<1>11. CASE c = 3
  <2>1. /\ Channel(1) = "agents" /\ Channel(2) = "terminals"
        /\ Channel(3) = "topology" /\ Channel(4) = "terminals"
    BY <1>3, <1>7, <1>11
  <2> QED
    BY <1>1, <1>4, <1>11, <2>1 DEF Channels
<1> QED
  BY <1>4, <1>8, <1>9, <1>10, <1>11

(* ... which exists.                                                        *)
LEMMA BuildingExists ==
    ASSUME PollTypeOK, QueuesOK
    PROVE  \E f : /\ Build = f[4] /\ f[0] = {NewTurn}
                  /\ \A n \in 1..4 :
                        f[n] = UNION {TakeChannel(before, Channel(n)) :
                                         before \in f[n - 1]}
<1> DEFINE S == SUBSET TurnType
           base == {NewTurn}
           step == [n \in 1..4 |-> [turns \in S |->
                       UNION {TakeChannel(before, Channel(n)) :
                                 before \in turns}]]
<1>1. base \in S
  BY NewTurnOK
<1>2. \A n \in 1..4 : \A turns \in S : step[n][turns] =
         UNION {TakeChannel(before, Channel(n)) : before \in turns}
  OBVIOUS
<1>3. ASSUME NEW n \in 1..4, NEW turns \in S
      PROVE  UNION {TakeChannel(before, Channel(n)) : before \in turns} \in S
  <2>1. Channel(n) \in Channels
    BY ChannelsOK
  <2>2. \A before \in turns : \A after \in TakeChannel(before, Channel(n)) :
           after \in TurnType
    BY <2>1, TakeChannelOK
  <2> QED
    BY <2>2
<1> HIDE DEF step, S, base
<1>4. Closed(step, 4, S)
  BY <1>2, <1>3 DEF Closed
<1>5. PICK f \in [0..4 -> S] : Repeats(f, 4, base, step)
  <2>1. 4 \in Nat
    OBVIOUS
  <2> QED
    BY <1>1, <1>4, <2>1, Recursion
<1>6. f[0] = {NewTurn} /\ \A n \in 1..4 :
         f[n] = UNION {TakeChannel(before, Channel(n)) : before \in f[n - 1]}
  <2>1. f[0] = base /\ \A n \in 1..4 : f[n] = step[n][f[n - 1]]
    BY <1>5 DEF Repeats
  <2>2. \A n \in 1..4 : n - 1 \in 0..4 /\ f[n - 1] \in S
    BY <1>5
  <2> QED
    BY <1>2, <2>1, <2>2 DEF base
<1>7. Building(f)
  <2>1. f = [n \in 0..4 |-> f[n]]
    BY <1>5
  <2>2. \A n \in 0..4 : n = 0 \/ n \in 1..4
    OBVIOUS
  <2>3. \A n \in 0..4 : f[n] =
           IF n = 0 THEN {NewTurn}
           ELSE UNION {TakeChannel(before, Channel(n)) :
                          before \in f[n - 1]}
    BY <1>6, <2>2
  <2>4. Len(WeightedChannels) = 4
    BY ChannelsOK
  <2> QED
    BY <2>1, <2>3, <2>4 DEF Building
<1>8. PICK g : g = CHOOSE h : Building(h)
  OBVIOUS
<1>9. Building(g) /\ Len(WeightedChannels) = 4
  BY <1>7, <1>8, ChannelsOK
<1>10. \A n \in 0..4 : g[n] =
         IF n = 0 THEN {NewTurn}
         ELSE UNION {TakeChannel(before, Channel(n)) : before \in g[n - 1]}
  BY <1>9 DEF Building
<1>11. g[0] = {NewTurn} /\ \A n \in 1..4 :
         g[n] = UNION {TakeChannel(before, Channel(n)) : before \in g[n - 1]}
  <2>1. 0 \in 0..4 /\ \A n \in 1..4 : n \in 0..4 /\ n # 0
    OBVIOUS
  <2> QED
    BY <1>10, <2>1
<1>12. Build = g[4]
  BY <1>8, <1>9, BuildIs
<1> QED
  BY <1>11, <1>12

(* A response is within the budget; its terminals were asked in order; it   *)
(* has everything or says that it has not; and it carries the projection    *)
(* whose turn was first.                                                    *)
LEMMA BuildOK ==
    ASSUME PollTypeOK, QueuesOK, NEW turn \in Build
    PROVE  /\ turn \in TurnType /\ Served(turn)
           /\ \A p \in stale : p \in turn.projected \/ turn.more
           /\ \A p \in stale : Channel(1) = p => p \in turn.projected
<1> DEFINE OK(e, n) ==
              /\ e \in TurnType /\ TurnOK(e)
              /\ \A m \in 1..n : Channel(m) \in e.done
              /\ Channel(1) # "terminals" =>
                    Channel(1) \notin stale \/ Channel(1) \in e.projected
<1>1. PICK f : /\ Build = f[4] /\ f[0] = {NewTurn}
               /\ \A n \in 1..4 :
                     f[n] = UNION {TakeChannel(before, Channel(n)) :
                                      before \in f[n - 1]}
  BY BuildingExists
<1>2. \A n \in 1..4 : Channel(n) \in Channels
  BY ChannelsOK
<1>3. \A e \in f[1] : OK(e, 1)
  <2> TAKE e \in f[1]
  <2>1. f[1] = UNION {TakeChannel(before, Channel(1)) : before \in f[0]}
    <3>1. 1 \in 1..4 /\ 1 - 1 = 0
      OBVIOUS
    <3> QED
      BY <1>1, <3>1
  <2>2. e \in TakeChannel(NewTurn, Channel(1)) /\ Channel(1) \in Channels
    BY <1>1, <1>2, <2>1
  <2>3. Remaining(NewTurn) = Budget
    BY PollAssumption DEF Remaining, NewTurn
  <2>4. NewTurn.done = {}
    BY DEF NewTurn
  <2>5. /\ e \in TurnType /\ TurnOK(e) /\ Channel(1) \in e.done
        /\ Channel(1) # "terminals" =>
              Channel(1) \notin stale \/ Channel(1) \in e.projected
    BY <2>2, <2>3, <2>4, NewTurnOK, TakeChannelOK
  <2>6. \A m \in 1..1 : m = 1
    OBVIOUS
  <2> QED
    BY <2>5, <2>6
<1>4. ASSUME NEW n \in 1..3, \A e \in f[n] : OK(e, n)
      PROVE  \A e \in f[n + 1] : OK(e, n + 1)
  <2> TAKE e \in f[n + 1]
  <2>1. n + 1 \in 1..4 /\ (n + 1) - 1 = n
    OBVIOUS
  <2>2. PICK before \in f[n] : e \in TakeChannel(before, Channel(n + 1))
    BY <1>1, <2>1
  <2>3. /\ before \in TurnType /\ TurnOK(before)
        /\ \A m \in 1..n : Channel(m) \in before.done
        /\ Channel(1) # "terminals" =>
              Channel(1) \notin stale \/ Channel(1) \in before.projected
    BY <1>4
  <2>4. /\ e \in TurnType /\ TurnOK(e)
        /\ e.done = before.done \cup {Channel(n + 1)}
        /\ before.projected \subseteq e.projected
    BY <1>2, <2>1, <2>2, <2>3, TakeChannelOK
  <2>5. \A m \in 1..(n + 1) : m = n + 1 \/ m \in 1..n
    OBVIOUS
  <2>6. \A m \in 1..(n + 1) : Channel(m) \in e.done
    BY <2>3, <2>4, <2>5
  <2> QED
    BY <2>3, <2>4, <2>6
<1>5. \A e \in f[2] : OK(e, 2)
  <2>1. \A e \in f[1 + 1] : OK(e, 1 + 1)
    <3> HIDE DEF OK
    <3> QED
      BY <1>3, <1>4
  <2> QED
    BY <2>1
<1>6. \A e \in f[3] : OK(e, 3)
  <2>1. \A e \in f[2 + 1] : OK(e, 2 + 1)
    <3> HIDE DEF OK
    <3> QED
      BY <1>5, <1>4
  <2> QED
    BY <2>1
<1>7. \A e \in f[4] : OK(e, 4)
  <2>1. \A e \in f[3 + 1] : OK(e, 3 + 1)
    <3> HIDE DEF OK
    <3> QED
      BY <1>6, <1>4
  <2> QED
    BY <2>1
<1>8. OK(turn, 4)
  BY <1>1, <1>7
<1>9. Channels \subseteq turn.done
  BY <1>8, ChannelsOK
<1>10. stale \subseteq Projections
  BY DEF PollTypeOK
<1>11. "terminals" \in Channels /\ Projections \subseteq Channels
       /\ "terminals" \notin Projections
  BY DEF Channels, Projections
<1>12. \A p \in stale : p \in turn.projected \/ turn.more
  BY <1>8, <1>9, <1>10, <1>11 DEF TurnOK
<1>13. \A p \in stale : Channel(1) = p => p \in turn.projected
  BY <1>8, <1>10, <1>11
<1>14. Served(turn)
  BY <1>8, <1>9, <1>11 DEF TurnOK
<1> QED
  BY <1>8, <1>12, <1>13, <1>14

-----------------------------------------------------------------------------
(* Turns                                                                    *)

AheadFrom(a, t) == {u \in Subscriptions : From(a, u, t)}

(* Who is ahead depends on the schedule only, now and after a step.         *)
LEMMA AheadIs ==
    /\ \A t : Ahead(t) = AheadFrom(schedule.next, t)
    /\ \A t : Ahead(t)' = AheadFrom(schedule.next', t)
BY DEF Ahead, Before, AheadFrom, From

(* There are finitely many subscriptions, and they are numbers.             *)
LEMMA SubscriptionsAre ==
    /\ \A t \in Subscriptions : t \in Nat
    /\ IsFiniteSet(Subscriptions) /\ Cardinality(Subscriptions) \in Nat
<1>1. \A t \in Subscriptions : t \in Nat
  BY PollAssumption, Zenon
<1>2. IsFiniteSet(Subscriptions)
  BY PollAssumption
<1> QED
  BY <1>1, <1>2, FS_CardinalityType

(* Not all are before one of them.                                          *)
LEMMA AheadType ==
    ASSUME NEW a \in Nat, NEW t \in Subscriptions
    PROVE  /\ AheadFrom(a, t) \in SUBSET Subscriptions
           /\ IsFiniteSet(AheadFrom(a, t))
           /\ Cardinality(AheadFrom(a, t)) \in Nat
           /\ Cardinality(AheadFrom(a, t)) < Cardinality(Subscriptions)
<1>1. AheadFrom(a, t) \in SUBSET Subscriptions
  BY DEF AheadFrom
<1>2. t \in Nat /\ ~From(a, t, t)
  BY SubscriptionsAre, FromOrders
<1>3. t \notin AheadFrom(a, t)
  BY <1>2 DEF AheadFrom
<1>4. AheadFrom(a, t) # Subscriptions
  BY <1>3
<1>5. IsFiniteSet(Subscriptions)
  BY SubscriptionsAre
<1> QED
  BY <1>1, <1>4, <1>5, FS_Subset, FS_CardinalityType

(* The turn moves past u, and not past t: there are fewer before t.         *)
LEMMA AheadFewer ==
    ASSUME NEW a \in Nat, NEW s \in Subscriptions, NEW t \in Subscriptions,
           NEW u \in Subscriptions, s = t \/ From(a, s, t), From(a, u, s)
    PROVE  Cardinality(AheadFrom(s, t)) < Cardinality(AheadFrom(a, t))
<1>1. s \in Nat /\ t \in Nat /\ u \in Nat
  BY SubscriptionsAre
<1>2. /\ \A x \in Nat : From(s, x, t) => From(a, x, t)
      /\ From(a, u, t) /\ ~From(s, u, t)
  BY <1>1, FromMoves
<1>3. AheadFrom(s, t) \subseteq AheadFrom(a, t)
  BY <1>2, SubscriptionsAre DEF AheadFrom
<1>4. u \in AheadFrom(a, t) /\ u \notin AheadFrom(s, t)
  BY <1>2 DEF AheadFrom
<1>5. AheadFrom(s, t) # AheadFrom(a, t)
  BY <1>4
<1>6. /\ IsFiniteSet(AheadFrom(a, t))
      /\ Cardinality(AheadFrom(a, t)) \in Nat
      /\ Cardinality(AheadFrom(s, t)) \in Nat
  BY <1>1, AheadType
<1> QED
  BY <1>3, <1>5, <1>6, FS_Subset

(* The next subscription is a number.                                       *)
LEMMA NextType ==
    ASSUME PollTypeOK
    PROVE  schedule.next \in Nat
<1>1. schedule.next \in Subscriptions \cup {0}
  BY DEF PollTypeOK, Schedule
<1>2. CASE schedule.next \in Subscriptions
  BY <1>2, SubscriptionsAre
<1>3. CASE schedule.next = 0
  BY <1>3
<1> QED
  BY <1>1, <1>2, <1>3

(* The next response begins with the first that was not asked.              *)
LEMMA NextTerminalOK ==
    ASSUME PollTypeOK, NEW turn \in TurnType, Served(turn)
    PROVE  /\ NextTerminal(turn) \in Subscriptions \cup {0}
           /\ \A t \in wanted \ ToSet(turn.considered) :
                 Cardinality(AheadFrom(NextTerminal(turn), t))
                    < Cardinality(AheadFrom(schedule.next, t))
<1>1. CASE wanted = {}
  BY <1>1 DEF NextTerminal, PollTypeOK, Schedule
<1>2. CASE wanted # {}
  <2>1. PICK N \in Nat : N = Cardinality(wanted)
    BY OrderOK
  <2>2. N > 0
    BY <1>2, <2>1, OrderOK, FS_EmptySet
  <2>3. PICK asked \in Seq(Subscriptions) : asked = turn.considered
    BY DEF TurnType
  <2>4. PICK m \in Nat : m = Len(asked)
    BY LenProperties
  <2>5. m <= N /\ m > 0 /\ \A i \in 1..m : asked[i] = Order[i]
    BY <1>2, <2>1, <2>3, <2>4 DEF Served
  <2>6. PICK s : s = NextTerminal(turn)
    OBVIOUS
  <2>7. s = Order[(m % N) + 1]
    BY <1>2, <2>1, <2>3, <2>4, <2>6 DEF NextTerminal
  <2>8. /\ \A n \in 1..N : Order[n] \in wanted /\ Rank(Order[n]) = n - 1
        /\ \A t \in wanted : Order[Rank(t) + 1] = t
        /\ \A t \in wanted : Rank(t) \in 0..(N - 1)
    BY <2>1, OrderOK, RankOrders
  <2>9. m % N \in 0..(N - 1)
    BY <2>2
  <2>10. (m % N) + 1 \in 1..N
    BY <2>2, <2>9
  <2>11. s \in wanted /\ wanted \subseteq Subscriptions
    BY <2>7, <2>8, <2>10 DEF PollTypeOK
  <2>12. ASSUME NEW t \in wanted \ ToSet(asked)
         PROVE  Cardinality(AheadFrom(s, t))
                   < Cardinality(AheadFrom(schedule.next, t))
    <3>1. PICK r \in 0..(N - 1) : r = Rank(t) /\ Order[r + 1] = t
      BY <2>8
    <3>2. ~(r < m)
      <4>1. ASSUME r < m PROVE FALSE
        <5>1. r + 1 \in 1..m
          BY <2>5, <4>1
        <5>2. asked[r + 1] = t
          BY <2>5, <3>1, <5>1
        <5>3. DOMAIN asked = 1..m
          BY <2>4, LenProperties
        <5>4. t \in ToSet(asked)
          BY <5>1, <5>2, <5>3 DEF ToSet
        <5> QED
          BY <5>4
      <4> QED
        BY <4>1
    <3>3. m < N /\ m <= r
      BY <2>2, <2>5, <3>2
    <3>4. m % N = m
      BY <2>2, <3>3
    <3>5. s = Order[m + 1] /\ m + 1 \in 1..N /\ (m + 1) - 1 = m
      BY <2>7, <3>3, <3>4
    <3>6. Rank(s) = m
      BY <2>8, <3>5
    <3>7. s = t \/ Before(s, t)
      <4>1. t \in wanted /\ (Rank(s) = Rank(t) \/ Rank(s) < Rank(t))
        BY <3>1, <3>3, <3>6
      <4> QED
        BY <2>11, <4>1, RankOrders
    <3>8. PICK u \in wanted : u = Order[1] /\ Rank(u) = 0
      <4>1. 1 \in 1..N /\ 1 - 1 = 0
        BY <2>2
      <4> QED
        BY <2>8, <4>1
    <3>9. Before(u, s)
      <4>1. Rank(u) < Rank(s)
        BY <2>5, <3>6, <3>8
      <4> QED
        BY <2>11, <4>1, RankOrders
    <3>10. /\ s \in Subscriptions /\ t \in Subscriptions
           /\ u \in Subscriptions /\ schedule.next \in Nat
      BY <2>11, NextType
    <3> QED
      BY <3>7, <3>9, <3>10, BeforeIsFrom, AheadFewer
  <2> QED
    BY <2>3, <2>6, <2>11, <2>12
<1> QED
  BY <1>1, <1>2

-----------------------------------------------------------------------------
(* A poll                                                                   *)

(* A poll keeps the types, and the response is within the budget.           *)
LEMMA PollTypes ==
    ASSUME Inv, NEW turn \in Build, Apply(turn)
    PROVE  PollTypeOK'
<1>1. PollTypeOK /\ QueuesOK
  BY DEF Inv
<1>2. turn \in TurnType /\ Served(turn)
  BY <1>1, BuildOK
<1>3. /\ turn.used \in 0..Budget /\ turn.more \in BOOLEAN
      /\ turn.slices \in [Subscriptions -> SliceType]
  BY <1>2 DEF TurnType
<1>4. (wanted \subseteq Subscriptions /\ resync \subseteq wanted)'
  BY <1>1 DEF Apply, PollTypeOK
<1>5. (queue \in [Subscriptions -> Seq(EventSizes)])'
  <2>1. \A t \in Subscriptions :
           SubSeq(queue[t], turn.slices[t].sent + 1, Len(queue[t]))
              \in Seq(EventSizes)
    <3> TAKE t \in Subscriptions
    <3>1. PICK q \in Seq(EventSizes) : q = queue[t]
      BY <1>1, QueueType
    <3>2. PICK n \in Nat : n = turn.slices[t].sent
      BY <1>3 DEF SliceType
    <3>3. PICK m \in Nat : m = Len(q)
      BY LenProperties
    <3>4. \A i \in (n + 1)..m : q[i] \in EventSizes
      <4> TAKE i \in (n + 1)..m
      <4>1. i \in 1..Len(q)
        BY <3>3
      <4> QED
        BY <4>1, ElementOfSeq
    <3>5. n + 1 \in Int /\ m \in Int
      OBVIOUS
    <3>6. SubSeq(q, n + 1, m) \in Seq(EventSizes)
      BY <3>4, <3>5, SubSeqProperties
    <3> QED
      BY <3>1, <3>2, <3>3, <3>6
  <2> QED
    BY <2>1 DEF Apply
<1>6. (stale \subseteq Projections)'
  BY <1>1 DEF Apply, PollTypeOK
<1>7. (schedule \in Schedule)'
  <2>1. NextTerminal(turn) \in Subscriptions \cup {0}
    BY <1>1, <1>2, NextTerminalOK
  <2>2. NextChannel \in 0..3
    <3>1. PICK c \in 0..3 : c = schedule.channel
      BY <1>1, ChannelsOK
    <3>2. NextChannel = (c + 1) % 4
      BY <1>1, <3>1, ChannelsOK DEF NextChannel
    <3>3. (c + 1) % 4 \in 0..3
      OBVIOUS
    <3> QED
      BY <3>2, <3>3
  <2> QED
    BY <2>1, <2>2 DEF Apply, Schedule
<1>8. (response \in [bytes : 0..Budget, more : BOOLEAN, all : BOOLEAN])'
  <2>1. PICK all \in BOOLEAN : all = (/\ stale \subseteq turn.projected
                                      /\ \A t \in wanted : SentAll(turn, t))
    OBVIOUS
  <2>2. response' = [bytes |-> turn.used, more |-> turn.more, all |-> all]
    BY <2>1 DEF Apply
  <2> QED
    BY <1>3, <2>2
<1>9. (skipped \in [Subscriptions -> Nat])'
  <2>1. \A t \in Subscriptions : skipped[t] \in Nat /\ skipped[t] + 1 \in Nat
    BY <1>1 DEF PollTypeOK
  <2> QED
    BY <2>1 DEF Apply
<1>10. (missed \in [Projections -> Nat])'
  <2>1. \A p \in Projections : missed[p] \in Nat /\ missed[p] + 1 \in Nat
    BY <1>1 DEF PollTypeOK
  <2> QED
    BY <2>1 DEF Apply
<1> QED
  BY <1>4, <1>5, <1>6, <1>7, <1>8, <1>9, <1>10 DEF PollTypeOK

(* It leaves the queues of those that resynchronise empty ...               *)
LEMMA PollQueues ==
    ASSUME Inv, NEW turn \in Build, Apply(turn)
    PROVE  QueuesOK'
<1>1. PollTypeOK /\ QueuesOK
  BY DEF Inv
<1>2. turn \in TurnType
  BY <1>1, BuildOK
<1>3. SUFFICES ASSUME NEW t \in Subscriptions,
                      t \in resync' \/ t \notin wanted'
               PROVE  queue'[t] = <<>>
  BY DEF QueuesOK
<1>4. queue[t] = <<>>
  BY <1>1, <1>3 DEF Apply, QueuesOK
<1>5. PICK n \in Nat : n = turn.slices[t].sent
  BY <1>2 DEF TurnType, SliceType
<1>6. queue'[t] = SubSeq(queue[t], n + 1, Len(queue[t]))
  BY <1>5 DEF Apply
<1>7. Len(queue[t]) = 0
  BY <1>1, <1>4, QueueType
<1>8. SubSeq(queue[t], n + 1, 0) = <<>>
  BY SubSeqEmpty
<1> QED
  BY <1>6, <1>7, <1>8

(* ... and brings everybody who was not asked nearer to their turn.         *)
LEMMA PollTurns ==
    ASSUME Inv, NEW turn \in Build, Apply(turn)
    PROVE  Turns'
<1>1. PollTypeOK /\ QueuesOK /\ Turns
  BY DEF Inv
<1>2. turn \in TurnType /\ Served(turn)
  BY <1>1, BuildOK
<1>3. PICK s : s = NextTerminal(turn)
  OBVIOUS
<1>4. schedule'.next = s
  BY <1>3 DEF Apply
<1>5. s \in Nat
  <2>1. s \in Subscriptions \cup {0}
    BY <1>1, <1>2, <1>3, NextTerminalOK
  <2>2. CASE s \in Subscriptions
    BY <2>2, SubscriptionsAre
  <2>3. CASE s = 0
    BY <2>3
  <2> QED
    BY <2>1, <2>2, <2>3
<1>6. PICK a \in Nat : a = schedule.next
  BY <1>1, NextType
<1>7. PICK all \in Nat : all = Cardinality(Subscriptions)
  BY SubscriptionsAre
<1>8. ASSUME NEW t \in Subscriptions
      PROVE  skipped'[t] + Cardinality(AheadFrom(s, t)) < all
  <2>1. PICK later \in Nat : later = Cardinality(AheadFrom(s, t))
    BY <1>5, AheadType
  <2>2. later < all
    BY <1>5, <1>7, <2>1, AheadType
  <2>3. CASE t \in wanted \ ToSet(turn.considered)
    <3>1. PICK now \in Nat : now = Cardinality(AheadFrom(a, t))
      BY AheadType
    <3>2. later < now
      BY <1>1, <1>2, <1>3, <1>6, <2>1, <2>3, <3>1, NextTerminalOK
    <3>3. PICK k \in Nat : k = skipped[t]
      BY <1>1 DEF PollTypeOK
    <3>4. k + now < all
      BY <1>1, <1>6, <1>7, <3>1, <3>3, AheadIs DEF Turns
    <3>5. skipped'[t] = k + 1
      BY <2>3, <3>3 DEF Apply
    <3> QED
      BY <2>1, <3>2, <3>4, <3>5
  <2>4. CASE t \notin wanted \ ToSet(turn.considered)
    <3>1. skipped'[t] = 0
      BY <2>4 DEF Apply
    <3> QED
      BY <2>1, <2>2, <3>1
  <2> QED
    BY <2>3, <2>4
<1>9. \A t : Ahead(t)' = AheadFrom(s, t)
  BY <1>4, AheadIs
<1> QED
  BY <1>7, <1>8, <1>9 DEF Turns

(* The channel moves on, and the projection that waits comes nearer.        *)
LEMMA PollRounds ==
    ASSUME Inv, NEW turn \in Build, Apply(turn)
    PROVE  Rounds'
<1>1. PollTypeOK /\ QueuesOK /\ Rounds
  BY DEF Inv
<1>2. PICK c \in 0..3 : c = schedule.channel
  BY <1>1, ChannelsOK
<1>3. schedule'.channel = IF c = 3 THEN 0 ELSE c + 1
  <2>1. schedule'.channel = (c + 1) % 4
    BY <1>1, <1>2, ChannelsOK DEF Apply, NextChannel
  <2> QED
    BY <2>1
<1>4. /\ Until("topology") = IF c <= 1 THEN 1 - c ELSE 5 - c
      /\ Until("agents") = 3 - c
      /\ Until("topology")' = IF c = 3 THEN 1 ELSE IF c = 0 THEN 0 ELSE 4 - c
      /\ Until("agents")' = IF c = 3 THEN 3 ELSE 2 - c
  BY <1>2, <1>3 DEF Until
<1>5. \A p \in stale : Channel(1) = p => p \in turn.projected
  BY <1>1, BuildOK
<1>6. /\ c = 1 => Channel(1) = "topology"
      /\ c = 3 => Channel(1) = "agents"
  BY <1>1, <1>2, ChannelsOK
<1>7. /\ missed["topology"] \in Nat /\ missed["agents"] \in Nat
      /\ missed["topology"] + Until("topology") <= 3
      /\ missed["agents"] + Until("agents") <= 3
  BY <1>1 DEF PollTypeOK, Rounds, Projections
<1>8. \A p \in Projections : missed'[p] =
         IF p \in stale \ turn.projected THEN missed[p] + 1 ELSE 0
  BY DEF Apply
<1>9. missed'["topology"] + Until("topology")' <= 3
  <2>1. CASE "topology" \in stale \ turn.projected
    <3>1. c # 1
      BY <1>5, <1>6, <2>1
    <3>2. missed'["topology"] = missed["topology"] + 1
      BY <1>8, <2>1 DEF Projections
    <3> QED
      BY <1>2, <1>4, <1>7, <3>1, <3>2
  <2>2. CASE "topology" \notin stale \ turn.projected
    <3>1. missed'["topology"] = 0
      BY <1>8, <2>2 DEF Projections
    <3> QED
      BY <1>2, <1>4, <3>1
  <2> QED
    BY <2>1, <2>2
<1>10. missed'["agents"] + Until("agents")' <= 3
  <2>1. CASE "agents" \in stale \ turn.projected
    <3>1. c # 3
      BY <1>5, <1>6, <2>1
    <3>2. missed'["agents"] = missed["agents"] + 1
      BY <1>8, <2>1 DEF Projections
    <3> QED
      BY <1>2, <1>4, <1>7, <3>1, <3>2
  <2>2. CASE "agents" \notin stale \ turn.projected
    <3>1. missed'["agents"] = 0
      BY <1>8, <2>2 DEF Projections
    <3> QED
      BY <1>2, <1>4, <3>1
  <2> QED
    BY <2>1, <2>2
<1> QED
  BY <1>9, <1>10 DEF Rounds, Projections

(* What is left out of it is told.                                          *)
LEMMA PollTold ==
    ASSUME Inv, NEW turn \in Build, Apply(turn)
    PROVE  MoreTold'
<1>1. PollTypeOK /\ QueuesOK
  BY DEF Inv
<1>2. /\ turn \in TurnType /\ Served(turn)
      /\ \A p \in stale : p \in turn.projected \/ turn.more
  BY <1>1, BuildOK
<1>3. PICK all : all = (/\ stale \subseteq turn.projected
                        /\ \A t \in wanted : SentAll(turn, t))
  OBVIOUS
<1>4. response' = [bytes |-> turn.used, more |-> turn.more, all |-> all]
  BY <1>3 DEF Apply
<1>5. response'.all = all /\ response'.more = turn.more
  BY <1>4
<1>6. turn.more \/ all
  <2>1. \A t \in wanted : turn.more \/ SentAll(turn, t)
    BY <1>2 DEF Served
  <2> QED
    BY <1>2, <1>3, <2>1, Zenon
<1> QED
  BY <1>5, <1>6, Zenon DEF MoreTold

(* So a poll keeps the invariant.                                           *)
LEMMA PollKeeps ==
    ASSUME Inv, Poll
    PROVE  Inv'
<1>1. PICK turn \in Build : Apply(turn)
  BY DEF Poll
<1> QED
  BY <1>1, PollTypes, PollQueues, PollTurns, PollRounds, PollTold DEF Inv

-----------------------------------------------------------------------------
(* Other steps                                                              *)

(* Where neither the schedule nor what waits for it changes.                *)
LEMMA ScheduleKept ==
    ASSUME Inv, UNCHANGED <<schedule, response, missed>>
    PROVE  /\ Rounds' /\ MoreTold'
           /\ skipped' = skipped => Turns'
<1>1. Rounds'
  BY DEF Inv, Rounds, Until
<1>2. MoreTold'
  BY DEF Inv, MoreTold
<1>3. skipped' = skipped => Turns'
  BY DEF Inv, Turns, Ahead, Before
<1> QED
  BY <1>1, <1>2, <1>3

(* An event keeps the invariant: a full queue becomes a resync.             *)
LEMMA EmitKeeps ==
    ASSUME Inv, NEW t \in Subscriptions, NEW size \in EventSizes, Emit(t, size)
    PROVE  Inv'
<1>1. PollTypeOK /\ QueuesOK
  BY DEF Inv
<1>2. Rounds' /\ MoreTold' /\ Turns'
  BY ScheduleKept DEF Emit
<1>3. t \in wanted /\ t \notin resync
  BY DEF Emit
<1>4. /\ wanted' = wanted /\ stale' = stale /\ schedule' = schedule
      /\ response' = response /\ skipped' = skipped /\ missed' = missed
  BY DEF Emit
<1>5. PICK q \in Seq(EventSizes) : q = queue[t]
  BY <1>1, QueueType
<1>6. CASE Len(q) < QueueLimit
  <2>1. queue' = [queue EXCEPT ![t] = Append(q, size)] /\ resync' = resync
    BY <1>5, <1>6 DEF Emit
  <2>2. Append(q, size) \in Seq(EventSizes)
    BY AppendProperties
  <2>3. queue' \in [Subscriptions -> Seq(EventSizes)]
    BY <1>1, <2>1, <2>2 DEF PollTypeOK
  <2>4. PollTypeOK'
    BY <1>1, <1>4, <2>1, <2>3 DEF PollTypeOK
  <2>5. QueuesOK'
    BY <1>1, <1>3, <1>4, <2>1 DEF QueuesOK, PollTypeOK
  <2> QED
    BY <1>2, <2>4, <2>5 DEF Inv
<1>7. CASE ~(Len(q) < QueueLimit)
  <2>1. queue' = [queue EXCEPT ![t] = <<>>] /\ resync' = resync \cup {t}
    BY <1>5, <1>7 DEF Emit
  <2>2. <<>> \in Seq(EventSizes)
    BY EmptySeq
  <2>3. queue' \in [Subscriptions -> Seq(EventSizes)]
    BY <1>1, <2>1, <2>2 DEF PollTypeOK
  <2>4. PollTypeOK'
    BY <1>1, <1>3, <1>4, <2>1, <2>3 DEF PollTypeOK
  <2>5. QueuesOK'
    BY <1>1, <1>3, <1>4, <2>1 DEF QueuesOK, PollTypeOK
  <2> QED
    BY <1>2, <2>4, <2>5 DEF Inv
<1> QED
  BY <1>6, <1>7

(* So does a change of the topology or the agents ...                       *)
LEMMA ChangeKeeps ==
    ASSUME Inv, NEW p \in Projections, Change(p)
    PROVE  Inv'
<1>1. Rounds' /\ MoreTold' /\ Turns'
  BY ScheduleKept DEF Change
<1>2. PollTypeOK'
  BY DEF Inv, PollTypeOK, Change
<1>3. QueuesOK'
  BY DEF Inv, QueuesOK, Change
<1> QED
  BY <1>1, <1>2, <1>3 DEF Inv

(* ... a new subscription ...                                               *)
LEMMA SubscribeKeeps ==
    ASSUME Inv, NEW t \in Subscriptions, Subscribe(t)
    PROVE  Inv'
<1>1. Rounds' /\ MoreTold' /\ Turns'
  BY ScheduleKept DEF Subscribe
<1>2. PollTypeOK'
  BY DEF Inv, PollTypeOK, Subscribe
<1>3. QueuesOK'
  BY DEF Inv, QueuesOK, Subscribe
<1> QED
  BY <1>1, <1>2, <1>3 DEF Inv

(* Who has not waited is in turn wherever the turn is.                      *)
LEMMA UnsubscribeKeeps ==
    ASSUME Inv, NEW t \in Subscriptions, Unsubscribe(t)
    PROVE  Inv'
<1>1. PollTypeOK /\ QueuesOK /\ Turns
  BY DEF Inv
<1>2. Rounds' /\ MoreTold'
  BY ScheduleKept DEF Unsubscribe
<1>3. <<>> \in Seq(EventSizes)
  BY EmptySeq
<1>4. /\ wanted' = wanted \ {t} /\ resync' = resync \ {t}
      /\ queue' = [queue EXCEPT ![t] = <<>>]
      /\ skipped' = [skipped EXCEPT ![t] = 0]
      /\ schedule' = schedule /\ stale' = stale /\ response' = response
      /\ missed' = missed
  BY DEF Unsubscribe
<1>5. PollTypeOK'
  <2>1. queue' \in [Subscriptions -> Seq(EventSizes)]
    BY <1>1, <1>3, <1>4 DEF PollTypeOK
  <2>2. skipped' \in [Subscriptions -> Nat]
    BY <1>1, <1>4 DEF PollTypeOK
  <2> QED
    BY <1>1, <1>4, <2>1, <2>2 DEF PollTypeOK
<1>6. QueuesOK'
  BY <1>1, <1>4 DEF QueuesOK, PollTypeOK
<1>7. Turns'
  <2>1. SUFFICES ASSUME NEW u \in Subscriptions
                 PROVE  skipped'[u] + Cardinality(Ahead(u))
                           < Cardinality(Subscriptions)
    BY <1>4 DEF Turns, Ahead, Before
  <2>2. CASE u # t
    BY <1>1, <1>4, <2>2 DEF Turns, PollTypeOK
  <2>3. CASE u = t
    <3>1. skipped'[u] = 0
      BY <1>1, <1>4, <2>3 DEF PollTypeOK
    <3>2. /\ Cardinality(Ahead(u)) \in Nat
          /\ Cardinality(Ahead(u)) < Cardinality(Subscriptions)
      BY <1>1, NextType, AheadIs, AheadType
    <3> QED
      BY <3>1, <3>2
  <2> QED
    BY <2>2, <2>3
<1> QED
  BY <1>2, <1>5, <1>6, <1>7 DEF Inv

(* ... and the end of all of them, which starts a fresh schedule.           *)
LEMMA DisconnectKeeps ==
    ASSUME Inv, Disconnect
    PROVE  Inv'
<1>1. PollTypeOK /\ MoreTold
  BY DEF Inv
<1>2. <<>> \in Seq(EventSizes) /\ Len(<<>>) = 0
  BY EmptySeq
<1>3. /\ schedule' = [channel |-> 0, next |-> 0]
      /\ wanted' = {} /\ resync' = {} /\ stale' = Projections
      /\ queue' = [t \in Subscriptions |-> <<>>]
      /\ skipped' = [t \in Subscriptions |-> 0]
      /\ missed' = [p \in Projections |-> 0]
      /\ response' = response
  BY DEF Disconnect, FreshSchedule
<1>4. PollTypeOK'
  BY <1>1, <1>2, <1>3 DEF PollTypeOK, Schedule
<1>5. QueuesOK'
  BY <1>3 DEF QueuesOK
<1>6. Turns'
  <2>1. schedule'.next = 0 /\ 0 \in Nat
    BY <1>3
  <2>2. \A t \in Subscriptions :
           /\ Cardinality(AheadFrom(0, t)) \in Nat
           /\ Cardinality(AheadFrom(0, t)) < Cardinality(Subscriptions)
    BY <2>1, AheadType
  <2>3. \A t : Ahead(t)' = AheadFrom(0, t)
    BY <2>1, AheadIs
  <2>4. \A t \in Subscriptions : skipped'[t] = 0
    BY <1>3
  <2> QED
    BY <2>2, <2>3, <2>4 DEF Turns
<1>7. Rounds'
  BY <1>3 DEF Rounds, Until, Projections
<1>8. MoreTold'
  BY <1>1, <1>3 DEF MoreTold
<1> QED
  BY <1>4, <1>5, <1>6, <1>7, <1>8 DEF Inv

(* The service begins with the invariant.                                   *)
LEMMA InitInv ==
    ASSUME Init
    PROVE  Inv
<1>1. <<>> \in Seq(EventSizes) /\ Len(<<>>) = 0
  BY EmptySeq
<1>2. /\ schedule = [channel |-> 0, next |-> 0]
      /\ wanted = {} /\ resync = {} /\ stale = Projections
      /\ queue = [t \in Subscriptions |-> <<>>]
      /\ skipped = [t \in Subscriptions |-> 0]
      /\ missed = [p \in Projections |-> 0]
      /\ response = [bytes |-> 0, more |-> FALSE, all |-> TRUE]
  BY DEF Init, FreshSchedule
<1>3. 0 \in 0..Budget
  BY PollAssumption
<1>4. PollTypeOK
  BY <1>1, <1>2, <1>3 DEF PollTypeOK, Schedule
<1>5. QueuesOK
  BY <1>2 DEF QueuesOK
<1>6. Turns
  <2>1. schedule.next = 0 /\ 0 \in Nat
    BY <1>2
  <2>2. \A t \in Subscriptions :
           /\ Cardinality(AheadFrom(0, t)) \in Nat
           /\ Cardinality(AheadFrom(0, t)) < Cardinality(Subscriptions)
    BY <2>1, AheadType
  <2>3. \A t : Ahead(t) = AheadFrom(0, t)
    BY <2>1, AheadIs
  <2>4. \A t \in Subscriptions : skipped[t] = 0
    BY <1>2
  <2> QED
    BY <2>2, <2>3, <2>4 DEF Turns
<1>7. Rounds
  BY <1>2 DEF Rounds, Until, Projections
<1>8. MoreTold
  BY <1>2 DEF MoreTold
<1> QED
  BY <1>4, <1>5, <1>6, <1>7, <1>8 DEF Inv

(* No step breaks the invariant.                                            *)
LEMMA NextKeeps ==
    ASSUME Inv, [Next]_vars
    PROVE  Inv'
<1>1. CASE Poll
  BY <1>1, PollKeeps
<1>2. CASE Disconnect
  BY <1>2, DisconnectKeeps
<1>3. ASSUME NEW p \in Projections, Change(p) PROVE Inv'
  BY <1>3, ChangeKeeps
<1>4. ASSUME NEW t \in Subscriptions, Subscribe(t) PROVE Inv'
  BY <1>4, SubscribeKeeps
<1>5. ASSUME NEW t \in Subscriptions, Unsubscribe(t) PROVE Inv'
  BY <1>5, UnsubscribeKeeps
<1>6. ASSUME NEW t \in Subscriptions, NEW size \in EventSizes, Emit(t, size)
      PROVE  Inv'
  BY <1>6, EmitKeeps
<1>7. CASE UNCHANGED vars
  BY <1>7 DEF vars, Inv, PollTypeOK, QueuesOK, Turns, Ahead, Before, Rounds,
              Until, MoreTold
<1> QED
  BY <1>1, <1>2, <1>3, <1>4, <1>5, <1>6, <1>7 DEF Next

-----------------------------------------------------------------------------
(* Theorems                                                                 *)

(* The parts of the invariant hold throughout: no one waits for more polls  *)
(* than there are subscriptions before it, or channels before its own.      *)
THEOREM PollInvariance == Spec => []Inv
<1>1. Init => Inv
  BY InitInv
<1>2. Inv /\ [Next]_vars => Inv'
  BY NextKeeps
<1> QED
  BY <1>1, <1>2, PTL DEF Spec

(* Whatever is subscribed, queued and changed: what a poll answers is within *)
(* the payload budget, and the schedule stays one (build).                  *)
THEOREM PollTypeCorrect == Spec => []PollTypeOK
<1>1. Inv => PollTypeOK
  BY DEF Inv
<1> QED
  BY <1>1, PollInvariance, PTL

(* The terminals are asked in rotation: none is passed over in as many polls *)
(* as there are subscriptions (process_terminals, next_subscription_id).    *)
THEOREM TerminalsInTurn == Spec => []InTurn
<1>1. Inv => InTurn
  <2> SUFFICES ASSUME Inv, NEW t \in Subscriptions
               PROVE  skipped[t] < Cardinality(Subscriptions)
    BY DEF InTurn
  <2>1. PICK ahead \in Nat : ahead = Cardinality(Ahead(t))
    BY NextType, AheadIs, AheadType DEF Inv
  <2>2. PICK all \in Nat : all = Cardinality(Subscriptions)
    BY SubscriptionsAre
  <2>3. PICK k \in Nat : k = skipped[t]
    BY DEF Inv, PollTypeOK
  <2>4. k + ahead < all
    BY <2>1, <2>2, <2>3 DEF Inv, Turns
  <2> QED
    BY <2>1, <2>2, <2>3, <2>4
<1> QED
  BY <1>1, PollInvariance, PTL

(* What a response leaves out it announces, so the client asks again.       *)
THEOREM LeftOutIsTold == Spec => []MoreTold
<1>1. Inv => MoreTold
  BY DEF Inv
<1> QED
  BY <1>1, PollInvariance, PTL

(* A change of the topology or of the agents is in one of the next four     *)
(* responses, however much the terminals have to say (kWeightedChannels).   *)
THEOREM ProjectionsServed == Spec => []ChannelsServed
<1>1. Inv => ChannelsServed
  <2> SUFFICES ASSUME Inv, NEW p \in Projections
               PROVE  missed[p] < Len(WeightedChannels)
    BY DEF ChannelsServed
  <2>1. PICK c \in 0..3 : c = schedule.channel
    BY ChannelsOK DEF Inv
  <2>2. Until(p) \in 0..3
    BY <2>1 DEF Until
  <2>3. missed[p] \in Nat /\ missed[p] + Until(p) <= 3
    BY DEF Inv, PollTypeOK, Rounds
  <2>4. Len(WeightedChannels) = 4
    BY ChannelsOK DEF Inv
  <2> QED
    BY <2>2, <2>3, <2>4
<1> QED
  BY <1>1, PollInvariance, PTL

=============================================================================
