------------------------------ MODULE Counting ------------------------------
(***************************************************************************)
(* How often a value occurs in a sequence, and what appending, joining and *)
(* removing make of that; the least of a set of numbers, and what is       *)
(* defined step by step along them; finite sets: their list, their bound,  *)
(* their greatest member and their union.                                  *)
(***************************************************************************)
EXTENDS Integers, SequencesExt, FiniteSets, TLAPS, SequenceTheorems,
        FiniteSetTheorems, WellFoundedInduction

Where(seq, x) == {i \in DOMAIN seq : seq[i] = x}

Number(seq, x) == Cardinality(Where(seq, x))

-----------------------------------------------------------------------------
(* The least element of a set of numbers.                                   *)
LEMMA LeastExists ==
    ASSUME NEW T \in SUBSET Nat, T # {}
    PROVE  \E x \in T : \A y \in T : x <= y
<1>1. PICK x \in T : \A y \in T : <<y, x>> \notin OpToRel(<, Nat)
  BY WFMin, NatLessThanWellFounded
<1>2. \A y \in T : ~(y < x)
  BY <1>1 DEF OpToRel
<1>3. x \in Nat /\ \A y \in T : y \in Nat
  OBVIOUS
<1> QED
  BY <1>2, <1>3

(* A value occurs a number of times ...                                     *)
LEMMA NumberType ==
    ASSUME NEW S, NEW s \in Seq(S), NEW x
    PROVE  /\ Where(s, x) \in SUBSET (1..Len(s))
           /\ IsFiniteSet(Where(s, x)) /\ Number(s, x) \in Nat
<1>1. Len(s) \in Nat /\ DOMAIN s = 1..Len(s)
  BY LenProperties
<1>2. Where(s, x) \in SUBSET (1..Len(s))
  BY <1>1 DEF Where
<1>3. IsFiniteSet(1..Len(s))
  BY <1>1, FS_Interval
<1>4. IsFiniteSet(Where(s, x))
  BY <1>2, <1>3, FS_Subset
<1> QED
  BY <1>2, <1>4, FS_CardinalityType DEF Number

(* ... none when it is nowhere ...                                          *)
LEMMA NumberZero ==
    ASSUME NEW S, NEW s \in Seq(S), NEW x
    PROVE  Number(s, x) = 0 <=> \A i \in 1..Len(s) : s[i] # x
<1>1. DOMAIN s = 1..Len(s)
  BY LenProperties
<1>2. Number(s, x) = 0 <=> Where(s, x) = {}
  BY NumberType, FS_EmptySet DEF Number
<1> QED
  BY <1>1, <1>2 DEF Where

(* ... and in one place when it occurs at most once.                        *)
LEMMA NumberOnce ==
    ASSUME NEW S, NEW s \in Seq(S), NEW x, Number(s, x) <= 1,
           NEW i \in 1..Len(s), NEW j \in 1..Len(s), s[i] = x, s[j] = x
    PROVE  i = j
<1>1. i \in Where(s, x) /\ j \in Where(s, x)
  BY LenProperties DEF Where
<1>2. IsFiniteSet(Where(s, x)) /\ Number(s, x) \in Nat
  BY NumberType
<1>3. Number(s, x) # 0
  BY <1>1, <1>2, FS_EmptySet DEF Number
<1>4. Cardinality(Where(s, x)) = 1
  BY <1>2, <1>3 DEF Number
<1>5. \E y : Where(s, x) = {y}
  BY <1>2, <1>4, FS_Singleton
<1> QED
  BY <1>1, <1>5

(* The empty sequence has no value in it.                                   *)
LEMMA NumberEmpty == \A x : Number(<<>>, x) = 0
<1>1. ASSUME NEW x PROVE Where(<<>>, x) = {}
  BY EmptySeq DEF Where
<1> QED
  BY <1>1, FS_EmptySet DEF Number

(* Two sequences that follow each other add up.                             *)
LEMMA NumberConcat ==
    ASSUME NEW S, NEW s \in Seq(S), NEW t \in Seq(S), NEW x
    PROVE  Number(s \o t, x) = Number(s, x) + Number(t, x)
<1> DEFINE A == Where(s, x)
           B == Where(t, x)
           Moved == {Len(s) + j : j \in B}
<1>1. /\ s \o t \in Seq(S) /\ Len(s \o t) = Len(s) + Len(t)
      /\ \A i \in 1..(Len(s) + Len(t)) : (s \o t)[i] =
            IF i <= Len(s) THEN s[i] ELSE t[i - Len(s)]
      /\ Len(s) \in Nat /\ Len(t) \in Nat
      /\ DOMAIN s = 1..Len(s) /\ DOMAIN t = 1..Len(t)
      /\ DOMAIN (s \o t) = 1..(Len(s) + Len(t))
  BY ConcatProperties, LenProperties
<1>2. /\ A \in SUBSET (1..Len(s)) /\ IsFiniteSet(A)
      /\ B \in SUBSET (1..Len(t)) /\ IsFiniteSet(B)
  BY NumberType
<1>3. Where(s \o t, x) = A \cup Moved
  <2>1. ASSUME NEW i \in Where(s \o t, x) PROVE i \in A \cup Moved
    <3>1. i \in 1..(Len(s) + Len(t)) /\ (s \o t)[i] = x
      BY <1>1, <2>1 DEF Where
    <3>2. CASE i <= Len(s)
      <4>1. i \in 1..Len(s) /\ s[i] = x
        BY <1>1, <3>1, <3>2
      <4> QED
        BY <1>1, <4>1 DEF Where
    <3>3. CASE ~(i <= Len(s))
      <4>1. i - Len(s) \in 1..Len(t) /\ t[i - Len(s)] = x
        BY <1>1, <3>1, <3>3
      <4>2. i - Len(s) \in B /\ i = Len(s) + (i - Len(s))
        BY <1>1, <3>1, <4>1 DEF Where
      <4> QED
        BY <4>2
    <3> QED
      BY <3>2, <3>3
  <2>2. ASSUME NEW i \in A PROVE i \in Where(s \o t, x)
    <3>1. i \in 1..Len(s) /\ s[i] = x
      BY <1>1 DEF Where
    <3>2. i \in 1..(Len(s) + Len(t)) /\ (s \o t)[i] = x
      BY <1>1, <3>1
    <3> QED
      BY <1>1, <3>2 DEF Where
  <2>3. ASSUME NEW j \in B PROVE Len(s) + j \in Where(s \o t, x)
    <3>1. j \in 1..Len(t) /\ t[j] = x
      BY <1>1 DEF Where
    <3>2. /\ Len(s) + j \in 1..(Len(s) + Len(t)) /\ ~(Len(s) + j <= Len(s))
          /\ (Len(s) + j) - Len(s) = j
      BY <1>1, <3>1
    <3>3. (s \o t)[Len(s) + j] = x
      BY <1>1, <3>1, <3>2
    <3> QED
      BY <1>1, <3>2, <3>3 DEF Where
  <2> QED
    BY <2>1, <2>2, <2>3
<1>4. A \cap Moved = {}
  BY <1>1, <1>2
<1>5. /\ IsFiniteSet(Moved) /\ Cardinality(Moved) = Cardinality(B)
  <2> DEFINE f == [j \in B |-> Len(s) + j]
  <2>1. f \in Bijection(B, Moved)
    <3>1. \A j, k \in B : f[j] = f[k] => j = k
      BY <1>1, <1>2
    <3>2. \A m \in Moved : \E j \in B : f[j] = m
      OBVIOUS
    <3>3. f \in [B -> Moved]
      OBVIOUS
    <3> QED
      BY <3>1, <3>2, <3>3 DEF Bijection, Injection, Surjection, IsInjective
  <2> HIDE DEF f, Moved, B
  <2>2. ExistsBijection(B, Moved)
    BY <2>1 DEF ExistsBijection
  <2> QED
    BY <1>2, <2>2, FS_Bijection
<1> HIDE DEF A, B, Moved
<1>6. Cardinality(A \cup Moved) =
         Cardinality(A) + Cardinality(Moved) - Cardinality(A \cap Moved)
  BY <1>2, <1>5, FS_Union
<1>7. /\ Cardinality(A \cap Moved) = 0
      /\ Cardinality(A) \in Nat /\ Cardinality(B) \in Nat
  BY <1>2, <1>4, FS_EmptySet, FS_CardinalityType
<1>8. Cardinality(A \cup Moved) = Cardinality(A) + Cardinality(B)
  BY <1>5, <1>6, <1>7
<1> QED
  BY <1>3, <1>8 DEF Number, A, B

(* One more value at the end, or at the front.                              *)
LEMMA NumberSingle ==
    ASSUME NEW e, NEW x
    PROVE  Number(<<e>>, x) = IF e = x THEN 1 ELSE 0
<1>1. DOMAIN <<e>> = {1} /\ <<e>>[1] = e
  OBVIOUS
<1>2. CASE e = x
  <2>1. Where(<<e>>, x) = {1}
    BY <1>1, <1>2 DEF Where
  <2> QED
    BY <1>2, <2>1, FS_Singleton DEF Number
<1>3. CASE e # x
  <2>1. Where(<<e>>, x) = {}
    BY <1>1, <1>3 DEF Where
  <2> QED
    BY <1>3, <2>1, FS_EmptySet DEF Number
<1> QED
  BY <1>2, <1>3

(* A value more at the end ...                                              *)
LEMMA NumberAppend ==
    ASSUME NEW S, NEW s \in Seq(S), NEW e \in S, NEW x
    PROVE  Number(Append(s, e), x)
              = Number(s, x) + (IF e = x THEN 1 ELSE 0)
<1> DEFINE one == <<e>>
<1>1. Append(s, e) = s \o one /\ one \in Seq(S)
  BY AppendIsConcat
<1>2. Number(one, x) = IF e = x THEN 1 ELSE 0
  BY NumberSingle
<1> HIDE DEF one
<1>3. Number(s \o one, x) = Number(s, x) + Number(one, x)
  BY <1>1, NumberConcat
<1> QED
  BY <1>1, <1>2, <1>3

(* ... or at the front is one more.                                         *)
LEMMA NumberFront ==
    ASSUME NEW S, NEW s \in Seq(S), NEW e \in S, NEW x
    PROVE  Number(<<e>> \o s, x)
              = Number(s, x) + (IF e = x THEN 1 ELSE 0)
<1> DEFINE one == <<e>>
<1>1. one \in Seq(S)
  OBVIOUS
<1>2. Number(one, x) = IF e = x THEN 1 ELSE 0
  BY NumberSingle
<1> HIDE DEF one
<1>3. Number(one \o s, x) = Number(one, x) + Number(s, x)
  BY <1>1, NumberConcat
<1>4. Number(one, x) \in Nat /\ Number(s, x) \in Nat
  BY <1>1, NumberType
<1>5. Number(one \o s, x) = Number(s, x) + Number(one, x)
  BY <1>3, <1>4
<1> QED
  BY <1>2, <1>5 DEF one

(* A sequence that is not empty is its head, followed by its tail.          *)
LEMMA HeadAndTail ==
    ASSUME NEW S, NEW s \in Seq(S), s # <<>>
    PROVE  /\ Head(s) \in S /\ Tail(s) \in Seq(S) /\ Head(s) = s[1]
           /\ Len(s) \in Nat \ {0} /\ Len(Tail(s)) = Len(s) - 1
           /\ \A i \in 1..(Len(s) - 1) : Tail(s)[i] = s[i + 1]
           /\ s = <<Head(s)>> \o Tail(s)
<1> DEFINE h == <<Head(s)>>
           t == Tail(s)
           u == h \o t
<1>1. /\ Head(s) \in S /\ t \in Seq(S) /\ Head(s) = s[1]
      /\ Len(t) = Len(s) - 1 /\ Len(s) \in Nat \ {0}
      /\ \A i \in 1..(Len(s) - 1) : t[i] = s[i + 1]
  BY HeadTailProperties, EmptySeq, LenProperties
<1>2. h \in Seq(S) /\ Len(h) = 1 /\ h[1] = s[1]
  BY <1>1
<1> HIDE DEF h, t
<1>3. /\ u \in Seq(S) /\ Len(u) = Len(h) + Len(t)
      /\ \A i \in 1..(Len(h) + Len(t)) : u[i] =
            IF i <= Len(h) THEN h[i] ELSE t[i - Len(h)]
  BY <1>1, <1>2, ConcatProperties
<1> HIDE DEF u
<1>4. Len(u) = Len(s)
  BY <1>1, <1>2, <1>3
<1>5. ASSUME NEW i \in 1..Len(s) PROVE u[i] = s[i]
  <2>1. u[i] = IF i <= 1 THEN h[i] ELSE t[i - 1]
    BY <1>1, <1>2, <1>3
  <2>2. CASE i = 1
    BY <1>2, <2>1, <2>2
  <2>3. CASE i # 1
    <3>1. i - 1 \in 1..(Len(s) - 1) /\ (i - 1) + 1 = i /\ ~(i <= 1)
      BY <1>1, <2>3
    <3>2. t[i - 1] = s[(i - 1) + 1]
      BY <1>1, <3>1
    <3> QED
      BY <2>1, <3>1, <3>2
  <2> QED
    BY <2>2, <2>3
<1>6. u = s
  BY <1>3, <1>4, <1>5, SeqEqual
<1> QED
  BY <1>1, <1>6 DEF u, h, t

(* What is taken from the front is one less.                                *)
LEMMA NumberTail ==
    ASSUME NEW S, NEW s \in Seq(S), s # <<>>, NEW x
    PROVE  Number(s, x)
              = Number(Tail(s), x) + (IF Head(s) = x THEN 1 ELSE 0)
<1> DEFINE h == Head(s)
           t == Tail(s)
<1>1. s = <<h>> \o t /\ h \in S /\ t \in Seq(S)
  BY HeadAndTail
<1> HIDE DEF h, t
<1>2. Number(<<h>> \o t, x) = Number(t, x) + (IF h = x THEN 1 ELSE 0)
  BY <1>1, NumberFront
<1> QED
  BY <1>1, <1>2 DEF h, t

(* Where the elements are once one of them is removed.                      *)
LEMMA RemoveAtProperties ==
    ASSUME NEW S, NEW s \in Seq(S), NEW i \in 1..Len(s)
    PROVE  /\ RemoveAt(s, i) \in Seq(S)
           /\ Len(RemoveAt(s, i)) = Len(s) - 1
           /\ \A j \in 1..(Len(s) - 1) :
                 RemoveAt(s, i)[j] = IF j < i THEN s[j] ELSE s[j + 1]
<1> DEFINE a == SubSeq(s, 1, i - 1)
           b == SubSeq(s, i + 1, Len(s))
<1>1. Len(s) \in Nat /\ i \in Nat
  BY LenProperties
<1>2. /\ a \in Seq(S) /\ Len(a) = i - 1
      /\ \A j \in 1..(i - 1) : a[j] = s[j]
  <2>1. \A j \in 1..(i - 1) : j \in 1..Len(s)
    BY <1>1
  <2>2. \A j \in 1..(i - 1) : s[j] \in S
    BY <2>1, ElementOfSeq
  <2>3. i - 1 \in Nat
    BY <1>1
  <2> QED
    BY <1>1, <2>1, <2>2, <2>3, SubSeqProperties
<1>3. /\ b \in Seq(S) /\ Len(b) = Len(s) - i
      /\ \A j \in 1..(Len(s) - i) : b[j] = s[i + j]
  <2>1. \A j \in (i + 1)..Len(s) : j \in 1..Len(s)
    BY <1>1
  <2>2. \A j \in 1..(Len(s) - i) : (i + 1) + j - 1 = i + j
    BY <1>1
  <2> QED
    BY <1>1, <2>1, <2>2, SubSeqProperties
<1> HIDE DEF a, b
<1>4. /\ a \o b \in Seq(S) /\ Len(a \o b) = Len(a) + Len(b)
      /\ \A j \in 1..(Len(a) + Len(b)) : (a \o b)[j] =
            IF j <= Len(a) THEN a[j] ELSE b[j - Len(a)]
  BY <1>2, <1>3, ConcatProperties
<1>5. Len(a \o b) = Len(s) - 1
  BY <1>1, <1>2, <1>3, <1>4
<1>6. ASSUME NEW j \in 1..(Len(s) - 1)
      PROVE  (a \o b)[j] = IF j < i THEN s[j] ELSE s[j + 1]
  <2>1. (a \o b)[j] = IF j <= i - 1 THEN a[j] ELSE b[j - (i - 1)]
    BY <1>1, <1>2, <1>3, <1>4
  <2>2. CASE j < i
    <3>1. j \in 1..(i - 1) /\ j <= i - 1
      BY <1>1, <2>2
    <3> QED
      BY <1>2, <2>1, <2>2, <3>1
  <2>3. CASE ~(j < i)
    <3>1. /\ j - (i - 1) \in 1..(Len(s) - i) /\ ~(j <= i - 1)
          /\ i + (j - (i - 1)) = j + 1
      BY <1>1, <2>3
    <3>2. b[j - (i - 1)] = s[i + (j - (i - 1))]
      BY <1>3, <3>1
    <3> QED
      BY <2>1, <2>3, <3>1, <3>2
  <2> QED
    BY <2>2, <2>3
<1> QED
  BY <1>4, <1>5, <1>6 DEF RemoveAt, a, b

(* A removed value is one less.                                             *)
LEMMA NumberRemoveAt ==
    ASSUME NEW S, NEW s \in Seq(S), NEW i \in 1..Len(s), NEW x
    PROVE  Number(s, x)
              = Number(RemoveAt(s, i), x) + (IF s[i] = x THEN 1 ELSE 0)
<1> DEFINE a == SubSeq(s, 1, i - 1)
           b == SubSeq(s, i + 1, Len(s))
           c == SubSeq(s, i, Len(s))
           e == s[i]
<1>1. Len(s) \in Nat /\ i \in Nat /\ e \in S
  BY LenProperties, ElementOfSeq
<1>2. \A j \in 1..Len(s) : s[j] \in S
  BY ElementOfSeq
<1>3. a \in Seq(S) /\ b \in Seq(S) /\ c \in Seq(S)
  <2>1. \A j \in 1..(i - 1) : s[j] \in S
    BY <1>1, <1>2
  <2>2. \A j \in (i + 1)..Len(s) : s[j] \in S
    BY <1>1, <1>2
  <2>3. \A j \in i..Len(s) : s[j] \in S
    BY <1>1, <1>2
  <2> QED
    BY <1>1, <2>1, <2>2, <2>3, SubSeqProperties
<1>4. c = <<e>> \o b
  BY <1>1, <1>2, SubSeqRecursiveFirst
<1>5. s = a \o c
  <2>1. /\ 1 \in 1..(Len(s) + 1) /\ i - 1 \in (1 - 1)..Len(s)
        /\ Len(s) \in (i - 1)..Len(s) /\ (i - 1) + 1 = i
    BY <1>1
  <2>2. SubSeq(s, 1, i - 1) \o SubSeq(s, (i - 1) + 1, Len(s))
           = SubSeq(s, 1, Len(s))
    BY <2>1, ConcatAdjacentSubSeq
  <2> QED
    BY <2>1, <2>2, SubSeqFull
<1>6. RemoveAt(s, i) = a \o b
  BY DEF RemoveAt
<1> HIDE DEF a, b, c, e
<1>7. Number(a \o c, x) = Number(a, x) + Number(c, x)
  BY <1>3, NumberConcat
<1>8. Number(a, x) \in Nat /\ Number(b, x) \in Nat
  BY <1>3, NumberType
<1>9. Number(<<e>> \o b, x) = Number(b, x) + (IF e = x THEN 1 ELSE 0)
  BY <1>1, <1>3, NumberFront
<1>10. Number(a \o b, x) = Number(a, x) + Number(b, x)
  BY <1>3, NumberConcat
<1>11. Number(c, x) = Number(b, x) + (IF e = x THEN 1 ELSE 0)
  BY <1>4, <1>9
<1>12. Number(s, x) = Number(a, x) + Number(c, x)
  BY <1>5, <1>7
<1> QED
  BY <1>6, <1>8, <1>10, <1>11, <1>12 DEF e

(* The last element, and what comes before it.                              *)
LEMMA FrontAndLast ==
    ASSUME NEW S, NEW s \in Seq(S), s # <<>>
    PROVE  /\ Front(s) \in Seq(S) /\ Last(s) \in S
           /\ s = Append(Front(s), Last(s))
<1>1. /\ Len(s) \in Nat \ {0}
      /\ \A i \in 1..Len(s) : s[i] \in S
  BY EmptySeq, LenProperties, ElementOfSeq
<1>2. \A i \in 1..(Len(s) - 1) : s[i] \in S
  BY <1>1
<1>3. Front(s) \in Seq(S) /\ Last(s) \in S
  BY <1>1, <1>2, SubSeqProperties DEF Front, Last
<1>4. SubSeq(s, 1, Len(s)) = SubSeq(s, 1, Len(s) - 1) \o <<s[Len(s)]>>
  BY <1>1, SubSeqRecursiveSecond
<1>5. SubSeq(s, 1, Len(s)) = s
  BY SubSeqFull
<1>6. Append(Front(s), Last(s)) = Front(s) \o <<Last(s)>>
  BY <1>3, AppendIsConcat
<1> QED
  BY <1>3, <1>4, <1>5, <1>6 DEF Front, Last

(* A function on the first numbers is a sequence.                           *)
LEMMA MappedSeq ==
    ASSUME NEW n \in Nat, NEW T, NEW f \in [1..n -> T]
    PROVE  f \in Seq(T) /\ Len(f) = n /\ DOMAIN f = 1..n
<1>1. f \in Seq(T)
  BY SeqDef
<1>2. DOMAIN f = 1..Len(f) /\ Len(f) \in Nat /\ DOMAIN f = 1..n
  BY <1>1, LenProperties
<1> QED
  BY <1>1, <1>2

-----------------------------------------------------------------------------
(* Numbers up to a bound                                                    *)

(* What is true of 0 and goes on is true up to any number.                  *)
LEMMA Induction ==
    ASSUME NEW N \in Nat, NEW T, 0 \in T,
           \A n \in Nat : n < N /\ n \in T => n + 1 \in T
    PROVE  0..N \subseteq T
<1> DEFINE Rest == {n \in 0..N : n \notin T}
<1>1. CASE Rest # {}
  <2>1. Rest \in SUBSET Nat
    OBVIOUS
  <2>2. PICK x \in Rest : \A y \in Rest : x <= y
    <3> HIDE DEF Rest
    <3> QED
      BY <1>1, <2>1, LeastExists
  <2>3. x \in Nat /\ x # 0 /\ x <= N /\ x \notin T
    BY <2>2
  <2>4. x - 1 \in Nat /\ x - 1 < N /\ x - 1 \in 0..N /\ (x - 1) + 1 = x
    BY <2>3
  <2>5. x - 1 \notin Rest
    BY <2>2, <2>4
  <2> QED
    BY <2>3, <2>4, <2>5
<1>2. CASE Rest = {}
  BY <1>2
<1> QED
  BY <1>1, <1>2

(* A step from a state to the next that stays in S, and its repetition.     *)
Closed(step, N, S) == \A n \in 1..N : \A x \in S : step[n][x] \in S

Repeats(f, N, base, step) ==
    f[0] = base /\ \A n \in 1..N : f[n] = step[n][f[n - 1]]

(* A function may be defined step by step.                                  *)
LEMMA Recursion ==
    ASSUME NEW N \in Nat, NEW S, NEW base \in S, NEW step,
           Closed(step, N, S)
    PROVE  \E f \in [0..N -> S] : Repeats(f, N, base, step)
<1> USE DEF Closed, Repeats
<1> DEFINE Upto(k, f) == Repeats(f, k, base, step)
           T == {k \in 0..N : \E f \in [0..k -> S] : Upto(k, f)}
<1>1. 0 \in T
  <2> DEFINE f == [n \in 0..0 |-> base]
  <2>1. f \in [0..0 -> S] /\ f[0] = base
    OBVIOUS
  <2>2. 0 \in 0..N /\ 1..0 = {}
    OBVIOUS
  <2> HIDE DEF f
  <2> QED
    BY <2>1, <2>2
<1>2. ASSUME NEW k \in Nat, k < N, k \in T PROVE k + 1 \in T
  <2>1. PICK f \in [0..k -> S] : Upto(k, f)
    BY <1>2
  <2>2. k + 1 \in 1..N /\ k \in 0..k /\ f[k] \in S
    BY <1>2
  <2>3. PICK next \in S : next = step[k + 1][f[k]]
    BY <2>2
  <2> DEFINE g == [n \in 0..(k + 1) |-> IF n = k + 1 THEN next ELSE f[n]]
  <2>4. \A n \in 0..(k + 1) : n = k + 1 \/ n \in 0..k
    OBVIOUS
  <2>5. /\ g \in [0..(k + 1) -> S] /\ g[k + 1] = next
        /\ \A n \in 0..k : g[n] = f[n]
    BY <2>4
  <2> HIDE DEF g
  <2>6. Upto(k + 1, g)
    <3>1. g[0] = base
      BY <2>1, <2>5
    <3>2. ASSUME NEW n \in 1..(k + 1) PROVE g[n] = step[n][g[n - 1]]
      <4>1. CASE n = k + 1
        <5>1. n - 1 = k
          BY <4>1
        <5> QED
          BY <2>2, <2>3, <2>5, <4>1, <5>1
      <4>2. CASE n # k + 1
        <5>1. n \in 1..k /\ n \in 0..k /\ n - 1 \in 0..k
          BY <4>2
        <5> QED
          BY <2>1, <2>5, <5>1
      <4> QED
        BY <4>1, <4>2
    <3> QED
      BY <3>1, <3>2
  <2>7. k + 1 \in 0..N
    BY <1>2
  <2> QED
    BY <2>5, <2>6, <2>7
<1>3. 0..N \subseteq T
  <2> HIDE DEF T
  <2> QED
    BY <1>1, <1>2, Induction
<1>4. N \in T
  BY <1>3
<1> QED
  BY <1>4


(* A finite set of numbers is bounded, ...                                  *)
LEMMA FiniteListed ==
    ASSUME NEW S, IsFiniteSet(S)
    PROVE  \E n \in Nat : \E f : f \in [1..n -> S]
                                 /\ \A x \in S : \E i \in 1..n : f[i] = x
<1> DEFINE n == Cardinality(S)
<1>1. n \in Nat /\ ExistsBijection(1..n, S)
  BY FS_CardinalityType
<1> HIDE DEF n
<1>2. PICK f \in Bijection(1..n, S) : TRUE
  BY <1>1 DEF ExistsBijection
<1>3. f \in [1..n -> S] /\ \A x \in S : \E i \in 1..n : f[i] = x
  BY <1>2 DEF Bijection, Surjection
<1> QED
  BY <1>1, <1>3

LEMMA FiniteBounded ==
    ASSUME NEW S \in SUBSET Nat, IsFiniteSet(S)
    PROVE  \E b \in Nat : \A x \in S : x <= b
<1>1. PICK n \in Nat : \E f : f \in [1..n -> S]
                              /\ \A x \in S : \E i \in 1..n : f[i] = x
  BY FiniteListed
<1>2. PICK f : f \in [1..n -> S] /\ \A x \in S : \E i \in 1..n : f[i] = x
  BY <1>1
<1> DEFINE T == {k \in 0..n : \E b \in Nat : \A i \in 1..k : f[i] <= b}
<1>3. 0 \in T
  OBVIOUS
<1>4. ASSUME NEW k \in Nat, k < n, k \in T PROVE k + 1 \in T
  <2>1. PICK b \in Nat : \A i \in 1..k : f[i] <= b
    BY <1>4
  <2>2. \A i \in 1..n : f[i] \in Nat
    BY <1>2
  <2>3. k + 1 \in 1..n /\ k + 1 \in 0..n
    BY <1>4
  <2> DEFINE c == b + f[k + 1]
  <2>4. c \in Nat /\ b <= c /\ f[k + 1] <= c
    BY <2>2, <2>3
  <2> HIDE DEF c
  <2>5. ASSUME NEW i \in 1..(k + 1) PROVE f[i] <= c
    <3>1. CASE i = k + 1
      BY <2>4, <3>1
    <3>2. CASE i # k + 1
      <4>1. i \in 1..k /\ i \in 1..n
        BY <1>4, <3>2
      <4>2. f[i] <= b /\ f[i] \in Nat
        BY <2>1, <2>2, <4>1
      <4> QED
        BY <2>4, <4>2
    <3> QED
      BY <3>1, <3>2
  <2> QED
    BY <2>3, <2>4, <2>5
<1>5. 0..n \subseteq T
  <2> HIDE DEF T
  <2> QED
    BY <1>3, <1>4, Induction
<1>6. n \in T
  BY <1>5
<1>7. PICK b \in Nat : \A i \in 1..n : f[i] <= b
  BY <1>6
<1> QED
  BY <1>2, <1>7

(* ... so that it has a greatest element, ...                               *)
LEMMA GreatestExists ==
    ASSUME NEW S \in SUBSET Nat, IsFiniteSet(S), S # {}
    PROVE  \E x \in S : \A y \in S : x >= y
<1>1. PICK b \in Nat : \A x \in S : x <= b
  BY FiniteBounded
<1> DEFINE T == {b - x : x \in S}
<1>2. T \in SUBSET Nat /\ T # {}
  <2>1. ASSUME NEW x \in S PROVE b - x \in Nat
    <3>1. x \in Nat /\ x <= b
      BY <1>1
    <3> QED
      BY <3>1
  <2> QED
    BY <2>1
<1>3. PICK z \in T : \A w \in T : z <= w
  <2> HIDE DEF T
  <2> QED
    BY <1>2, LeastExists
<1>4. PICK x \in S : z = b - x
  BY <1>3
<1>5. ASSUME NEW y \in S PROVE x >= y
  <2>1. b - y \in T
    OBVIOUS
  <2>2. b - x <= b - y /\ x \in Nat /\ y \in Nat
    BY <1>3, <1>4, <2>1
  <2> QED
    BY <2>2
<1> QED
  BY <1>5

(* ... and finitely many finite sets are one finite set.                    *)
LEMMA FiniteUnion ==
    ASSUME NEW D, IsFiniteSet(D), NEW sets, \A d \in D : IsFiniteSet(sets[d])
    PROVE  IsFiniteSet(UNION {sets[d] : d \in D})
<1>1. PICK n \in Nat : \E f : f \in [1..n -> D]
                              /\ \A x \in D : \E i \in 1..n : f[i] = x
  BY FiniteListed
<1>2. PICK f : f \in [1..n -> D] /\ \A x \in D : \E i \in 1..n : f[i] = x
  BY <1>1
<1> DEFINE Upto(k) == UNION {sets[f[i]] : i \in 1..k}
           T == {k \in 0..n : IsFiniteSet(Upto(k))}
<1>3. 0 \in T
  <2>1. Upto(0) = {}
    OBVIOUS
  <2> QED
    BY <2>1, FS_EmptySet
<1>4. ASSUME NEW k \in Nat, k < n, k \in T PROVE k + 1 \in T
  <2>1. k + 1 \in 1..n /\ k + 1 \in 0..n
    BY <1>4
  <2>2. Upto(k + 1) = Upto(k) \cup sets[f[k + 1]]
    <3>1. \A i : i \in 1..(k + 1) <=> i \in 1..k \/ i = k + 1
      BY <1>4
    <3> QED
      BY <3>1
  <2>3. IsFiniteSet(sets[f[k + 1]])
    BY <1>2, <2>1
  <2>4. IsFiniteSet(Upto(k))
    BY <1>4
  <2> HIDE DEF Upto
  <2>5. IsFiniteSet(Upto(k + 1))
    <3>1. IsFiniteSet(Upto(k) \cup sets[f[k + 1]])
      BY <2>3, <2>4, FS_Union
    <3> QED
      BY <2>2, <3>1
  <2> QED
    BY <2>1, <2>5
<1>5. 0..n \subseteq T
  <2> HIDE DEF T
  <2> QED
    BY <1>3, <1>4, Induction
<1>6. IsFiniteSet(Upto(n))
  BY <1>5
<1>7. UNION {sets[d] : d \in D} = Upto(n)
  BY <1>2
<1> QED
  BY <1>6, <1>7

=============================================================================
