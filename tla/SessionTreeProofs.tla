------------------------- MODULE SessionTreeProofs -------------------------
(***************************************************************************)
(* One Session stays one: its trees stay trees, its terminals stay those   *)
(* of its panes, and what is thought to be saved is what it shows.         *)
(*                                                                         *)
(* The module goes from the small to the large:                            *)
(*   - recursion along ranks, which gives the depths and the order of the  *)
(*     nodes of a tree their meaning;                                      *)
(*   - what detaching, splitting, swapping and renaming make of a tree     *)
(*     (Holds: its leaves are the panes of a set, each once);              *)
(*   - what the operations make of the tabs and the Spaces (Laid), with    *)
(*     the terminals their panes gain or lose;                             *)
(*   - a Session between two steps (SessionOK), and for every action that  *)
(*     it is one again, of a later revision if its topology changed (Fine);*)
(*     the loop of the exits and the steps of a layout by induction;       *)
(*   - the first Session, a restored one, and the checkpoints (Inv);       *)
(*   - the theorems.                                                       *)
(***************************************************************************)
EXTENDS SessionTree, Counting

-----------------------------------------------------------------------------
(* Recursion over ranks.  A step that looks only at lower ranks defines a   *)
(* function.                                                                *)
Ranked(rank, D, N) == rank \in [D -> 0..N]

LooksBelow(step, rank, D, S) ==
    /\ step \in [D -> [[D -> S] -> S]]
    /\ \A n \in D : \A f, g \in [D -> S] :
          (\A m \in D : rank[m] < rank[n] => f[m] = g[m])
              => step[n][f] = step[n][g]

Solves(f, step, D, S) == f \in [D -> S] /\ \A n \in D : f[n] = step[n][f]

(* Such a recursion has a solution: repeating the step settles one rank     *)
(* after the other.                                                         *)
LEMMA RankedRecursion ==
    ASSUME NEW D, NEW S, S # {}, NEW N \in Nat, NEW rank, NEW step,
           Ranked(rank, D, N), LooksBelow(step, rank, D, S)
    PROVE  \E f : Solves(f, step, D, S)
<1> USE DEF Ranked
<1>0. PICK some \in S : TRUE
  OBVIOUS
<1> DEFINE All == [D -> S]
           base == [n \in D |-> some]
           Once(f) == [n \in D |-> step[n][f]]
           once == [f \in All |-> Once(f)]
           again == [i \in 1..(N + 2) |-> once]
<1>1. base \in All /\ \A f \in All : once[f] = Once(f) /\ Once(f) \in All
  BY <1>0 DEF LooksBelow
<1>2. Closed(again, N + 2, All)
  BY <1>1 DEF Closed
<1> HIDE DEF All, base, once
<1> HIDE DEF again
<1>3. PICK F \in [0..(N + 2) -> All] : Repeats(F, N + 2, base, again)
  BY <1>1, <1>2, N + 2 \in Nat, Recursion
<1>4. \A i \in 0..(N + 1) : F[i] \in All /\ F[i + 1] = Once(F[i])
  <2> TAKE i \in 0..(N + 1)
  <2>1. i + 1 \in 1..(N + 2) /\ (i + 1) - 1 = i /\ i \in 0..(N + 2)
    OBVIOUS
  <2>2. F[i + 1] = again[i + 1][F[i]] /\ F[i] \in All
    BY <1>3, <2>1 DEF Repeats
  <2>3. again[i + 1] = once
    BY <2>1 DEF again
  <2> QED
    BY <1>1, <2>2, <2>3
<1> DEFINE Settled(k) == \A n \in D : rank[n] < k => F[k + 1][n] = F[k][n]
           T == {k \in 0..(N + 1) : Settled(k)}
<1>5. 0 \in T
  OBVIOUS
<1>6. ASSUME NEW k \in Nat, k < N + 1, k \in T PROVE k + 1 \in T
  <2>0. k \in 0..(N + 1) /\ k + 1 \in 0..(N + 1)
    BY <1>6
  <2>1. /\ k \in 0..(N + 1) /\ k + 1 \in 0..(N + 1)
        /\ F[k + 1] = Once(F[k]) /\ F[(k + 1) + 1] = Once(F[k + 1])
        /\ F[k] \in All /\ F[k + 1] \in All
    BY <1>4, <2>0
  <2>2. ASSUME NEW n \in D, rank[n] < k + 1
        PROVE  F[(k + 1) + 1][n] = F[k + 1][n]
    <3>1. ASSUME NEW m \in D, rank[m] < rank[n] PROVE F[k][m] = F[k + 1][m]
      <4>1. rank[m] \in Nat /\ rank[n] \in Nat
        OBVIOUS
      <4>2. rank[m] < k
        BY <2>2, <3>1, <4>1
      <4> QED
        BY <1>6, <4>2
    <3>2. step[n][F[k]] = step[n][F[k + 1]]
      BY <2>1, <3>1 DEF LooksBelow, All
    <3> QED
      BY <2>1, <3>2
  <2> QED
    BY <2>1, <2>2
<1>7. N + 1 \in T
  <2> HIDE DEF T
  <2>1. 0..(N + 1) \subseteq T
    BY <1>5, <1>6, N + 1 \in Nat, Induction
  <2> QED
    BY <2>1
<1> DEFINE f == F[N + 1]
<1>8. f \in All /\ F[(N + 1) + 1] = Once(f)
  <2>1. N + 1 \in 0..(N + 1)
    OBVIOUS
  <2> HIDE DEF Once
  <2> QED
    BY <1>4, <2>1
<1>9. ASSUME NEW n \in D PROVE f[n] = step[n][f]
  <2>1. rank[n] < N + 1
    OBVIOUS
  <2>2. F[(N + 1) + 1][n] = f[n]
    BY <1>7, <2>1
  <2> QED
    BY <1>8, <2>2
<1> QED
  BY <1>8, <1>9 DEF All, Solves

(* The least of what is in doubt settles it.                                *)
LEMMA RankedInduction ==
    ASSUME NEW D, NEW N \in Nat, NEW rank, Ranked(rank, D, N), NEW T,
           \A n \in D : (\A m \in D : rank[m] < rank[n] => m \in T) => n \in T
    PROVE  D \subseteq T
<1> USE DEF Ranked
<1> DEFINE Doubt == {rank[n] : n \in D \ T}
<1>1. Doubt \in SUBSET Nat
  OBVIOUS
<1>2. CASE Doubt # {}
  <2>1. PICK x \in Doubt : \A y \in Doubt : x <= y
    BY <1>1, <1>2, LeastExists
  <2>2. PICK n \in D \ T : rank[n] = x
    BY <2>1
  <2>3. ASSUME NEW m \in D, rank[m] < rank[n] PROVE m \in T
    <3>1. rank[m] \in Nat /\ rank[n] \in Nat /\ ~(rank[n] <= rank[m])
      BY <2>3
    <3>2. rank[m] \notin Doubt
      BY <2>1, <2>2, <3>1
    <3> QED
      BY <3>2
  <2> QED
    BY <2>2, <2>3
<1> QED
  BY <1>2

-----------------------------------------------------------------------------
(* Trees.                                                                   *)

(* The limits are numbers.                                                  *)
LEMMA LimitsType ==
    /\ MaxSpaces \in Nat \ {0} /\ MaxTabs \in Nat \ {0}
    /\ MaxPanes \in Nat \ {0} /\ MaxDepth \in Nat
    /\ MaxTerminals \in Nat \ {0}
BY SessionTreeAssumption

Kids(tab, n) == Children(tab.nodes[n])

(* Levels that rise from a node to what it divides into.                    *)
Rises(tab, level) ==
    \A n \in DOMAIN tab.nodes : \A m \in Kids(tab, n) : level[n] < level[m]

(* A tree has levels that rise from a node to its children.                 *)
LEMMA LevelExists ==
    ASSUME NEW tab, IsTree(tab)
    PROVE  \E level \in [DOMAIN tab.nodes -> 0..MaxDepth] : Rises(tab, level)
BY DEF IsTree, Rises, Kids

(* Every node but the root has one parent.                                  *)
LEMMA ParentIs ==
    ASSUME NEW tab, IsTree(tab), NEW m \in DOMAIN tab.nodes, m # tab.root
    PROVE  /\ ParentOf(tab, m) \in DOMAIN tab.nodes
           /\ m \in Kids(tab, ParentOf(tab, m))
           /\ \A n \in DOMAIN tab.nodes :
                 m \in Kids(tab, n) => n = ParentOf(tab, m)
<1>1. \E n \in DOMAIN tab.nodes : m \in Children(tab.nodes[n])
  BY DEF IsTree
<1>2. /\ ParentOf(tab, m) \in DOMAIN tab.nodes
      /\ m \in Children(tab.nodes[ParentOf(tab, m)])
  BY <1>1 DEF ParentOf
<1>3. ASSUME NEW n \in DOMAIN tab.nodes, m \in Children(tab.nodes[n])
      PROVE  n = ParentOf(tab, m)
  <2>1. Children(tab.nodes[n])
           \cap Children(tab.nodes[ParentOf(tab, m)]) # {}
    BY <1>2, <1>3
  <2> QED
    BY <1>2, <2>1 DEF IsTree
<1> QED
  BY <1>2, <1>3 DEF Kids

(* The children of a node are nodes other than the root: none of a leaf,    *)
(* two of a branch.                                                         *)
LEMMA KidsAre ==
    ASSUME NEW tab, IsTree(tab), NEW n \in DOMAIN tab.nodes
    PROVE  /\ Kids(tab, n) \subseteq DOMAIN tab.nodes
           /\ tab.root \notin Kids(tab, n)
           /\ tab.root \in DOMAIN tab.nodes
           /\ tab.nodes[n] \in NodeType
           /\ tab.nodes[n].leaf => Kids(tab, n) = {}
           /\ ~tab.nodes[n].leaf =>
                 /\ Kids(tab, n) = {tab.nodes[n].first, tab.nodes[n].second}
                 /\ tab.nodes[n].first # tab.nodes[n].second
                 /\ tab.nodes[n].pane = 0
BY DEF IsTree, Kids, Children

(* The root is a node.                                                      *)
LEMMA RootIs ==
    ASSUME NEW tab, IsTree(tab)
    PROVE  tab.root \in DOMAIN tab.nodes
BY DEF IsTree

(* The recursion that defines depths.                                       *)
Deepens(tab, depth) ==
    depth = [n \in DOMAIN tab.nodes |->
                IF n = tab.root THEN 0 ELSE depth[ParentOf(tab, n)] + 1]

DepthsOf(tab) == CHOOSE depth : Deepens(tab, depth)

(* The depth of a node is that of the recursion.                            *)
LEMMA DepthOf ==
    ASSUME NEW tab, NEW n
    PROVE  Depth(tab, n) = DepthsOf(tab)[n]
BY DEF Depth, Deepens, DepthsOf

(* The recursion that defines the depths has a solution: a parent has a     *)
(* lower level.                                                             *)
LEMMA DepthsExist ==
    ASSUME NEW tab, IsTree(tab)
    PROVE  Deepens(tab, DepthsOf(tab))
<1> DEFINE D == DOMAIN tab.nodes
           Next1(n, f) ==
               IF n = tab.root THEN 0 ELSE f[ParentOf(tab, n)] + 1
           step == [n \in D |-> [f \in [D -> Nat] |-> Next1(n, f)]]
<1>1. PICK level \in [D -> 0..MaxDepth] : Rises(tab, level)
  BY LevelExists
<1>2. \A n \in D : n # tab.root =>
         /\ ParentOf(tab, n) \in D
         /\ level[ParentOf(tab, n)] < level[n]
  BY <1>1, ParentIs DEF Rises
<1>3. \A n \in D : \A f \in [D -> Nat] :
         step[n][f] = Next1(n, f) /\ Next1(n, f) \in Nat
  BY <1>2
<1>4. step \in [D -> [[D -> Nat] -> Nat]]
  BY <1>3
<1>5. LooksBelow(step, level, D, Nat)
  <2>1. ASSUME NEW n \in D, NEW f \in [D -> Nat], NEW g \in [D -> Nat],
               \A m \in D : level[m] < level[n] => f[m] = g[m]
        PROVE  step[n][f] = step[n][g]
    <3>1. Next1(n, f) = Next1(n, g)
      BY <1>2, <2>1
    <3> QED
      BY <1>3, <3>1
  <2> HIDE DEF step, D
  <2> QED
    BY <1>4, <2>1 DEF LooksBelow
<1>6. PICK f \in [D -> Nat] : \A n \in D : f[n] = step[n][f]
  <2> DEFINE S == Nat
  <2>1. S # {} /\ MaxDepth \in Nat
    BY LimitsType
  <2>2. LooksBelow(step, level, D, S) /\ Ranked(level, D, MaxDepth)
    BY <1>5 DEF Ranked
  <2> HIDE DEF step, D, S
  <2>3. PICK f : Solves(f, step, D, S)
    BY <2>1, <2>2, RankedRecursion
  <2> QED
    BY <2>3 DEF S, Solves
<1>7. Deepens(tab, f)
  BY <1>3, <1>6 DEF Deepens
<1> QED
  BY <1>7 DEF DepthsOf

(* Depths are numbers within the limit, and rise by one.                    *)
LEMMA DepthsType ==
    ASSUME NEW tab, IsTree(tab)
    PROVE  /\ DepthsOf(tab) \in [DOMAIN tab.nodes -> 0..MaxDepth]
           /\ \A n \in DOMAIN tab.nodes : \A m \in Kids(tab, n) :
                 DepthsOf(tab)[m] = DepthsOf(tab)[n] + 1
           /\ Rises(tab, DepthsOf(tab))
<1> DEFINE D == DOMAIN tab.nodes
           depth == DepthsOf(tab)
<1>1. PICK level \in [D -> 0..MaxDepth] : Rises(tab, level)
  BY LevelExists
<1>2. depth = [n \in D |-> IF n = tab.root THEN 0
                           ELSE depth[ParentOf(tab, n)] + 1]
  BY DepthsExist DEF Deepens
<1> HIDE DEF depth
<1> DEFINE T == {n \in D : depth[n] \in Nat /\ depth[n] <= level[n]}
<1>3. ASSUME NEW n \in D, \A m \in D : level[m] < level[n] => m \in T
      PROVE  n \in T
  <2>1. level[n] \in Nat
    OBVIOUS
  <2>2. CASE n = tab.root
    BY <1>2, <2>1, <2>2
  <2>3. CASE n # tab.root
    <3> DEFINE p == ParentOf(tab, n)
    <3>1. p \in D /\ level[p] < level[n] /\ depth[n] = depth[p] + 1
      BY <1>1, <1>2, <2>3, ParentIs DEF Rises
    <3>2. p \in T
      BY <1>3, <3>1
    <3> HIDE DEF p
    <3>3. level[p] \in Nat
      BY <3>1
    <3> QED
      BY <2>1, <3>1, <3>2, <3>3
  <2> QED
    BY <2>2, <2>3
<1>4. D \subseteq T
  <2>1. Ranked(level, D, MaxDepth)
    BY DEF Ranked
  <2> HIDE DEF T, D
  <2> QED
    BY <1>3, <2>1, LimitsType, RankedInduction
<1>5. \A n \in D : depth[n] \in 0..MaxDepth
  <2>1. \A n \in D : depth[n] \in Nat /\ depth[n] <= level[n]
                     /\ level[n] \in 0..MaxDepth
    BY <1>4
  <2> QED
    BY <2>1, LimitsType
<1>6. depth \in [D -> 0..MaxDepth]
  BY <1>2, <1>5
<1>7. ASSUME NEW n \in D, NEW m \in Kids(tab, n)
      PROVE  depth[m] = depth[n] + 1
  <2>1. m \in D /\ m # tab.root
    BY KidsAre
  <2>2. n = ParentOf(tab, m)
    BY <2>1, ParentIs
  <2> QED
    BY <1>2, <2>1, <2>2
<1>8. Rises(tab, depth)
  <2>1. \A n \in D : \A m \in Kids(tab, n) : depth[n] < depth[m]
    BY <1>5, <1>7
  <2> QED
    BY <2>1 DEF Rises
<1> QED
  BY <1>6, <1>7, <1>8 DEF depth


(* What two sequences hold, one after the other.                            *)
LEMMA ConcatSet ==
    ASSUME NEW S, NEW s \in Seq(S), NEW t \in Seq(S)
    PROVE  /\ s \o t \in Seq(S) /\ ToSet(s \o t) = ToSet(s) \cup ToSet(t)
           /\ IsInjective(s) /\ IsInjective(t) /\ ToSet(s) \cap ToSet(t) = {}
                 => IsInjective(s \o t)
<1>1. /\ s \o t \in Seq(S) /\ Len(s \o t) = Len(s) + Len(t)
      /\ \A i \in 1..(Len(s) + Len(t)) : (s \o t)[i] =
            IF i <= Len(s) THEN s[i] ELSE t[i - Len(s)]
      /\ Len(s) \in Nat /\ Len(t) \in Nat
      /\ DOMAIN s = 1..Len(s) /\ DOMAIN t = 1..Len(t)
      /\ DOMAIN (s \o t) = 1..(Len(s) + Len(t))
  BY ConcatProperties, LenProperties
<1> DEFINE w == s \o t
           L == Len(s)
           M == Len(t)
<1>2. \A i \in 1..(L + M) :
         \/ i \in 1..L /\ w[i] = s[i]
         \/ i \notin 1..L /\ i - L \in 1..M /\ w[i] = t[i - L]
  <2> TAKE i \in 1..(L + M)
  <2>1. w[i] = IF i <= L THEN s[i] ELSE t[i - L]
    BY <1>1
  <2> HIDE DEF w, L, M
  <2>2. L \in Nat /\ M \in Nat
    BY <1>1 DEF L, M
  <2> QED
    BY <2>1, <2>2
<1>3. \A i \in 1..L : i \in 1..(L + M) /\ w[i] = s[i]
  BY <1>1
<1>4. \A j \in 1..M : L + j \in 1..(L + M) /\ w[L + j] = t[j]
  <2> TAKE j \in 1..M
  <2>1. L + j \in 1..(L + M) /\ ~(L + j <= L) /\ (L + j) - L = j
    BY <1>1
  <2> QED
    BY <1>1, <2>1
<1> HIDE DEF w, L, M
<1>5. ToSet(w) = ToSet(s) \cup ToSet(t)
  <2>1. ToSet(w) = {w[i] : i \in 1..(L + M)}
    BY <1>1 DEF ToSet, w, L, M
  <2>2. ToSet(s) = {s[i] : i \in 1..L} /\ ToSet(t) = {t[j] : j \in 1..M}
    BY <1>1 DEF ToSet, L, M
  <2>3. ASSUME NEW x \in ToSet(w) PROVE x \in ToSet(s) \cup ToSet(t)
    BY <1>2, <2>1, <2>2
  <2>4. ASSUME NEW x \in ToSet(s) PROVE x \in ToSet(w)
    BY <1>3, <2>1, <2>2
  <2>5. ASSUME NEW x \in ToSet(t) PROVE x \in ToSet(w)
    BY <1>4, <2>1, <2>2
  <2> QED
    BY <2>3, <2>4, <2>5
<1>6. ASSUME IsInjective(s), IsInjective(t), ToSet(s) \cap ToSet(t) = {},
             NEW i \in 1..(L + M), NEW j \in 1..(L + M), w[i] = w[j]
      PROVE  i = j
  <2>1. /\ \A k, l \in 1..L : s[k] = s[l] => k = l
        /\ \A k, l \in 1..M : t[k] = t[l] => k = l
        /\ \A k \in 1..L : \A l \in 1..M : s[k] # t[l]
    <3>1. \A k, l \in 1..L : s[k] = s[l] => k = l
      BY <1>1, <1>6 DEF IsInjective, L
    <3>2. \A k, l \in 1..M : t[k] = t[l] => k = l
      BY <1>1, <1>6 DEF IsInjective, M
    <3>3. /\ \A k \in 1..L : s[k] \in ToSet(s)
          /\ \A l \in 1..M : t[l] \in ToSet(t)
      BY <1>1 DEF ToSet, L, M
    <3> QED
      BY <1>6, <3>1, <3>2, <3>3
  <2>2. L \in Nat /\ M \in Nat
    BY <1>1 DEF L, M
  <2>3. CASE i \in 1..L /\ j \in 1..L
    BY <1>2, <1>6, <2>1, <2>3
  <2>4. CASE i \notin 1..L /\ j \notin 1..L
    <3>1. i - L = j - L
      BY <1>2, <1>6, <2>1, <2>4
    <3> QED
      BY <2>2, <3>1
  <2>5. CASE i \in 1..L /\ j \notin 1..L
    BY <1>2, <1>6, <2>1, <2>5
  <2>6. CASE i \notin 1..L /\ j \in 1..L
    BY <1>2, <1>6, <2>1, <2>6
  <2> QED
    BY <2>3, <2>4, <2>5, <2>6
<1> QED
  <2>1. DOMAIN w = 1..(L + M)
    BY <1>1 DEF w, L, M
  <2>2. IsInjective(s) /\ IsInjective(t) /\ ToSet(s) \cap ToSet(t) = {}
           => IsInjective(w)
    BY <1>6, <2>1 DEF IsInjective
  <2> QED
    BY <1>1, <1>5, <2>2 DEF w

(* A sequence of one element holds that element.                            *)
LEMMA OneSet ==
    ASSUME NEW S, NEW x \in S
    PROVE  /\ <<x>> \in Seq(S) /\ ToSet(<<x>>) = {x} /\ IsInjective(<<x>>)
BY DEF ToSet, IsInjective

(* What an element and two sequences hold when they are joined.             *)
LEMMA ConcatThree ==
    ASSUME NEW S, NEW x \in S, NEW s \in Seq(S), NEW t \in Seq(S)
    PROVE  /\ <<x>> \o s \o t \in Seq(S)
           /\ ToSet(<<x>> \o s \o t) = {x} \cup ToSet(s) \cup ToSet(t)
           /\ IsInjective(s) /\ IsInjective(t) /\ ToSet(s) \cap ToSet(t) = {}
              /\ x \notin ToSet(s) /\ x \notin ToSet(t)
                 => IsInjective(<<x>> \o s \o t)
<1> DEFINE one == <<x>>
<1>1. one \in Seq(S) /\ ToSet(one) = {x} /\ IsInjective(one)
  BY OneSet
<1> HIDE DEF one
<1>2. /\ one \o s \in Seq(S) /\ ToSet(one \o s) = {x} \cup ToSet(s)
      /\ IsInjective(s) /\ x \notin ToSet(s) => IsInjective(one \o s)
  BY <1>1, ConcatSet
<1> DEFINE two == one \o s
<1> HIDE DEF two
<1>3. /\ two \o t \in Seq(S) /\ ToSet(two \o t) = ToSet(two) \cup ToSet(t)
      /\ IsInjective(two) /\ IsInjective(t) /\ ToSet(two) \cap ToSet(t) = {}
            => IsInjective(two \o t)
  BY <1>2, ConcatSet DEF two
<1>4. /\ two \o t \in Seq(S) /\ ToSet(two \o t) = {x} \cup ToSet(s) \cup ToSet(t)
      /\ IsInjective(s) /\ IsInjective(t) /\ ToSet(s) \cap ToSet(t) = {}
         /\ x \notin ToSet(s) /\ x \notin ToSet(t)
            => IsInjective(two \o t)
  BY <1>2, <1>3 DEF two
<1> QED
  BY <1>4 DEF one, two

(* The recursion that lists what is below a node.                           *)
Branching(tab, n, order) ==
    IF tab.nodes[n].leaf THEN <<n>>
    ELSE <<n>> \o order[tab.nodes[n].first] \o order[tab.nodes[n].second]

Orders(tab, order) ==
    order = [n \in DOMAIN tab.nodes |-> Branching(tab, n, order)]

OrderOf(tab) == CHOOSE order : Orders(tab, order)

(* The preorder lists what is below the root.                               *)
LEMMA PreorderOf ==
    ASSUME NEW tab
    PROVE  Preorder(tab) = OrderOf(tab)[tab.root]
BY DEF Preorder, Orders, OrderOf, Branching

(* A step of the listing lists nodes.                                       *)
LEMMA BranchingType ==
    ASSUME NEW tab, IsTree(tab), NEW n \in DOMAIN tab.nodes, NEW order,
           \A m \in Kids(tab, n) : order[m] \in Seq(DOMAIN tab.nodes)
    PROVE  Branching(tab, n, order) \in Seq(DOMAIN tab.nodes)
<1>1. CASE tab.nodes[n].leaf
  BY <1>1, OneSet DEF Branching
<1>2. CASE ~tab.nodes[n].leaf
  <2>1. /\ order[tab.nodes[n].first] \in Seq(DOMAIN tab.nodes)
        /\ order[tab.nodes[n].second] \in Seq(DOMAIN tab.nodes)
    BY <1>2, KidsAre
  <2>2. <<n>> \in Seq(DOMAIN tab.nodes)
    BY OneSet
  <2>3. <<n>> \o order[tab.nodes[n].first] \in Seq(DOMAIN tab.nodes)
    BY <2>1, <2>2, ConcatSet
  <2> QED
    BY <1>2, <2>1, <2>3, ConcatSet DEF Branching
<1> QED
  BY <1>1, <1>2

(* Heights are levels counted from below.                                   *)
LEMMA HeightExists ==
    ASSUME NEW tab, IsTree(tab)
    PROVE  \E height : /\ Ranked(height, DOMAIN tab.nodes, MaxDepth)
                       /\ \A n \in DOMAIN tab.nodes : \A m \in Kids(tab, n) :
                             height[m] < height[n]
<1> DEFINE D == DOMAIN tab.nodes
<1>1. PICK level \in [D -> 0..MaxDepth] : Rises(tab, level)
  BY LevelExists
<1> DEFINE height == [n \in D |-> MaxDepth - level[n]]
<1>2. \A n \in D : level[n] \in 0..MaxDepth
  OBVIOUS
<1>3. \A n \in D : height[n] = MaxDepth - level[n] /\ height[n] \in 0..MaxDepth
  BY <1>2, LimitsType
<1>4. height \in [D -> 0..MaxDepth]
  BY <1>3
<1>5. ASSUME NEW n \in D, NEW m \in Kids(tab, n) PROVE height[m] < height[n]
  <2>1. m \in D /\ level[n] < level[m]
    BY <1>1, KidsAre DEF Rises
  <2> HIDE DEF height
  <2> QED
    BY <1>2, <1>3, <2>1, LimitsType
<1> QED
  BY <1>4, <1>5 DEF Ranked

(* The recursion that lists a tree has a solution: a child has a higher     *)
(* level.                                                                   *)
LEMMA OrdersExist ==
    ASSUME NEW tab, IsTree(tab)
    PROVE  Orders(tab, OrderOf(tab))
<1> DEFINE D == DOMAIN tab.nodes
           S == Seq(D)
           Next1(n, f) == Branching(tab, n, f)
           step == [n \in D |-> [f \in [D -> S] |-> Next1(n, f)]]
<1>1. PICK height : /\ Ranked(height, D, MaxDepth)
                    /\ \A n \in D : \A m \in Kids(tab, n) :
                          height[m] < height[n]
  BY HeightExists
<1>2. ASSUME NEW n \in D, NEW f \in [D -> S] PROVE Next1(n, f) \in S
  <2>1. \A m \in Kids(tab, n) : f[m] \in S
    BY KidsAre
  <2> QED
    BY <2>1, BranchingType
<1> HIDE DEF Next1
<1>3. \A n \in D : \A f \in [D -> S] : step[n][f] = Next1(n, f)
  OBVIOUS
<1>4. step \in [D -> [[D -> S] -> S]]
  BY <1>2
<1>5. LooksBelow(step, height, D, S)
  <2>1. ASSUME NEW n \in D, NEW f \in [D -> S], NEW g \in [D -> S],
               \A m \in D : height[m] < height[n] => f[m] = g[m]
        PROVE  step[n][f] = step[n][g]
    <3>1. \A m \in Kids(tab, n) : f[m] = g[m]
      BY <1>1, <2>1, KidsAre
    <3>2. Next1(n, f) = Next1(n, g)
      BY <3>1, KidsAre DEF Next1, Branching
    <3> QED
      BY <1>3, <3>2
  <2> HIDE DEF step, D, S
  <2> QED
    BY <1>4, <2>1 DEF LooksBelow
<1>6. PICK f : Solves(f, step, D, S)
  <2>1. S # {} /\ MaxDepth \in Nat
    BY LimitsType, EmptySeq
  <2> HIDE DEF step, D, S
  <2> QED
    BY <1>1, <1>5, <2>1, RankedRecursion
<1>7. Orders(tab, f)
  <2>1. f \in [D -> S] /\ \A n \in D : f[n] = step[n][f]
    BY <1>6 DEF Solves
  <2>2. \A n \in D : f[n] = Branching(tab, n, f)
    BY <1>3, <2>1 DEF Next1
  <2> QED
    BY <2>1, <2>2 DEF Orders
<1> QED
  BY <1>7 DEF OrderOf


(* The nodes below one, itself included.                                    *)
Below(tab, n) == ToSet(OrderOf(tab)[n])

(* What is listed below a node are nodes, in the order of the recursion.    *)
LEMMA OrderType ==
    ASSUME NEW tab, IsTree(tab)
    PROVE  /\ OrderOf(tab) \in [DOMAIN tab.nodes -> Seq(DOMAIN tab.nodes)]
           /\ \A n \in DOMAIN tab.nodes :
                 OrderOf(tab)[n] = Branching(tab, n, OrderOf(tab))
<1> DEFINE D == DOMAIN tab.nodes
           S == Seq(D)
           order == OrderOf(tab)
           T == {n \in D : order[n] \in S}
<1>1. PICK height : /\ Ranked(height, D, MaxDepth)
                    /\ \A n \in D : \A m \in Kids(tab, n) :
                          height[m] < height[n]
  BY HeightExists
<1>2. order = [n \in D |-> Branching(tab, n, order)]
  BY OrdersExist DEF Orders
<1> HIDE DEF order
<1>3. ASSUME NEW n \in D, \A m \in D : height[m] < height[n] => m \in T
      PROVE  n \in T
  <2>1. \A m \in Kids(tab, n) : order[m] \in S
    BY <1>1, <1>3, KidsAre
  <2>2. Branching(tab, n, order) \in S
    BY <2>1, BranchingType
  <2> QED
    BY <1>2, <2>2
<1>4. D \subseteq T
  <2>1. MaxDepth \in Nat
    BY LimitsType
  <2> HIDE DEF T, D
  <2> QED
    BY <1>1, <1>3, <2>1, RankedInduction
<1>5. \A n \in D : order[n] \in S
  BY <1>4
<1>6. order \in [D -> S]
  BY <1>2, <1>5
<1> QED
  BY <1>2, <1>6 DEF order

(* Below a node are the node and what is below its children.                *)
LEMMA BelowIs ==
    ASSUME NEW tab, IsTree(tab), NEW n \in DOMAIN tab.nodes
    PROVE  /\ Below(tab, n) \subseteq DOMAIN tab.nodes
           /\ Below(tab, n) = {n} \cup UNION {Below(tab, m) : m \in Kids(tab, n)}
<1> DEFINE D == DOMAIN tab.nodes
           order == OrderOf(tab)
<1>1. \A m \in D : order[m] \in Seq(D)
  BY OrderType
<1>2. Below(tab, n) \subseteq D
  BY <1>1, LenProperties, ElementOfSeq DEF Below, ToSet
<1>3. CASE tab.nodes[n].leaf
  <2>1. order[n] = <<n>> /\ Kids(tab, n) = {}
    BY <1>3, OrderType, KidsAre DEF Branching
  <2>2. Below(tab, n) = {n}
    BY <2>1, OneSet DEF Below
  <2> QED
    BY <1>2, <2>1, <2>2
<1>4. CASE ~tab.nodes[n].leaf
  <2> DEFINE a == tab.nodes[n].first
             b == tab.nodes[n].second
  <2>1. /\ order[n] = <<n>> \o order[a] \o order[b]
        /\ Kids(tab, n) = {a, b} /\ a \in D /\ b \in D
    BY <1>4, OrderType, KidsAre DEF Branching
  <2> HIDE DEF a, b
  <2>4. ToSet(order[n]) = {n} \cup ToSet(order[a]) \cup ToSet(order[b])
    <3>1. order[a] \in Seq(D) /\ order[b] \in Seq(D) /\ n \in D
      BY <1>1, <2>1
    <3> HIDE DEF order, D
    <3> QED
      BY <2>1, <3>1, ConcatThree
  <2>5. Below(tab, n) = {n} \cup Below(tab, a) \cup Below(tab, b)
    BY <2>4 DEF Below
  <2> QED
    BY <1>2, <2>1, <2>5
<1> QED
  BY <1>3, <1>4

(* What is below a node is the node or has its parent below it ...          *)
LEMMA ParentBelow ==
    ASSUME NEW tab, IsTree(tab), NEW n \in DOMAIN tab.nodes,
           NEW m \in Below(tab, n), m # n
    PROVE  m # tab.root /\ ParentOf(tab, m) \in Below(tab, n)
<1> DEFINE D == DOMAIN tab.nodes
           T == {k \in D : \A l \in Below(tab, k) : l # k =>
                    l # tab.root /\ ParentOf(tab, l) \in Below(tab, k)}
<1>1. PICK height : /\ Ranked(height, D, MaxDepth)
                    /\ \A k \in D : \A l \in Kids(tab, k) :
                          height[l] < height[k]
  BY HeightExists
<1>2. ASSUME NEW k \in D, \A l \in D : height[l] < height[k] => l \in T
      PROVE  k \in T
  <2>1. ASSUME NEW l \in Below(tab, k), l # k
        PROVE  l # tab.root /\ ParentOf(tab, l) \in Below(tab, k)
    <3>1. PICK c \in Kids(tab, k) : l \in Below(tab, c)
      BY <2>1, BelowIs
    <3>2. c \in D /\ c # tab.root /\ c \in T
      BY <1>1, <1>2, KidsAre
    <3>3. Below(tab, c) \subseteq Below(tab, k) /\ k \in Below(tab, k)
      BY <3>1, BelowIs
    <3>4. CASE l = c
      <4>1. ParentOf(tab, c) = k
        BY <3>1, <3>2, ParentIs
      <4> QED
        BY <3>2, <3>3, <3>4, <4>1
    <3>5. CASE l # c
      BY <3>1, <3>2, <3>3, <3>5
    <3> QED
      BY <3>4, <3>5
  <2> QED
    BY <2>1
<1>3. D \subseteq T
  <2>1. MaxDepth \in Nat
    BY LimitsType
  <2> HIDE DEF T, D
  <2> QED
    BY <1>1, <1>2, <2>1, RankedInduction
<1> QED
  BY <1>3

(* ... at a higher level, ...                                               *)
LEMMA LevelBelow ==
    ASSUME NEW tab, IsTree(tab),
           NEW level \in [DOMAIN tab.nodes -> 0..MaxDepth], Rises(tab, level),
           NEW n \in DOMAIN tab.nodes, NEW m \in Below(tab, n)
    PROVE  m = n \/ level[n] < level[m]
<1> DEFINE D == DOMAIN tab.nodes
           T == {k \in D : k \in Below(tab, n) =>
                              k = n \/ level[n] < level[k]}
<1>1. ASSUME NEW k \in D, \A l \in D : level[l] < level[k] => l \in T
      PROVE  k \in T
  <2>1. ASSUME k \in Below(tab, n), k # n PROVE level[n] < level[k]
    <3> DEFINE p == ParentOf(tab, k)
    <3>1. k # tab.root /\ p \in Below(tab, n)
      BY <2>1, ParentBelow
    <3>2. p \in D /\ k \in Kids(tab, p)
      BY <3>1, ParentIs
    <3> HIDE DEF p
    <3>3. level[p] < level[k]
      BY <3>2 DEF Rises
    <3>4. p = n \/ level[n] < level[p]
      BY <1>1, <3>1, <3>2, <3>3
    <3>5. level[p] \in Nat /\ level[k] \in Nat /\ level[n] \in Nat
      BY <3>2
    <3> QED
      BY <3>3, <3>4, <3>5
  <2> QED
    BY <2>1
<1>2. D \subseteq T
  <2>1. MaxDepth \in Nat /\ Ranked(level, D, MaxDepth)
    BY LimitsType DEF Ranked
  <2> HIDE DEF T, D
  <2> QED
    BY <1>1, <2>1, RankedInduction
<1>3. m \in D
  BY BelowIs
<1> QED
  BY <1>2, <1>3

(* ... and what two siblings divide into is apart.                          *)
LEMMA SiblingsApart ==
    ASSUME NEW tab, IsTree(tab), NEW n \in DOMAIN tab.nodes,
           NEW a \in Kids(tab, n), NEW b \in Kids(tab, n), a # b
    PROVE  Below(tab, a) \cap Below(tab, b) = {} /\ n \notin Below(tab, a)
<1> DEFINE D == DOMAIN tab.nodes
           T == {k \in D : ~(k \in Below(tab, a) /\ k \in Below(tab, b))}
<1>1. PICK level \in [D -> 0..MaxDepth] : Rises(tab, level)
  BY LevelExists
<1>2. /\ a \in D /\ b \in D /\ a # tab.root /\ b # tab.root
      /\ ParentOf(tab, a) = n /\ ParentOf(tab, b) = n
  BY KidsAre, ParentIs
<1>3. /\ level[n] < level[a] /\ level[n] < level[b] /\ level[n] \in Nat
      /\ level[a] \in Nat /\ level[b] \in Nat
  BY <1>1, <1>2 DEF Rises
<1>4. n \notin Below(tab, a) /\ n \notin Below(tab, b)
  <2>1. \A x, y \in Nat : x < y => x # y /\ ~(y < x)
    OBVIOUS
  <2>2. n # a /\ n # b /\ ~(level[a] < level[n]) /\ ~(level[b] < level[n])
    BY <1>3, <2>1
  <2> QED
    BY <1>1, <1>2, <2>2, LevelBelow
<1>5. ASSUME NEW k \in D, \A l \in D : level[l] < level[k] => l \in T
      PROVE  k \in T
  <2>1. SUFFICES ASSUME k \in Below(tab, a), k \in Below(tab, b)
                 PROVE  FALSE
    OBVIOUS
  <2>2. CASE k = a
    BY <1>2, <1>4, <2>1, <2>2, ParentBelow
  <2>3. CASE k = b
    BY <1>2, <1>4, <2>1, <2>3, ParentBelow
  <2>4. CASE k # a /\ k # b
    <3>1. /\ k # tab.root /\ ParentOf(tab, k) \in Below(tab, a)
          /\ ParentOf(tab, k) \in Below(tab, b)
      BY <1>2, <2>1, <2>4, ParentBelow
    <3>2. ParentOf(tab, k) \in D /\ level[ParentOf(tab, k)] < level[k]
      BY <1>1, <3>1, ParentIs DEF Rises
    <3> QED
      BY <1>5, <3>1, <3>2
  <2> QED
    BY <2>2, <2>3, <2>4
<1>6. D \subseteq T
  <2>1. MaxDepth \in Nat /\ Ranked(level, D, MaxDepth)
    BY LimitsType DEF Ranked
  <2> HIDE DEF T, D
  <2> QED
    BY <1>5, <2>1, RankedInduction
<1>7. Below(tab, a) \subseteq D
  BY <1>2, BelowIs
<1> QED
  BY <1>4, <1>6, <1>7

(* Every node is below the root, once.                                      *)
LEMMA OrderOnce ==
    ASSUME NEW tab, IsTree(tab)
    PROVE  /\ Below(tab, tab.root) = DOMAIN tab.nodes
           /\ \A n \in DOMAIN tab.nodes : IsInjective(OrderOf(tab)[n])
<1> DEFINE D == DOMAIN tab.nodes
           order == OrderOf(tab)
           R == {k \in D : k \in Below(tab, tab.root)}
           T == {k \in D : IsInjective(order[k])}
<1>0. MaxDepth \in Nat
  BY LimitsType
<1>1. PICK level \in [D -> 0..MaxDepth] : Rises(tab, level)
  BY LevelExists
<1>2. PICK height : /\ Ranked(height, D, MaxDepth)
                    /\ \A k \in D : \A l \in Kids(tab, k) :
                          height[l] < height[k]
  BY HeightExists
<1>3. ASSUME NEW n \in D, NEW c \in Kids(tab, n), NEW k \in D,
             n \in Below(tab, k)
      PROVE  c \in Below(tab, k)
  <2> DEFINE C == {x \in D : n \in Below(tab, x) => c \in Below(tab, x)}
  <2>1. ASSUME NEW x \in D, \A l \in D : height[l] < height[x] => l \in C,
               n \in Below(tab, x)
        PROVE  c \in Below(tab, x)
    <3>1. CASE x = n
      <4>1. c \in D
        BY KidsAre
      <4> QED
        BY <3>1, <4>1, BelowIs
    <3>2. CASE x # n
      <4>1. PICK l \in Kids(tab, x) : n \in Below(tab, l)
        BY <2>1, <3>2, BelowIs
      <4>2. l \in C
        BY <1>2, <2>1, KidsAre
      <4> QED
        BY <4>1, <4>2, BelowIs
    <3> QED
      BY <3>1, <3>2
  <2>2. \A x \in D : (\A l \in D : height[l] < height[x] => l \in C)
                        => x \in C
    BY <2>1
  <2>3. D \subseteq C
    <3> HIDE DEF C, D
    <3> QED
      BY <1>0, <1>2, <2>2, RankedInduction
  <2> QED
    BY <1>3, <2>3
<1>4. ASSUME NEW k \in D, \A l \in D : level[l] < level[k] => l \in R
      PROVE  k \in R
  <2>1. tab.root \in D
    BY KidsAre
  <2>2. CASE k = tab.root
    BY <2>1, <2>2, BelowIs
  <2>3. CASE k # tab.root
    <3>1. /\ ParentOf(tab, k) \in D /\ k \in Kids(tab, ParentOf(tab, k))
          /\ level[ParentOf(tab, k)] < level[k]
      BY <1>1, <2>3, ParentIs DEF Rises
    <3>2. ParentOf(tab, k) \in Below(tab, tab.root)
      BY <1>4, <3>1
    <3> QED
      BY <1>3, <2>1, <3>1, <3>2
  <2> QED
    BY <2>2, <2>3
<1>5. D \subseteq R
  <2>1. Ranked(level, D, MaxDepth)
    BY DEF Ranked
  <2> HIDE DEF R, D
  <2> QED
    BY <1>0, <1>4, <2>1, RankedInduction
<1>6. ASSUME NEW k \in D, \A l \in D : height[l] < height[k] => l \in T
      PROVE  k \in T
  <2>1. \A m \in D : order[m] \in Seq(D)
    BY OrderType
  <2>2. <<k>> \in Seq(D) /\ ToSet(<<k>>) = {k} /\ IsInjective(<<k>>)
    BY OneSet
  <2>3. CASE tab.nodes[k].leaf
    BY <2>2, <2>3, OrderType DEF Branching
  <2>4. CASE ~tab.nodes[k].leaf
    <3> DEFINE a == tab.nodes[k].first
               b == tab.nodes[k].second
    <3>0. order[k] = <<k>> \o order[a] \o order[b]
      BY <2>4, OrderType DEF Branching
    <3>1. /\ order[k] = <<k>> \o order[a] \o order[b]
          /\ a \in Kids(tab, k) /\ b \in Kids(tab, k) /\ a # b
          /\ a \in D /\ b \in D
      BY <2>4, <3>0, KidsAre
    <3> HIDE DEF a, b
    <3>2. IsInjective(order[a]) /\ IsInjective(order[b])
      BY <1>2, <1>6, <3>1
    <3>3. /\ Below(tab, a) \cap Below(tab, b) = {}
          /\ k \notin Below(tab, a) /\ k \notin Below(tab, b)
      BY <3>1, SiblingsApart
    <3>4. /\ ToSet(order[a]) \cap ToSet(order[b]) = {}
          /\ k \notin ToSet(order[a]) /\ k \notin ToSet(order[b])
          /\ order[a] \in Seq(D) /\ order[b] \in Seq(D)
      BY <2>1, <3>1, <3>3 DEF Below
    <3> HIDE DEF order, D
    <3>5. IsInjective(<<k>> \o order[a] \o order[b])
      BY <3>1, <3>2, <3>4, ConcatThree
    <3> QED
      BY <3>0, <3>5
  <2> QED
    BY <2>3, <2>4
<1>7. D \subseteq T
  <2>1. \A k \in D : (\A l \in D : height[l] < height[k] => l \in T)
                        => k \in T
    BY <1>6
  <2> HIDE DEF T, D
  <2> QED
    BY <1>0, <1>2, <2>1, RankedInduction
<1>8. Below(tab, tab.root) \subseteq D
  BY RootIs, BelowIs
<1> QED
  BY <1>5, <1>7, <1>8

(* The nodes in order, branches first: each once.                           *)
LEMMA PreorderType ==
    ASSUME NEW tab, IsTree(tab)
    PROVE  /\ Preorder(tab) \in Seq(DOMAIN tab.nodes)
           /\ IsInjective(Preorder(tab))
           /\ ToSet(Preorder(tab)) = DOMAIN tab.nodes
<1>1. tab.root \in DOMAIN tab.nodes
  BY RootIs
<1>2. Preorder(tab) = OrderOf(tab)[tab.root]
  BY PreorderOf
<1>3. OrderOf(tab)[tab.root] \in Seq(DOMAIN tab.nodes)
  BY <1>1, OrderType
<1> QED
  BY <1>1, <1>2, <1>3, OrderOnce DEF Below


-----------------------------------------------------------------------------
(* What the operations make of a tree whose leaves are the panes P.         *)
Holds(tab, P) ==
    /\ IsTree(tab)
    /\ {tab.nodes[n].pane : n \in Leaves(tab)} = P
    /\ \A m, n \in Leaves(tab) : tab.nodes[m].pane = tab.nodes[n].pane => m = n

(* Every pane has one leaf.                                                 *)
LEMMA LeafIs ==
    ASSUME NEW tab, NEW P, Holds(tab, P), NEW p \in P
    PROVE  /\ LeafOf(tab, p) \in DOMAIN tab.nodes
           /\ tab.nodes[LeafOf(tab, p)].leaf
           /\ tab.nodes[LeafOf(tab, p)].pane = p
           /\ LeafOf(tab, p) \in Leaves(tab)
           /\ \A n \in Leaves(tab) : tab.nodes[n].pane = p => n = LeafOf(tab, p)
<1>1. \E n \in Leaves(tab) : tab.nodes[n].pane = p
  BY DEF Holds
<1>2. LeafOf(tab, p) \in Leaves(tab) /\ tab.nodes[LeafOf(tab, p)].pane = p
  BY <1>1 DEF LeafOf
<1> QED
  BY <1>2 DEF Holds, Leaves

(* A tree that takes its nodes from another one: what a node divides into   *)
(* stays, and all but some leaves are taken.                                *)
LEMMA DetachHolds ==
    ASSUME NEW tab, NEW P, Holds(tab, P), NEW p \in P, NEW q \in P, p # q,
           NEW new, new = Detach(tab, p),
           tab = [root |-> tab.root, nodes |-> tab.nodes, panes |-> tab.panes]
    PROVE  /\ Holds(new, P \ {p})
           /\ DOMAIN new.nodes \subseteq DOMAIN tab.nodes
           /\ new.panes = tab.panes
           /\ new = [root |-> new.root, nodes |-> new.nodes,
                     panes |-> new.panes]
<1> DEFINE D == DOMAIN tab.nodes
           L == LeafOf(tab, p)
           K == ParentOf(tab, L)
           S == SiblingOf(tab, L)
           E == D \ {L, S}
<1>1. /\ L \in D /\ tab.nodes[L].leaf /\ tab.nodes[L].pane = p
      /\ \A n \in Leaves(tab) : tab.nodes[n].pane = p => n = L
  BY LeafIs
<1>2. IsTree(tab)
  BY DEF Holds
<1>3. L # tab.root
  <2>1. SUFFICES ASSUME L = tab.root PROVE FALSE
    OBVIOUS
  <2>2. Below(tab, L) = {L}
    BY <1>1, <1>2, BelowIs, KidsAre
  <2>3. D = {L}
    BY <1>2, <2>1, <2>2, OrderOnce
  <2>4. LeafOf(tab, q) \in D /\ tab.nodes[LeafOf(tab, q)].pane = q
    BY LeafIs
  <2> QED
    BY <1>1, <2>3, <2>4
<1>4. /\ K \in D /\ L \in Kids(tab, K)
      /\ \A n \in D : L \in Kids(tab, n) => n = K
  BY <1>1, <1>2, <1>3, ParentIs
<1>5. S \in Kids(tab, K) /\ S # L /\ Kids(tab, K) = {L, S}
  <2>1. \E m \in Children(tab.nodes[K]) : m # L
    BY <1>2, <1>4, KidsAre DEF Kids
  <2>2. S \in Children(tab.nodes[K]) /\ S # L
    BY <2>1 DEF SiblingOf
  <2> QED
    BY <1>2, <1>4, <2>2, KidsAre DEF Kids
<1>6. PICK level \in [D -> 0..MaxDepth] : Rises(tab, level)
  BY <1>2, LevelExists
<1>7. /\ S \in D /\ K # L /\ K # S /\ tab.root # S
      /\ level[K] < level[S] /\ ~tab.nodes[K].leaf
  <2>1. S \in D /\ tab.root # S /\ ~tab.nodes[K].leaf
    BY <1>2, <1>4, <1>5, KidsAre
  <2>2. level[K] < level[L] /\ level[K] < level[S] /\ level[K] \in Nat
    BY <1>4, <1>5, <1>6 DEF Rises
  <2> QED
    BY <2>1, <2>2
<1>8. \A n \in D : S \in Kids(tab, n) => n = K
  <2>1. K = ParentOf(tab, S)
    BY <1>2, <1>4, <1>5, <1>7, ParentIs
  <2> QED
    BY <1>2, <1>7, <2>1, ParentIs
<1> HIDE DEF L, K, S
<1>9. /\ new.root = tab.root /\ new.panes = tab.panes
      /\ new = [root |-> new.root, nodes |-> new.nodes, panes |-> new.panes]
      /\ new.nodes = [n \in E |-> IF n = K THEN tab.nodes[S] ELSE tab.nodes[n]]
  <2> DEFINE nodes == [tab.nodes EXCEPT ![K] = tab.nodes[S]]
  <2>1. new = [tab EXCEPT !.nodes = Restrict(nodes, DOMAIN nodes \ {L, S})]
    BY DEF Detach, L, K, S
  <2>2. DOMAIN nodes = D /\ \A n \in D : nodes[n] =
           IF n = K THEN tab.nodes[S] ELSE tab.nodes[n]
    OBVIOUS
  <2>3. Restrict(nodes, DOMAIN nodes \ {L, S}) =
           [n \in E |-> IF n = K THEN tab.nodes[S] ELSE tab.nodes[n]]
    BY <2>2 DEF Restrict
  <2> HIDE DEF nodes
  <2> QED
    BY <2>1, <2>3
<1> DEFINE from == [n \in E |-> IF n = K THEN S ELSE n]
<1>10. /\ DOMAIN new.nodes = E /\ E \subseteq D
       /\ \A n \in E : from[n] \in D /\ from[n] # L /\ from[n] # K
                       /\ (from[n] = S <=> n = K) /\ (n # K => from[n] = n)
       /\ \A n \in E : new.nodes[n] = tab.nodes[from[n]]
  <2>1. DOMAIN new.nodes = E /\ E \subseteq D
    BY <1>9
  <2>2. ASSUME NEW n \in E
        PROVE  /\ from[n] \in D /\ from[n] # L /\ from[n] # K
               /\ (from[n] = S <=> n = K) /\ (n # K => from[n] = n)
    BY <1>1, <1>4, <1>5, <1>7
  <2>3. ASSUME NEW n \in E PROVE new.nodes[n] = tab.nodes[from[n]]
    BY <1>9
  <2> QED
    BY <2>1, <2>2, <2>3
<1>11. \A m, n \in E : from[m] = from[n] => m = n
  BY <1>10
<1>12. \A k \in D \ {L, K} : \E n \in E : from[n] = k
  <2> TAKE k \in D \ {L, K}
  <2>1. CASE k = S
    BY <1>4, <1>7, <2>1
  <2>2. CASE k # S
    BY <2>2
  <2> QED
    BY <2>1, <2>2
<1>13. \A n \in E : Children(new.nodes[n]) = Kids(tab, from[n])
  BY <1>10 DEF Kids
<1> HIDE DEF from
<1>14. IsTree(new)
  <2>1. IsFiniteSet(E) /\ E \subseteq NodeIds
    BY <1>2, FS_Subset DEF IsTree
  <2>2. ASSUME NEW n \in E
        PROVE  /\ new.nodes[n] \in NodeType
               /\ Children(new.nodes[n]) \subseteq E \ {new.root}
               /\ \/ new.nodes[n].leaf
                  \/ /\ new.nodes[n].first # new.nodes[n].second
                     /\ new.nodes[n].pane = 0
    <3>1. from[n] \in D /\ from[n] # K
      BY <1>10
    <3>2. /\ Kids(tab, from[n]) \subseteq D /\ tab.root \notin Kids(tab, from[n])
          /\ L \notin Kids(tab, from[n]) /\ S \notin Kids(tab, from[n])
      BY <1>2, <1>4, <1>8, <3>1, KidsAre
    <3>3. /\ new.nodes[n] \in NodeType
          /\ \/ new.nodes[n].leaf
             \/ /\ new.nodes[n].first # new.nodes[n].second
                /\ new.nodes[n].pane = 0
      BY <1>2, <1>10, <3>1, KidsAre
    <3> QED
      BY <1>9, <1>13, <3>2, <3>3
  <2>3. new.root \in E
    BY <1>2, <1>3, <1>7, <1>9, RootIs
  <2>4. ASSUME NEW m \in E \ {new.root}
        PROVE  \E n \in E : m \in Children(new.nodes[n])
    <3>1. /\ ParentOf(tab, m) \in D /\ m \in Kids(tab, ParentOf(tab, m))
      BY <1>2, <1>9, ParentIs
    <3>2. ParentOf(tab, m) # L /\ ParentOf(tab, m) # K
      BY <1>1, <1>2, <1>5, <3>1, KidsAre
    <3>3. PICK n \in E : from[n] = ParentOf(tab, m)
      BY <1>12, <3>1, <3>2
    <3> QED
      BY <1>13, <3>1, <3>3
  <2>5. ASSUME NEW m \in E, NEW n \in E,
               Children(new.nodes[m]) \cap Children(new.nodes[n]) # {}
        PROVE  m = n
    <3>1. PICK k : k \in Kids(tab, from[m]) /\ k \in Kids(tab, from[n])
      BY <1>13, <2>5
    <3>2. from[m] \in D /\ from[n] \in D
      BY <1>10
    <3>3. from[m] = from[n]
      BY <1>2, <3>1, <3>2, KidsAre, ParentIs
    <3> QED
      BY <1>11, <3>3
  <2>6. \E lower \in [E -> 0..MaxDepth] :
           \A n \in E : \A m \in Children(new.nodes[n]) : lower[n] < lower[m]
    <3> DEFINE lower == [n \in E |-> level[n]]
    <3>1. lower \in [E -> 0..MaxDepth]
      OBVIOUS
    <3>2. ASSUME NEW n \in E, NEW m \in Children(new.nodes[n])
          PROVE  level[n] < level[m]
      <4>1. m \in Kids(tab, from[n]) /\ from[n] \in D /\ m \in D
        BY <1>2, <1>10, <1>13, <3>2, KidsAre
      <4>2. level[from[n]] < level[m]
        BY <1>6, <4>1 DEF Rises
      <4>3. CASE n = K
        <5>1. from[n] = S /\ level[K] < level[S]
          BY <1>7, <1>10, <4>3
        <5>2. level[K] \in Nat /\ level[S] \in Nat /\ level[m] \in Nat
          BY <1>4, <1>7, <4>1
        <5> QED
          BY <4>2, <4>3, <5>1, <5>2
      <4>4. CASE n # K
        BY <1>10, <4>2, <4>4
      <4> QED
        BY <4>3, <4>4
    <3>3. \A n \in E : \A m \in Children(new.nodes[n]) : lower[n] < lower[m]
      <4> TAKE n \in E
      <4> TAKE m \in Children(new.nodes[n])
      <4>1. m \in E
        BY <2>2
      <4> QED
        BY <3>2, <4>1
    <3> HIDE DEF lower
    <3> QED
      BY <3>1, <3>3
  <2> HIDE DEF E, D
  <2> QED
    BY <1>10, <2>1, <2>2, <2>3, <2>4, <2>5, <2>6 DEF IsTree
<1>15. \A n \in E : n \in Leaves(new) <=> from[n] \in Leaves(tab)
  BY <1>10 DEF Leaves
<1>16. Leaves(new) \subseteq E
  BY <1>10 DEF Leaves
<1>17. {new.nodes[n].pane : n \in Leaves(new)} = P \ {p}
  <2>1. ASSUME NEW n \in Leaves(new) PROVE new.nodes[n].pane \in P \ {p}
    <3>1. n \in E /\ from[n] \in Leaves(tab) /\ from[n] # L
      BY <1>10, <1>15, <1>16
    <3>2. new.nodes[n].pane = tab.nodes[from[n]].pane
      BY <1>10, <3>1
    <3> QED
      BY <1>1, <3>1, <3>2 DEF Holds
  <2>2. ASSUME NEW r \in P \ {p}
        PROVE  \E n \in Leaves(new) : new.nodes[n].pane = r
    <3> DEFINE l == LeafOf(tab, r)
    <3>1. l \in D /\ l \in Leaves(tab) /\ tab.nodes[l].pane = r
      BY LeafIs
    <3>2. l # L /\ l # K
      BY <1>1, <1>7, <3>1 DEF Leaves
    <3> HIDE DEF l
    <3>3. PICK n \in E : from[n] = l
      BY <1>12, <3>1, <3>2
    <3> QED
      BY <1>10, <1>15, <3>1, <3>3
  <2> QED
    BY <2>1, <2>2
<1>18. \A m, n \in Leaves(new) :
          new.nodes[m].pane = new.nodes[n].pane => m = n
  <2> TAKE m, n \in Leaves(new)
  <2>1. /\ m \in E /\ n \in E /\ from[m] \in Leaves(tab)
        /\ from[n] \in Leaves(tab)
    BY <1>15, <1>16
  <2>2. tab.nodes[from[m]].pane = tab.nodes[from[n]].pane
           => from[m] = from[n]
    BY <2>1 DEF Holds
  <2> QED
    BY <1>10, <1>11, <2>1, <2>2
<1> QED
  BY <1>9, <1>10, <1>14, <1>17, <1>18 DEF Holds


(* A tree no higher than N.                                                 *)
Within(tab, N) ==
    \E level \in [DOMAIN tab.nodes -> 0..N] : Rises(tab, level)

(* No way to count levels makes a node less deep.                           *)
LEMMA DepthLeast ==
    ASSUME NEW tab, IsTree(tab), NEW N \in Nat, Within(tab, N),
           NEW n \in DOMAIN tab.nodes
    PROVE  Depth(tab, n) \in 0..N /\ Depth(tab, n) \in 0..MaxDepth
<1> DEFINE D == DOMAIN tab.nodes
           depth == DepthsOf(tab)
<1>1. PICK level \in [D -> 0..N] : Rises(tab, level)
  BY DEF Within
<1>2. depth = [k \in D |-> IF k = tab.root THEN 0
                           ELSE depth[ParentOf(tab, k)] + 1]
  BY DepthsExist DEF Deepens
<1>3. depth \in [D -> 0..MaxDepth]
  BY DepthsType
<1> HIDE DEF depth
<1> DEFINE T == {k \in D : depth[k] <= level[k]}
<1>4. ASSUME NEW k \in D, \A m \in D : level[m] < level[k] => m \in T
      PROVE  k \in T
  <2>1. level[k] \in Nat
    OBVIOUS
  <2>2. CASE k = tab.root
    BY <1>2, <2>1, <2>2
  <2>3. CASE k # tab.root
    <3> DEFINE p == ParentOf(tab, k)
    <3>1. p \in D /\ level[p] < level[k] /\ depth[k] = depth[p] + 1
      BY <1>1, <1>2, <2>3, ParentIs DEF Rises
    <3>2. p \in T
      BY <1>4, <3>1
    <3> HIDE DEF p
    <3>3. level[p] \in Nat /\ depth[p] \in Nat /\ depth[p] <= level[p]
      BY <1>3, <3>1, <3>2, LimitsType
    <3>4. depth[k] <= level[k]
      BY <2>1, <3>1, <3>3
    <3> QED
      BY <3>4
  <2> QED
    BY <2>2, <2>3
<1>5. D \subseteq T
  <2>1. Ranked(level, D, N)
    BY DEF Ranked
  <2> HIDE DEF T, D
  <2> QED
    BY <1>4, <2>1, RankedInduction
<1>6. depth[n] \in 0..MaxDepth /\ depth[n] <= level[n] /\ level[n] \in 0..N
  BY <1>3, <1>5
<1>7. Depth(tab, n) = depth[n]
  BY DepthOf DEF depth
<1> QED
  BY <1>6, <1>7, LimitsType

Fields3(tab) ==
    tab = [root |-> tab.root, nodes |-> tab.nodes, panes |-> tab.panes]

(* A number names a node.                                                   *)
LEMMA NodeIs ==
    ASSUME NEW n \in Nat
    PROVE  Node(n) \in NodeIds /\ Node(n)[2] = n
BY DEF Node, NodeIds

NodesUnder(tab, serial) == \A n \in DOMAIN tab.nodes : n[2] < serial

Divided(new, tab, P, other, serial) ==
    /\ Holds(new, P \cup {other})
    /\ DOMAIN new.nodes = DOMAIN tab.nodes \cup {Node(serial), Node(serial + 1)}
    /\ new.panes = tab.panes /\ Fields3(new)
    /\ \A N \in Nat : Within(tab, N) => Within(new, N + 1)

(* split_leaf(): the leaf of a pane becomes a branch over it and the leaf   *)
(* of a new pane; the tree is a tree again, at most one higher.             *)
LEMMA SplitHolds ==
    ASSUME NEW tab, NEW P \in SUBSET Nat, Holds(tab, P), NEW p \in P,
           NEW other \in Nat \ P, NEW serial \in Nat, NodesUnder(tab, serial),
           CanSplit(tab, p), Fields3(tab),
           NEW new, new = Split(tab, p, other, serial)
    PROVE  Divided(new, tab, P, other, serial)
<1> DEFINE D == DOMAIN tab.nodes
           L == LeafOf(tab, p)
           a == Node(serial)
           b == Node(serial + 1)
           E == D \cup {a, b}
<1>1. /\ L \in D /\ tab.nodes[L].leaf /\ tab.nodes[L].pane = p
      /\ \A n \in Leaves(tab) : tab.nodes[n].pane = p => n = L
  BY LeafIs
<1>2. IsTree(tab)
  BY DEF Holds
<1>3. /\ a \in NodeIds /\ b \in NodeIds /\ a # b /\ a \notin D /\ b \notin D
      /\ NoNode \in NodeIds
  <2>1. serial + 1 \in Nat /\ serial # serial + 1 /\ 0 \in Nat
    OBVIOUS
  <2>2. /\ a \in NodeIds /\ b \in NodeIds /\ a[2] = serial
        /\ b[2] = serial + 1 /\ NoNode \in NodeIds
    BY <2>1, NodeIs DEF NoNode
  <2> HIDE DEF a, b
  <2>3. a \notin D
    BY <2>2 DEF NodesUnder
  <2>4. b \notin D
    <3>1. ~(serial + 1 < serial)
      OBVIOUS
    <3> QED
      BY <2>2, <3>1 DEF NodesUnder
  <2> QED
    BY <2>1, <2>2, <2>3, <2>4
<1> DEFINE base == [tab.nodes EXCEPT ![L] = Branch(a, b)]
           one == With(base, a, Leaf(p))
           two == With(one, b, Leaf(other))
<1>4. new = [tab EXCEPT !.nodes = two]
  BY DEF Split
<1>5. DOMAIN base = D /\ \A n \in D : base[n] =
         IF n = L THEN Branch(a, b) ELSE tab.nodes[n]
  OBVIOUS
<1> HIDE DEF base, L, a, b, D
<1>6. /\ DOMAIN one = D \cup {a} /\ one[a] = Leaf(p)
      /\ \A n \in D : one[n] = base[n]
  <2>1. /\ DOMAIN one = DOMAIN base \cup {a} /\ one[a] = Leaf(p)
        /\ \A n \in DOMAIN base : n # a => one[n] = base[n]
    BY DEF With
  <2> HIDE DEF one
  <2> QED
    BY <1>3, <1>5, <2>1
<1> HIDE DEF one
<1>7. /\ DOMAIN two = E /\ two[b] = Leaf(other) /\ two[a] = Leaf(p)
      /\ \A n \in D : two[n] = base[n]
  <2>1. /\ DOMAIN two = DOMAIN one \cup {b} /\ two[b] = Leaf(other)
        /\ \A n \in DOMAIN one : n # b => two[n] = one[n]
    BY DEF With
  <2> HIDE DEF two
  <2> QED
    BY <1>3, <1>6, <2>1
<1> HIDE DEF two
<1> USE DEF D
<1>8. /\ new.root = tab.root /\ new.panes = tab.panes /\ Fields3(new)
      /\ new.nodes = two
  BY <1>4 DEF Fields3
<1>9. /\ DOMAIN new.nodes = E /\ new.nodes[L] = Branch(a, b)
      /\ \A n \in D : n # L => new.nodes[n] = tab.nodes[n]
      /\ new.nodes[a] = Leaf(p) /\ new.nodes[b] = Leaf(other)
  BY <1>1, <1>3, <1>5, <1>7, <1>8
<1>10. /\ \A n \in D : n # L => Children(new.nodes[n]) = Kids(tab, n)
       /\ Children(new.nodes[L]) = {a, b}
       /\ Children(new.nodes[a]) = {} /\ Children(new.nodes[b]) = {}
  <2>1. /\ Branch(a, b).leaf = FALSE /\ Branch(a, b).first = a
        /\ Branch(a, b).second = b /\ Leaf(p).leaf = TRUE
        /\ Leaf(other).leaf = TRUE
    BY DEF Branch, Leaf
  <2>2. \A n \in D : n # L => Children(new.nodes[n]) = Kids(tab, n)
    BY <1>9 DEF Kids
  <2>3. Children(new.nodes[L]) = {a, b}
    BY <1>9, <2>1 DEF Children
  <2>4. Children(new.nodes[a]) = {} /\ Children(new.nodes[b]) = {}
    BY <1>9, <2>1 DEF Children
  <2> QED
    BY <2>2, <2>3, <2>4
<1>11. Kids(tab, L) = {}
  BY <1>1, <1>2, KidsAre
<1>12. \A n \in D : Kids(tab, n) \subseteq D /\ tab.root \notin Kids(tab, n)
  BY <1>2, KidsAre
<1>13. tab.root \in D
  BY <1>2, RootIs
<1>14. ASSUME NEW N \in Nat, NEW level \in [D -> 0..N], Rises(tab, level),
              level[L] < N
       PROVE  Within(new, N)
  <2> DEFINE lower == [n \in E |-> IF n \in D THEN level[n] ELSE level[L] + 1]
  <2>1. level[L] + 1 \in 0..N /\ level[L] < level[L] + 1
    <3>1. level[L] \in 0..N
      BY <1>1
    <3> QED
      BY <1>14, <3>1
  <2>2. lower \in [E -> 0..N]
    BY <2>1
  <2>3. /\ \A n \in D : lower[n] = level[n]
        /\ lower[a] = level[L] + 1 /\ lower[b] = level[L] + 1
    BY <1>3
  <2> HIDE DEF lower
  <2>4. ASSUME NEW n \in E, NEW m \in Children(new.nodes[n])
        PROVE  lower[n] < lower[m]
    <3>1. CASE n = L
      <4>1. m \in {a, b}
        BY <1>10, <3>1
      <4>2. lower[m] = level[L] + 1 /\ lower[n] = level[L]
        BY <1>1, <2>3, <3>1, <4>1
      <4> QED
        BY <2>1, <4>2
    <3>2. CASE n \in D /\ n # L
      <4>1. m \in Kids(tab, n) /\ m \in D
        BY <1>10, <1>12, <3>2
      <4>2. level[n] < level[m]
        BY <1>14, <3>2, <4>1 DEF Rises
      <4> QED
        BY <2>3, <3>2, <4>1, <4>2
    <3>3. CASE n \in {a, b}
      BY <1>10, <3>3
    <3> QED
      BY <3>1, <3>2, <3>3
  <2> QED
    BY <1>9, <2>2, <2>4 DEF Within, Rises, Kids
<1>15. \A N \in Nat : Within(tab, N) => Within(new, N + 1)
  <2> TAKE N \in Nat
  <2>1. SUFFICES ASSUME Within(tab, N) PROVE Within(new, N + 1)
    OBVIOUS
  <2>2. PICK level \in [D -> 0..N] : Rises(tab, level)
    BY <2>1 DEF Within
  <2>3. \A n \in D : level[n] \in 0..(N + 1) /\ level[n] < N + 1
    <3>1. \A n \in D : level[n] \in 0..N
      OBVIOUS
    <3> QED
      BY <3>1
  <2>4. level \in [D -> 0..(N + 1)] /\ N + 1 \in Nat
    BY <2>3
  <2> QED
    BY <1>1, <1>14, <2>2, <2>3, <2>4
<1>16. Within(new, MaxDepth)
  <2>1. DepthsOf(tab)[L] < MaxDepth
    BY DepthOf DEF CanSplit, L
  <2> QED
    BY <1>2, <1>14, <2>1, DepthsType, LimitsType
<1>17. IsTree(new)
  <2>1. IsFiniteSet(E) /\ E \subseteq NodeIds
    <3>1. IsFiniteSet(D) /\ D \subseteq NodeIds
      BY <1>2 DEF IsTree
    <3>2. IsFiniteSet(D \cup {a})
      BY <3>1, FS_AddElement
    <3>3. IsFiniteSet((D \cup {a}) \cup {b}) /\ (D \cup {a}) \cup {b} = E
      BY <3>2, FS_AddElement
    <3> QED
      BY <1>3, <3>1, <3>3
  <2>2. ASSUME NEW n \in E
        PROVE  /\ new.nodes[n] \in NodeType
               /\ Children(new.nodes[n]) \subseteq E \ {new.root}
               /\ \/ new.nodes[n].leaf
                  \/ /\ new.nodes[n].first # new.nodes[n].second
                     /\ new.nodes[n].pane = 0
    <3>1. CASE n \in D /\ n # L
      <4>1. new.nodes[n] = tab.nodes[n] /\ Children(new.nodes[n]) \subseteq D
        BY <1>9, <1>10, <1>12, <3>1
      <4>2. tab.root \notin Children(new.nodes[n])
        BY <1>10, <1>12, <3>1
      <4> QED
        BY <1>2, <1>8, <3>1, <4>1, <4>2, KidsAre
    <3>2. CASE n = L
      <4>1. Branch(a, b) \in NodeType
        BY <1>3 DEF Branch, NodeType
      <4>2. Branch(a, b).first # Branch(a, b).second /\ Branch(a, b).pane = 0
        BY <1>3 DEF Branch
      <4>3. {a, b} \subseteq E \ {new.root}
        BY <1>3, <1>8, <1>13
      <4> QED
        BY <1>9, <1>10, <3>2, <4>1, <4>2, <4>3
    <3>3. CASE n = a
      <4>1. Leaf(p) \in NodeType /\ Leaf(p).leaf
        BY <1>3 DEF Leaf, NodeType
      <4> QED
        BY <1>9, <1>10, <3>3, <4>1
    <3>4. CASE n = b
      <4>1. Leaf(other) \in NodeType /\ Leaf(other).leaf
        BY <1>3 DEF Leaf, NodeType
      <4> QED
        BY <1>9, <1>10, <3>4, <4>1
    <3> QED
      BY <3>1, <3>2, <3>3, <3>4
  <2>3. new.root \in E
    BY <1>8, <1>13
  <2>4. ASSUME NEW m \in E \ {new.root}
        PROVE  \E n \in E : m \in Children(new.nodes[n])
    <3>1. CASE m \in D
      <4> DEFINE q == ParentOf(tab, m)
      <4>1. q \in D /\ m \in Kids(tab, q)
        BY <1>2, <1>8, <3>1, ParentIs
      <4> HIDE DEF q
      <4>2. q # L
        BY <1>11, <4>1
      <4> QED
        BY <1>10, <4>1, <4>2
    <3>2. CASE m \in {a, b}
      BY <1>1, <1>10, <3>2
    <3> QED
      BY <3>1, <3>2
  <2>5. ASSUME NEW m \in E, NEW n \in E,
               Children(new.nodes[m]) \cap Children(new.nodes[n]) # {}
        PROVE  m = n
    <3>1. m \in D /\ n \in D
      BY <1>10, <2>5
    <3>2. m = L <=> n = L
      BY <1>3, <1>10, <1>12, <2>5, <3>1
    <3>3. CASE m # L /\ n # L
      <4>1. Kids(tab, m) \cap Kids(tab, n) # {}
        BY <1>10, <2>5, <3>1, <3>3
      <4> QED
        BY <1>2, <3>1, <4>1 DEF IsTree, Kids
    <3> QED
      BY <3>2, <3>3
  <2>6. \E lower \in [E -> 0..MaxDepth] :
           \A n \in E : \A m \in Children(new.nodes[n]) : lower[n] < lower[m]
    BY <1>9, <1>16 DEF Within, Rises, Kids
  <2> HIDE DEF E, D
  <2> QED
    BY <1>9, <2>1, <2>2, <2>3, <2>4, <2>5, <2>6 DEF IsTree
<1>18. Leaves(new) = (Leaves(tab) \ {L}) \cup {a, b}
  <2>1. ~new.nodes[L].leaf /\ new.nodes[a].leaf /\ new.nodes[b].leaf
    BY <1>9 DEF Branch, Leaf
  <2> QED
    BY <1>1, <1>3, <1>9, <2>1 DEF Leaves
<1>19. /\ \A n \in Leaves(tab) \ {L} : /\ new.nodes[n].pane = tab.nodes[n].pane
                                       /\ tab.nodes[n].pane \in P \ {p}
       /\ new.nodes[a].pane = p /\ new.nodes[b].pane = other
  <2>1. new.nodes[a].pane = p /\ new.nodes[b].pane = other
    BY <1>9 DEF Leaf
  <2>2. ASSUME NEW n \in Leaves(tab) \ {L}
        PROVE  /\ new.nodes[n].pane = tab.nodes[n].pane
               /\ tab.nodes[n].pane \in P \ {p}
    <3>1. n \in D
      BY DEF Leaves
    <3>2. new.nodes[n] = tab.nodes[n]
      BY <1>9, <3>1
    <3>3. tab.nodes[n].pane \in P
      BY DEF Holds
    <3> QED
      BY <1>1, <3>2, <3>3
  <2> QED
    BY <2>1, <2>2
<1>20. {new.nodes[n].pane : n \in Leaves(new)} = P \cup {other}
  <2>1. ASSUME NEW r \in P \ {p}
        PROVE  \E n \in Leaves(new) : new.nodes[n].pane = r
    <3>1. PICK n \in Leaves(tab) : tab.nodes[n].pane = r
      BY LeafIs
    <3>2. n # L
      BY <1>1, <3>1
    <3> QED
      BY <1>18, <1>19, <3>1, <3>2
  <2>2. ASSUME NEW n \in Leaves(new)
        PROVE  new.nodes[n].pane \in P \cup {other}
    BY <1>18, <1>19
  <2>3. a \in Leaves(new) /\ b \in Leaves(new)
    BY <1>18
  <2>4. ASSUME NEW r \in P \cup {other}
        PROVE  \E n \in Leaves(new) : new.nodes[n].pane = r
    BY <1>19, <2>1, <2>3
  <2>5. {new.nodes[n].pane : n \in Leaves(new)} \subseteq P \cup {other}
    BY <2>2
  <2> QED
    BY <2>4, <2>5
<1>21. \A m, n \in Leaves(new) :
          new.nodes[m].pane = new.nodes[n].pane => m = n
  <2>1. \A m, n \in Leaves(tab) :
           tab.nodes[m].pane = tab.nodes[n].pane => m = n
    BY DEF Holds
  <2> QED
    BY <1>18, <1>19, <2>1
<1>22. Holds(new, P \cup {other})
  BY <1>8, <1>9, <1>15, <1>17, <1>20, <1>21 DEF Holds
<1>23. /\ DOMAIN new.nodes = DOMAIN tab.nodes \cup {Node(serial), Node(serial + 1)}
       /\ new.panes = tab.panes /\ Fields3(new)
       /\ \A N \in Nat : Within(tab, N) => Within(new, N + 1)
  BY <1>8, <1>9, <1>15, <1>17 DEF a, b
<1> QED
  BY <1>22, <1>23 DEF Divided

(* Two leaves that change their panes leave the rest of the tree alone.     *)
LEMMA SwapHolds ==
    ASSUME NEW tab, NEW P \in SUBSET Nat, Holds(tab, P), NEW p \in P,
           NEW q \in P, p # q, Fields3(tab), NEW new, new = Swap(tab, p, q)
    PROVE  /\ Holds(new, P) /\ DOMAIN new.nodes = DOMAIN tab.nodes
           /\ new.panes = tab.panes /\ Fields3(new)
<1> DEFINE D == DOMAIN tab.nodes
           L == LeafOf(tab, p)
           M == LeafOf(tab, q)
           other(n) == IF n = L THEN M ELSE IF n = M THEN L ELSE n
<1>1. /\ L \in D /\ tab.nodes[L].leaf /\ tab.nodes[L].pane = p
      /\ M \in D /\ tab.nodes[M].leaf /\ tab.nodes[M].pane = q /\ L # M
      /\ L \in Leaves(tab) /\ M \in Leaves(tab)
  BY LeafIs
<1>2. IsTree(tab) /\ \A n \in D : tab.nodes[n] \in NodeType
  BY DEF Holds, IsTree
<1>3. new = [tab EXCEPT !.nodes[L].pane = q, !.nodes[M].pane = p]
  BY DEF Swap
<1> HIDE DEF L, M
<1>4. /\ new.root = tab.root /\ new.panes = tab.panes /\ Fields3(new)
      /\ new.nodes = [tab.nodes EXCEPT ![L].pane = q, ![M].pane = p]
  BY <1>3 DEF Fields3
<1>5. /\ DOMAIN new.nodes = D
      /\ \A n \in D : n # L /\ n # M => new.nodes[n] = tab.nodes[n]
      /\ new.nodes[L] = [tab.nodes[L] EXCEPT !.pane = q]
      /\ new.nodes[M] = [tab.nodes[M] EXCEPT !.pane = p]
  BY <1>1, <1>4
<1>6. \A n \in D : /\ new.nodes[n] \in NodeType
                   /\ new.nodes[n].leaf = tab.nodes[n].leaf
                   /\ new.nodes[n].first = tab.nodes[n].first
                   /\ new.nodes[n].second = tab.nodes[n].second
                   /\ n # L /\ n # M => new.nodes[n] = tab.nodes[n]
  <2> TAKE n \in D
  <2>1. CASE n = L
    BY <1>1, <1>2, <1>5, <2>1 DEF NodeType
  <2>2. CASE n = M
    BY <1>1, <1>2, <1>5, <2>2 DEF NodeType
  <2>3. CASE n # L /\ n # M
    BY <1>2, <1>5, <2>3
  <2> QED
    BY <2>1, <2>2, <2>3
<1>7. new.nodes[L].pane = q /\ new.nodes[M].pane = p
  BY <1>1, <1>2, <1>5 DEF NodeType
<1>8. \A n \in D : Children(new.nodes[n]) = Children(tab.nodes[n])
  BY <1>6 DEF Children
<1>9. Leaves(new) = Leaves(tab)
  BY <1>5, <1>6 DEF Leaves
<1>10. \A n \in Leaves(tab) :
          other(n) \in Leaves(tab) /\ new.nodes[n].pane = tab.nodes[other(n)].pane
  <2> TAKE n \in Leaves(tab)
  <2>1. n \in D
    BY DEF Leaves
  <2> QED
    BY <1>1, <1>6, <1>7, <2>1
<1>11. IsTree(new)
  <2>1. /\ IsFiniteSet(D) /\ D \subseteq NodeIds /\ tab.root \in D
        /\ \A n \in D :
              /\ Children(tab.nodes[n]) \subseteq D \ {tab.root}
              /\ \/ tab.nodes[n].leaf
                 \/ /\ tab.nodes[n].first # tab.nodes[n].second
                    /\ tab.nodes[n].pane = 0
    BY <1>2 DEF IsTree
  <2>2. \A n \in D : \/ new.nodes[n].leaf
                     \/ /\ new.nodes[n].first # new.nodes[n].second
                        /\ new.nodes[n].pane = 0
    BY <1>1, <1>6, <2>1
  <2>3. /\ \A m \in D \ {tab.root} :
              \E n \in D : m \in Children(tab.nodes[n])
        /\ \A m, n \in D :
              Children(tab.nodes[m]) \cap Children(tab.nodes[n]) # {} => m = n
        /\ \E level \in [D -> 0..MaxDepth] :
              \A n \in D : \A m \in Children(tab.nodes[n]) :
                  level[n] < level[m]
    BY <1>2 DEF IsTree
  <2>4. /\ \A m \in D \ {tab.root} :
              \E n \in D : m \in Children(new.nodes[n])
        /\ \A m, n \in D :
              Children(new.nodes[m]) \cap Children(new.nodes[n]) # {} => m = n
        /\ \E level \in [D -> 0..MaxDepth] :
              \A n \in D : \A m \in Children(new.nodes[n]) :
                  level[n] < level[m]
    BY <1>8, <2>3
  <2>5. /\ \A n \in D : /\ new.nodes[n] \in NodeType
                         /\ Children(new.nodes[n]) \subseteq D \ {new.root}
        /\ new.root \in D
        /\ \A m \in D \ {new.root} :
              \E n \in D : m \in Children(new.nodes[n])
    BY <1>4, <1>6, <1>8, <2>1, <2>4
  <2>6. DOMAIN new.nodes = D /\ IsFiniteSet(D) /\ D \subseteq NodeIds
    BY <1>5, <2>1
  <2> HIDE DEF D
  <2> QED
    BY <2>2, <2>4, <2>5, <2>6 DEF IsTree
<1>12. {new.nodes[n].pane : n \in Leaves(new)} = P
  <2>1. {tab.nodes[n].pane : n \in Leaves(tab)} = P
    BY DEF Holds
  <2>2. ASSUME NEW r \in P PROVE \E n \in Leaves(tab) : new.nodes[n].pane = r
    <3>1. PICK n \in Leaves(tab) : tab.nodes[n].pane = r
      BY <2>1
    <3>2. other(other(n)) = n
      BY <1>1
    <3> QED
      BY <1>10, <3>1, <3>2
  <2>3. \A n \in Leaves(tab) : new.nodes[n].pane \in P
    BY <1>10, <2>1
  <2>4. \A r \in P : r \in {new.nodes[n].pane : n \in Leaves(new)}
    BY <1>9, <2>2
  <2>5. {new.nodes[n].pane : n \in Leaves(new)} \subseteq P
    BY <1>9, <2>3
  <2> QED
    BY <2>4, <2>5
<1>13. \A m, n \in Leaves(new) :
          new.nodes[m].pane = new.nodes[n].pane => m = n
  <2> TAKE m, n \in Leaves(new)
  <2>1. /\ other(m) \in Leaves(tab) /\ other(n) \in Leaves(tab)
        /\ new.nodes[m].pane = new.nodes[n].pane
              => tab.nodes[other(m)].pane = tab.nodes[other(n)].pane
    BY <1>9, <1>10
  <2>2. new.nodes[m].pane = new.nodes[n].pane => other(m) = other(n)
    BY <2>1 DEF Holds
  <2>3. other(m) = other(n) => m = n
    BY <1>1
  <2> QED
    BY <2>2, <2>3
<1> QED
  BY <1>4, <1>5, <1>11, <1>12, <1>13 DEF Holds


(* Nodes under other names: the same tree, which shows the same.            *)
Mapped(s, f) == [i \in DOMAIN s |-> f[s[i]]]

Maps(f, S, T) == f \in [S -> T]

Follows(w, s, f) ==
    /\ Len(w) = Len(s) /\ DOMAIN w = 1..Len(s)
    /\ \A i \in 1..Len(s) : w[i] = f[s[i]]

(* A sequence mapped element by element is as long as before.               *)
LEMMA MappedType ==
    ASSUME NEW S, NEW T, NEW f, Maps(f, S, T), NEW s \in Seq(S)
    PROVE  Mapped(s, f) \in Seq(T) /\ Follows(Mapped(s, f), s, f)
<1> DEFINE n == Len(s)
           w == Mapped(s, f)
<1>1. /\ n \in Nat /\ DOMAIN s = 1..n /\ \A i \in 1..n : s[i] \in S
  BY LenProperties, ElementOfSeq
<1> HIDE DEF n
<1>2. w \in [1..n -> T] /\ \A i \in 1..n : w[i] = f[s[i]]
  BY <1>1 DEF Mapped, Maps
<1> HIDE DEF w
<1>3. w \in Seq(T) /\ Len(w) = n /\ DOMAIN w = 1..n
  BY <1>1, <1>2, MappedSeq
<1> QED
  BY <1>2, <1>3 DEF w, n, Follows

MapJoins(s, t, f) == Mapped(s \o t, f) = Mapped(s, f) \o Mapped(t, f)

MapTakes(x, s, t, f) ==
    Mapped(<<x>> \o s \o t, f) = <<f[x]>> \o Mapped(s, f) \o Mapped(t, f)

(* Mapping a joined sequence maps both parts ...                            *)
LEMMA MappedConcat ==
    ASSUME NEW S, NEW T, NEW f, Maps(f, S, T), NEW s \in Seq(S), NEW t \in Seq(S)
    PROVE  MapJoins(s, t, f)
<1> DEFINE a == Mapped(s, f)
           b == Mapped(t, f)
           w == s \o t
           c == Mapped(w, f)
           L == Len(s)
           M == Len(t)
<1>1. /\ w \in Seq(S) /\ Len(w) = L + M /\ L \in Nat /\ M \in Nat
      /\ \A i \in 1..(L + M) : w[i] = IF i <= L THEN s[i] ELSE t[i - L]
  BY ConcatProperties, LenProperties
<1>2. /\ a \in Seq(T) /\ Len(a) = L /\ \A i \in 1..L : a[i] = f[s[i]]
      /\ b \in Seq(T) /\ Len(b) = M /\ \A i \in 1..M : b[i] = f[t[i]]
  <2>1. a \in Seq(T) /\ Follows(a, s, f) /\ b \in Seq(T) /\ Follows(b, t, f)
    BY MappedType
  <2> QED
    BY <2>1 DEF Follows
<1> HIDE DEF w
<1>3. c \in Seq(T) /\ Len(c) = Len(w) /\ \A i \in 1..Len(w) : c[i] = f[w[i]]
  <2>1. c \in Seq(T) /\ Follows(c, w, f)
    BY <1>1, MappedType
  <2> QED
    BY <2>1 DEF Follows
<1> HIDE DEF a, b, c, L, M
<1>4. /\ a \o b \in Seq(T) /\ Len(a \o b) = L + M
      /\ \A i \in 1..(L + M) : (a \o b)[i] =
            IF i <= L THEN a[i] ELSE b[i - L]
  <2>1. a \in Seq(T) /\ b \in Seq(T) /\ Len(a) = L /\ Len(b) = M
    BY <1>2
  <2>2. /\ a \o b \in Seq(T) /\ Len(a \o b) = Len(a) + Len(b)
        /\ \A i \in 1..(Len(a) + Len(b)) : (a \o b)[i] =
              IF i <= Len(a) THEN a[i] ELSE b[i - Len(a)]
    BY <2>1, ConcatProperties
  <2> QED
    BY <2>1, <2>2
<1>5. \A i \in 1..(L + M) : c[i] = (a \o b)[i]
  <2> TAKE i \in 1..(L + M)
  <2>1. c[i] = f[w[i]] /\ w[i] = IF i <= L THEN s[i] ELSE t[i - L]
    BY <1>1, <1>3
  <2>2. (a \o b)[i] = IF i <= L THEN a[i] ELSE b[i - L]
    BY <1>4
  <2>3. CASE i <= L
    <3>1. i \in 1..L
      BY <1>1, <2>3
    <3> QED
      BY <1>2, <2>1, <2>2, <2>3, <3>1
  <2>4. CASE ~(i <= L)
    <3>1. i - L \in 1..M
      BY <1>1, <2>4
    <3> QED
      BY <1>2, <2>1, <2>2, <2>4, <3>1
  <2> QED
    BY <2>3, <2>4
<1>6. c = a \o b
  BY <1>1, <1>3, <1>4, <1>5, SeqEqual
<1> QED
  BY <1>6 DEF a, b, c, w, MapJoins

(* ... mapping one element maps it ...                                      *)
LEMMA MappedOne ==
    ASSUME NEW S, NEW T, NEW f, Maps(f, S, T), NEW x \in S
    PROVE  Mapped(<<x>>, f) = <<f[x]>>
BY DEF Mapped, Maps

(* ... and the two together map what a branch lists.                        *)
LEMMA MappedThree ==
    ASSUME NEW S, NEW T, NEW f, Maps(f, S, T), NEW x \in S,
           NEW s \in Seq(S), NEW t \in Seq(S)
    PROVE  MapTakes(x, s, t, f)
<1> DEFINE one == <<x>>
<1>1. one \in Seq(S) /\ Mapped(one, f) = <<f[x]>>
  BY OneSet, MappedOne
<1> HIDE DEF one
<1>2. one \o s \in Seq(S) /\ Mapped(one \o s, f) = <<f[x]>> \o Mapped(s, f)
  <2>1. one \o s \in Seq(S)
    BY <1>1, ConcatProperties
  <2>2. Mapped(one \o s, f) = Mapped(one, f) \o Mapped(s, f)
    <3>1. MapJoins(one, s, f)
      BY <1>1, MappedConcat
    <3> QED
      BY <3>1 DEF MapJoins
  <2> QED
    BY <1>1, <2>1, <2>2
<1>3. Mapped((one \o s) \o t, f) = Mapped(one \o s, f) \o Mapped(t, f)
  <2>1. MapJoins(one \o s, t, f)
    BY <1>2, MappedConcat
  <2> QED
    BY <2>1 DEF MapJoins
<1> QED
  BY <1>2, <1>3 DEF one, MapTakes

RenamedNode(tab, new, n) ==
    IF tab.nodes[n].leaf THEN tab.nodes[n]
    ELSE Branch(new[tab.nodes[n].first], new[tab.nodes[n].second])

(* What renaming does to each node.                                         *)
IsRenamed(tab, id, new) ==
    /\ new.root = id[tab.root] /\ new.panes = tab.panes /\ Fields3(new)
    /\ DOMAIN new.nodes = Range(id)
    /\ \A n \in DOMAIN tab.nodes :
          /\ id[n] \in Range(id)
          /\ new.nodes[id[n]] = RenamedNode(tab, id, n)
          /\ new.nodes[id[n]].leaf = tab.nodes[n].leaf
          /\ new.nodes[id[n]].pane = tab.nodes[n].pane
          /\ Children(new.nodes[id[n]]) = {id[m] : m \in Kids(tab, n)}
          /\ new.nodes[id[n]] \in NodeType
    /\ \A k \in Range(id) : \E n \in DOMAIN tab.nodes : id[n] = k
    /\ \A m, n \in DOMAIN tab.nodes : id[m] = id[n] => m = n

Names(id, D) == id \in [D -> NodeIds] /\ IsInjective(id)

(* What renaming makes of a tree, node by node.                             *)
LEMMA RenamedIs ==
    ASSUME NEW tab, IsTree(tab), Fields3(tab), NEW id,
           Names(id, DOMAIN tab.nodes), NEW new, new = Renamed(tab, id)
    PROVE  IsRenamed(tab, id, new)
<1> USE DEF Names
<1> DEFINE D == DOMAIN tab.nodes
           was(k) == CHOOSE n \in DOMAIN id : id[n] = k
<1>1. new = [tab EXCEPT !.root = id[@],
                        !.nodes = [k \in Range(id) |->
                                      RenamedNode(tab, id, was(k))]]
  BY DEF Renamed, RenamedNode
<1>2. /\ new.root = id[tab.root] /\ new.panes = tab.panes /\ Fields3(new)
      /\ new.nodes = [k \in Range(id) |-> RenamedNode(tab, id, was(k))]
  <2> DEFINE nodes == [k \in Range(id) |-> RenamedNode(tab, id, was(k))]
  <2>1. new = [tab EXCEPT !.root = id[@], !.nodes = nodes]
    BY <1>1
  <2> HIDE DEF nodes
  <2>2. /\ new.root = id[tab.root] /\ new.panes = tab.panes /\ Fields3(new)
        /\ new.nodes = nodes
    BY <2>1 DEF Fields3
  <2> QED
    BY <2>2 DEF nodes
<1>3. \A m, n \in D : id[m] = id[n] => m = n
  BY DEF IsInjective
<1>4. /\ \A k \in Range(id) : \E n \in D : id[n] = k
      /\ \A n \in D : id[n] \in Range(id)
  BY DEF Range
<1>5. \A n \in D : was(id[n]) = n
  <2> TAKE n \in D
  <2>1. was(id[n]) \in D /\ id[was(id[n])] = id[n]
    OBVIOUS
  <2> QED
    BY <1>3, <2>1
<1> HIDE DEF was
<1>6. ASSUME NEW n \in D
      PROVE  /\ new.nodes[id[n]] = RenamedNode(tab, id, n)
             /\ new.nodes[id[n]].leaf = tab.nodes[n].leaf
             /\ new.nodes[id[n]].pane = tab.nodes[n].pane
             /\ Children(new.nodes[id[n]]) = {id[m] : m \in Kids(tab, n)}
             /\ new.nodes[id[n]] \in NodeType
  <2>1. new.nodes[id[n]] = RenamedNode(tab, id, n)
    BY <1>2, <1>4, <1>5
  <2>2. tab.nodes[n] \in NodeType
    BY KidsAre
  <2>3. CASE tab.nodes[n].leaf
    <3>1. Kids(tab, n) = {} /\ new.nodes[id[n]] = tab.nodes[n]
      BY <2>1, <2>3, KidsAre DEF RenamedNode
    <3>2. Children(new.nodes[id[n]]) = {}
      BY <2>3, <3>1 DEF Children
    <3>3. {id[m] : m \in Kids(tab, n)} = {}
      BY <3>1
    <3> QED
      BY <2>1, <2>2, <3>1, <3>2, <3>3
  <2>4. CASE ~tab.nodes[n].leaf
    <3> DEFINE a == tab.nodes[n].first
               b == tab.nodes[n].second
    <3>1. /\ Kids(tab, n) = {a, b} /\ a \in D /\ b \in D
          /\ tab.nodes[n].pane = 0 /\ tab.nodes[n].leaf = FALSE
      BY <2>2, <2>4, KidsAre DEF NodeType
    <3>2. new.nodes[id[n]] = Branch(id[a], id[b])
      BY <2>1, <2>4 DEF RenamedNode
    <3> HIDE DEF a, b
    <3>3. /\ new.nodes[id[n]].leaf = FALSE /\ new.nodes[id[n]].pane = 0
          /\ Children(new.nodes[id[n]]) = {id[a], id[b]}
      BY <3>2 DEF Branch, Children
    <3>4. {id[m] : m \in Kids(tab, n)} = {id[a], id[b]}
      BY <3>1
    <3>5. new.nodes[id[n]] \in NodeType
      <4>1. id[a] \in NodeIds /\ id[b] \in NodeIds
        BY <3>1
      <4> QED
        BY <3>2, <4>1 DEF Branch, NodeType
    <3> QED
      BY <2>1, <3>1, <3>3, <3>4, <3>5
  <2> QED
    BY <2>3, <2>4
<1> QED
  BY <1>2, <1>3, <1>4, <1>6 DEF IsRenamed

(* A tree whose nodes are renamed apart is a tree with the same panes.      *)
LEMMA RenamedHolds ==
    ASSUME NEW tab, NEW P, Holds(tab, P), Fields3(tab),
           NEW id, Names(id, DOMAIN tab.nodes),
           NEW new, new = Renamed(tab, id)
    PROVE  Holds(new, P)
<1> DEFINE D == DOMAIN tab.nodes
           R == Range(id)
           kids(n) == {id[m] : m \in Kids(tab, n)}
<1>0. id \in [D -> NodeIds]
  BY DEF Names
<1>1. IsTree(tab)
  BY DEF Holds
<1>2. /\ new.root = id[tab.root] /\ DOMAIN new.nodes = R
      /\ \A n \in D :
            /\ id[n] \in R
            /\ new.nodes[id[n]] = RenamedNode(tab, id, n)
            /\ new.nodes[id[n]].leaf = tab.nodes[n].leaf
            /\ new.nodes[id[n]].pane = tab.nodes[n].pane
            /\ Children(new.nodes[id[n]]) = kids(n)
            /\ new.nodes[id[n]] \in NodeType
      /\ \A k \in R : \E n \in D : id[n] = k
      /\ \A m, n \in D : id[m] = id[n] => m = n
  <2>1. IsRenamed(tab, id, new)
    BY <1>1, RenamedIs
  <2> QED
    BY <2>1 DEF IsRenamed
<1>3. \A n \in D : Kids(tab, n) \subseteq D /\ tab.root \notin Kids(tab, n)
  BY <1>1, KidsAre
<1>4. tab.root \in D
  BY <1>1, RootIs
<1>5. IsTree(new)
  <2>1. IsFiniteSet(R) /\ R \subseteq NodeIds
    <3>1. IsFiniteSet(D)
      BY <1>1 DEF IsTree
    <3>2. id \in [D -> R] /\ \A k \in R : \E n \in D : id[n] = k
      BY <1>0, <1>2
    <3>3. id \in Surjection(D, R)
      BY <3>2 DEF Surjection
    <3>4. IsFiniteSet(R)
      BY <3>1, <3>3, FS_Surjection
    <3> QED
      BY <1>0, <3>4 DEF Range
  <2>2. ASSUME NEW k \in R
        PROVE  /\ new.nodes[k] \in NodeType
               /\ Children(new.nodes[k]) \subseteq R \ {new.root}
               /\ \/ new.nodes[k].leaf
                  \/ /\ new.nodes[k].first # new.nodes[k].second
                     /\ new.nodes[k].pane = 0
    <3>1. PICK n \in D : id[n] = k
      BY <1>2
    <3>2. kids(n) \subseteq R \ {new.root}
      BY <1>2, <1>3, <1>4
    <3>3. \/ new.nodes[k].leaf
          \/ /\ new.nodes[k].first # new.nodes[k].second
             /\ new.nodes[k].pane = 0
      <4>1. CASE tab.nodes[n].leaf
        BY <1>2, <3>1, <4>1
      <4>2. CASE ~tab.nodes[n].leaf
        <5> DEFINE a == tab.nodes[n].first
                   b == tab.nodes[n].second
        <5>1. a \in D /\ b \in D /\ a # b
          BY <1>1, <4>2, KidsAre
        <5>2. new.nodes[k] = Branch(id[a], id[b])
          BY <1>2, <3>1, <4>2 DEF RenamedNode
        <5> HIDE DEF a, b
        <5>3. id[a] # id[b]
          BY <1>2, <5>1
        <5> QED
          BY <5>2, <5>3 DEF Branch
      <4> QED
        BY <4>1, <4>2
    <3>4. new.nodes[k] \in NodeType /\ Children(new.nodes[k]) = kids(n)
      BY <1>2, <3>1
    <3> HIDE DEF R
    <3> QED
      BY <3>2, <3>3, <3>4
  <2>3. new.root \in R
    BY <1>2, <1>4
  <2>4. ASSUME NEW k \in R \ {new.root}
        PROVE  \E j \in R : k \in Children(new.nodes[j])
    <3>1. PICK m \in D : id[m] = k
      BY <1>2
    <3>2. m # tab.root
      BY <1>2, <3>1
    <3>3. ParentOf(tab, m) \in D /\ m \in Kids(tab, ParentOf(tab, m))
      BY <1>1, <3>2, ParentIs
    <3>4. k \in kids(ParentOf(tab, m))
      BY <3>1, <3>3
    <3>5. /\ id[ParentOf(tab, m)] \in R
          /\ Children(new.nodes[id[ParentOf(tab, m)]]) = kids(ParentOf(tab, m))
      BY <1>2, <3>3
    <3> HIDE DEF kids
    <3> QED
      BY <3>4, <3>5
  <2>5. ASSUME NEW j \in R, NEW k \in R,
               Children(new.nodes[j]) \cap Children(new.nodes[k]) # {}
        PROVE  j = k
    <3>1. PICK m \in D, n \in D : id[m] = j /\ id[n] = k
      BY <1>2
    <3>2. PICK c : c \in kids(m) /\ c \in kids(n)
      BY <1>2, <2>5, <3>1
    <3>3. PICK x \in Kids(tab, m), y \in Kids(tab, n) : id[x] = c /\ id[y] = c
      BY <3>2
    <3>4. x = y /\ x \in D
      BY <1>2, <1>3, <3>3
    <3>5. m = n
      BY <1>1, <1>3, <3>3, <3>4, ParentIs
    <3> QED
      BY <3>1, <3>5
  <2>6. \E lower \in [R -> 0..MaxDepth] :
           \A j \in R : \A k \in Children(new.nodes[j]) : lower[j] < lower[k]
    <3>1. PICK level \in [D -> 0..MaxDepth] : Rises(tab, level)
      BY <1>1, LevelExists
    <3> DEFINE was(k) == CHOOSE n \in D : id[n] = k
               lower == [k \in R |-> level[was(k)]]
    <3>2. \A k \in R : was(k) \in D /\ id[was(k)] = k
      BY <1>2
    <3>3. \A n \in D : was(id[n]) = n
      BY <1>2, <3>2
    <3>4. lower \in [R -> 0..MaxDepth]
      BY <3>2
    <3>5. \A n \in D : lower[id[n]] = level[n]
      BY <1>2, <3>3
    <3> HIDE DEF was, lower
    <3>6. ASSUME NEW j \in R, NEW k \in Children(new.nodes[j])
          PROVE  lower[j] < lower[k]
      <4>1. PICK n \in D : id[n] = j
        BY <1>2
      <4>2. PICK m \in Kids(tab, n) : id[m] = k
        <5>1. k \in kids(n)
          BY <1>2, <4>1
        <5> QED
          BY <5>1
      <4>3. m \in D /\ level[n] < level[m]
        BY <1>3, <3>1, <4>2 DEF Rises
      <4> QED
        BY <3>5, <4>1, <4>2, <4>3
    <3> QED
      BY <3>4, <3>6
  <2>7. DOMAIN new.nodes = R
    BY <1>2
  <2> HIDE DEF R
  <2> QED
    BY <2>1, <2>2, <2>3, <2>4, <2>5, <2>6, <2>7 DEF IsTree
<1>6. \A n \in D : n \in Leaves(tab) <=> id[n] \in Leaves(new)
  BY <1>2 DEF Leaves
<1>7. Leaves(new) \subseteq R /\ Leaves(tab) \subseteq D
  BY <1>2 DEF Leaves
<1>8. {new.nodes[n].pane : n \in Leaves(new)} = P
  <2>1. {tab.nodes[n].pane : n \in Leaves(tab)} = P
    BY DEF Holds
  <2>2. ASSUME NEW r \in P PROVE \E k \in Leaves(new) : new.nodes[k].pane = r
    BY <1>2, <1>6, <1>7, <2>1
  <2>3. ASSUME NEW k \in Leaves(new) PROVE new.nodes[k].pane \in P
    <3>1. PICK n \in D : id[n] = k
      BY <1>2, <1>7
    <3> QED
      BY <1>2, <1>6, <2>1, <3>1
  <2> QED
    BY <2>2, <2>3
<1>9. \A j, k \in Leaves(new) : new.nodes[j].pane = new.nodes[k].pane => j = k
  <2> TAKE j, k \in Leaves(new)
  <2>1. PICK m \in D, n \in D : id[m] = j /\ id[n] = k
    BY <1>2, <1>7
  <2>2. m \in Leaves(tab) /\ n \in Leaves(tab)
    BY <1>6, <2>1
  <2>3. tab.nodes[m].pane = tab.nodes[n].pane => m = n
    BY <2>2 DEF Holds
  <2> QED
    BY <1>2, <2>1, <2>3
<1> QED
  BY <1>5, <1>8, <1>9 DEF Holds

(* It shows the same: the same panes and branches, in the same order.       *)
LEMMA RenamedShape ==
    ASSUME NEW tab, NEW P, Holds(tab, P), Fields3(tab),
           NEW id, Names(id, DOMAIN tab.nodes),
           NEW new, new = Renamed(tab, id)
    PROVE  Shape(new) = Shape(tab)
<1> DEFINE D == DOMAIN tab.nodes
           R == Range(id)
           order == OrderOf(tab)
           after == OrderOf(new)
           T == {n \in D : after[id[n]] = Mapped(order[n], id)}
<1>0. id \in [D -> NodeIds]
  BY DEF Names
<1>1. IsTree(tab) /\ IsTree(new)
  BY RenamedHolds DEF Holds
<1>2. /\ new.root = id[tab.root] /\ DOMAIN new.nodes = R
      /\ \A n \in D :
            /\ id[n] \in R
            /\ new.nodes[id[n]] = RenamedNode(tab, id, n)
            /\ new.nodes[id[n]].leaf = tab.nodes[n].leaf
            /\ new.nodes[id[n]].pane = tab.nodes[n].pane
  BY <1>1, RenamedIs DEF IsRenamed
<1>3. PICK height : /\ Ranked(height, D, MaxDepth)
                    /\ \A n \in D : \A m \in Kids(tab, n) :
                          height[m] < height[n]
  BY <1>1, HeightExists
<1>4. /\ \A n \in D : order[n] \in Seq(D)
                      /\ order[n] = Branching(tab, n, order)
      /\ \A k \in R : after[k] = Branching(new, k, after)
  BY <1>1, <1>2, OrderType
<1>5. id \in [D -> R]
  BY <1>0, <1>2
<1> HIDE DEF order, after
<1>6. ASSUME NEW n \in D, \A m \in D : height[m] < height[n] => m \in T
      PROVE  n \in T
  <2>1. CASE tab.nodes[n].leaf
    <3>1. order[n] = <<n>> /\ after[id[n]] = <<id[n]>>
      BY <1>2, <1>4, <2>1 DEF Branching
    <3>2. Mapped(<<n>>, id) = <<id[n]>>
      BY <1>5, MappedOne DEF Maps
    <3> QED
      BY <3>1, <3>2
  <2>2. CASE ~tab.nodes[n].leaf
    <3> DEFINE a == tab.nodes[n].first
               b == tab.nodes[n].second
    <3>1. /\ a \in D /\ b \in D /\ a \in Kids(tab, n) /\ b \in Kids(tab, n)
      BY <1>1, <2>2, KidsAre
    <3>2. a \in T /\ b \in T
      BY <1>3, <1>6, <3>1
    <3>3. order[n] = <<n>> \o order[a] \o order[b]
      BY <1>4, <2>2 DEF Branching
    <3>4. new.nodes[id[n]] = Branch(id[a], id[b])
      BY <1>2, <2>2 DEF RenamedNode
    <3>5. after[id[n]] = <<id[n]>> \o after[id[a]] \o after[id[b]]
      <4>1. ~new.nodes[id[n]].leaf
        BY <1>2, <2>2
      <4>2. new.nodes[id[n]].first = id[a] /\ new.nodes[id[n]].second = id[b]
        BY <3>4 DEF Branch
      <4> HIDE DEF a, b
      <4> QED
        BY <1>2, <1>4, <4>1, <4>2 DEF Branching
    <3> HIDE DEF a, b
    <3>6. after[id[a]] = Mapped(order[a], id) /\ after[id[b]] = Mapped(order[b], id)
      BY <3>2
    <3>7. Mapped(<<n>> \o order[a] \o order[b], id) =
             <<id[n]>> \o Mapped(order[a], id) \o Mapped(order[b], id)
      <4>1. order[a] \in Seq(D) /\ order[b] \in Seq(D)
        BY <1>4, <3>1
      <4>2. Maps(id, D, R)
        BY <1>5 DEF Maps
      <4> HIDE DEF D, R
      <4>3. MapTakes(n, order[a], order[b], id)
        BY <4>1, <4>2, MappedThree
      <4> QED
        BY <4>3 DEF MapTakes
    <3> QED
      BY <3>3, <3>5, <3>6, <3>7
  <2> QED
    BY <2>1, <2>2
<1>7. D \subseteq T
  <2>1. \A n \in D : (\A m \in D : height[m] < height[n] => m \in T)
                        => n \in T
    BY <1>6
  <2> HIDE DEF T, D
  <2> QED
    BY <1>3, <2>1, LimitsType, RankedInduction
<1> DEFINE s == Preorder(tab)
           t == Preorder(new)
<1>8. s \in Seq(D) /\ t = Mapped(s, id)
  <2>1. tab.root \in D /\ s = order[tab.root] /\ t = after[id[tab.root]]
    BY <1>1, <1>2, RootIs, PreorderOf DEF order, after
  <2>2. tab.root \in T
    BY <1>7, <2>1
  <2> QED
    BY <1>4, <2>1, <2>2
<1> HIDE DEF s, t
<1>9. /\ DOMAIN t = 1..Len(s) /\ DOMAIN s = 1..Len(s)
      /\ \A i \in 1..Len(s) : t[i] = id[s[i]] /\ s[i] \in D
  <2>1. Maps(id, D, R)
    BY <1>5 DEF Maps
  <2>2. Follows(t, s, id)
    BY <1>8, <2>1, MappedType
  <2>3. DOMAIN s = 1..Len(s) /\ \A i \in 1..Len(s) : s[i] \in D
    BY <1>8, LenProperties, ElementOfSeq
  <2> QED
    BY <2>2, <2>3 DEF Follows
<1>10. \A i \in 1..Len(s) : new.nodes[t[i]].pane = tab.nodes[s[i]].pane
  BY <1>2, <1>9
<1> QED
  BY <1>9, <1>10 DEF Shape, s, t


(* A restored tree: no two nodes get one name.                              *)
LeavesApart(tab) == \A m, n \in Leaves(tab) : m[2] = n[2] => m = n

PlaceOf(tab, n) ==
    CHOOSE j \in DOMAIN Preorder(tab) : Preorder(tab)[j] = n

(* Every node has a place in the preorder.                                  *)
LEMMA PlaceIs ==
    ASSUME NEW tab, IsTree(tab), NEW n \in DOMAIN tab.nodes
    PROVE  /\ PlaceOf(tab, n) \in 1..Len(Preorder(tab))
           /\ Preorder(tab)[PlaceOf(tab, n)] = n
           /\ Len(Preorder(tab)) \in Nat
<1> DEFINE order == Preorder(tab)
<1>1. order \in Seq(DOMAIN tab.nodes) /\ ToSet(order) = DOMAIN tab.nodes
  BY PreorderType
<1>2. DOMAIN order = 1..Len(order) /\ Len(order) \in Nat
  BY <1>1, LenProperties
<1>3. \E j \in DOMAIN order : order[j] = n
  BY <1>1 DEF ToSet
<1> QED
  BY <1>2, <1>3 DEF PlaceOf

(* The branches up to a node are finitely many.                             *)
LEMMA BranchesAre ==
    ASSUME NEW tab, IsTree(tab), NEW n \in DOMAIN tab.nodes
    PROVE  /\ BranchesUpTo(tab, n) =
                 {i \in 1..PlaceOf(tab, n) : ~tab.nodes[Preorder(tab)[i]].leaf}
           /\ IsFiniteSet(BranchesUpTo(tab, n))
           /\ Cardinality(BranchesUpTo(tab, n)) \in Nat
<1>1. BranchesUpTo(tab, n) =
         {i \in 1..PlaceOf(tab, n) : ~tab.nodes[Preorder(tab)[i]].leaf}
  BY DEF BranchesUpTo, PlaceOf
<1>2. IsFiniteSet(1..PlaceOf(tab, n))
  BY PlaceIs, FS_Interval
<1>3. IsFiniteSet(BranchesUpTo(tab, n))
  BY <1>1, <1>2, FS_Subset
<1> QED
  BY <1>1, <1>3, FS_CardinalityType

(* A branch has more branches up to it than whatever comes before it.       *)
LEMMA BranchesApart ==
    ASSUME NEW tab, IsTree(tab), NEW m \in DOMAIN tab.nodes,
           NEW n \in DOMAIN tab.nodes, ~tab.nodes[n].leaf,
           PlaceOf(tab, m) < PlaceOf(tab, n)
    PROVE  Cardinality(BranchesUpTo(tab, m)) # Cardinality(BranchesUpTo(tab, n))
<1> DEFINE p == PlaceOf(tab, m)
           q == PlaceOf(tab, n)
           A == BranchesUpTo(tab, m)
           B == BranchesUpTo(tab, n)
           Is(i) == ~tab.nodes[Preorder(tab)[i]].leaf
<1>1. /\ A = {i \in 1..p : Is(i)} /\ B = {i \in 1..q : Is(i)}
      /\ IsFiniteSet(B)
  BY BranchesAre
<1>2. p \in Nat /\ q \in Nat /\ Is(q) /\ 1 <= q /\ p < q
  BY PlaceIs
<1> HIDE DEF p, q, A, B, Is
<1>3. 1..p \subseteq 1..q /\ q \in 1..q /\ q \notin 1..p
  BY <1>2
<1>4. A \in SUBSET B /\ A # B
  BY <1>1, <1>2, <1>3
<1>5. Cardinality(B) # Cardinality(A)
  BY <1>1, <1>4, FS_Subset
<1> QED
  BY <1>5 DEF A, B

RestoredNames(tab) == [n \in DOMAIN tab.nodes |-> RestoredNode(tab, n)]

(* The names of nodes: those of one kind differ when their numbers do,      *)
(* those of two kinds always.                                               *)
LEMMA NodeIdIs ==
    /\ \A n \in NodeIds : n[2] \in Nat
    /\ \A k \in Nat : /\ <<"node", k>> \in NodeIds
                      /\ <<"restored", k>> \in NodeIds
    /\ \A j, k : <<"node", j>> # <<"restored", k>>
    /\ \A j, k : <<"node", j>> = <<"node", k>> => j = k
    /\ \A j, k : <<"restored", j>> = <<"restored", k>> => j = k
BY DEF NodeIds

(* restore_tab() gives no two nodes one name.                               *)
LEMMA RestoredApart ==
    ASSUME NEW tab, IsTree(tab), LeavesApart(tab)
    PROVE  Names(RestoredNames(tab), DOMAIN tab.nodes)
<1> DEFINE D == DOMAIN tab.nodes
           id == RestoredNames(tab)
           count(n) == Cardinality(BranchesUpTo(tab, n))
<1>1. \A n \in D : n \in NodeIds /\ n[2] \in Nat /\ count(n) \in Nat
  <2>1. D \subseteq NodeIds
    BY DEF IsTree
  <2> QED
    BY <2>1, NodeIdIs, BranchesAre
<1>2. \A n \in D : /\ tab.nodes[n].leaf => id[n] = <<"node", n[2]>>
                   /\ ~tab.nodes[n].leaf => id[n] = <<"restored", count(n)>>
  BY DEF RestoredNames, RestoredNode, Node
<1>3. DOMAIN id = D /\ id = [n \in D |-> id[n]]
  BY DEF RestoredNames
<1> HIDE DEF id, count
<1>4. \A n \in D : id[n] \in NodeIds
  BY <1>1, <1>2, NodeIdIs
<1>5. ASSUME NEW m \in D, NEW n \in D, id[m] = id[n]
      PROVE  m = n
  <2>1. CASE tab.nodes[m].leaf /\ tab.nodes[n].leaf
    <3>1. m[2] = n[2]
      BY <1>2, <1>5, <2>1, NodeIdIs
    <3>2. m \in Leaves(tab) /\ n \in Leaves(tab)
      BY <2>1 DEF Leaves
    <3> QED
      BY <3>1, <3>2 DEF LeavesApart
  <2>2. CASE ~tab.nodes[m].leaf /\ ~tab.nodes[n].leaf
    <3>1. count(m) = count(n)
      BY <1>2, <1>5, <2>2, NodeIdIs
    <3>2. ~(PlaceOf(tab, m) < PlaceOf(tab, n))
      BY <2>2, <3>1, BranchesApart DEF count
    <3>3. ~(PlaceOf(tab, n) < PlaceOf(tab, m))
      BY <2>2, <3>1, BranchesApart DEF count
    <3>4. PlaceOf(tab, m) \in Nat /\ PlaceOf(tab, n) \in Nat
      BY PlaceIs
    <3>5. PlaceOf(tab, m) = PlaceOf(tab, n)
      BY <3>2, <3>3, <3>4
    <3> QED
      BY <3>5, PlaceIs
  <2>3. CASE tab.nodes[m].leaf /\ ~tab.nodes[n].leaf
    BY <1>2, <1>5, <2>3, NodeIdIs
  <2>4. CASE ~tab.nodes[m].leaf /\ tab.nodes[n].leaf
    BY <1>2, <1>5, <2>4, NodeIdIs
  <2> QED
    BY <2>1, <2>2, <2>3, <2>4
<1>6. IsInjective(id)
  BY <1>3, <1>5 DEF IsInjective
<1>7. id \in [D -> NodeIds]
  BY <1>3, <1>4
<1> QED
  BY <1>6, <1>7 DEF Names, id

(* The tabs of a Session.                                                   *)
LEMMA TabIs ==
    ASSUME NEW tab
    PROVE  IsTab(tab) <=>
              /\ Fields3(tab) /\ Holds(tab, DOMAIN tab.panes)
              /\ DOMAIN tab.panes \subseteq Nat /\ IsFiniteSet(DOMAIN tab.panes)
              /\ \A p \in DOMAIN tab.panes : tab.panes[p] \in PaneType
BY DEF IsTab, Fields3, Holds

(* A restored tab is a tab with the panes and the shape of the saved one.   *)
LEMMA RestoredIs ==
    ASSUME NEW tab, IsTab(tab), LeavesApart(tab),
           NEW new, new = RestoredTab(tab)
    PROVE  /\ IsTab(new) /\ new.panes = tab.panes /\ Shape(new) = Shape(tab)
<1> DEFINE id == RestoredNames(tab)
<1>1. /\ Fields3(tab) /\ Holds(tab, DOMAIN tab.panes) /\ IsTree(tab)
      /\ DOMAIN tab.panes \subseteq Nat /\ IsFiniteSet(DOMAIN tab.panes)
      /\ \A p \in DOMAIN tab.panes : tab.panes[p] \in PaneType
  BY TabIs DEF Holds
<1>2. Names(id, DOMAIN tab.nodes)
  BY <1>1, RestoredApart
<1>3. new = Renamed(tab, id)
  BY DEF RestoredTab, RestoredNames
<1> HIDE DEF id
<1>4. new.panes = tab.panes /\ Fields3(new)
  <2>1. IsRenamed(tab, id, new)
    BY <1>1, <1>2, <1>3, RenamedIs
  <2> QED
    BY <2>1 DEF IsRenamed
<1>5. Holds(new, DOMAIN tab.panes)
  BY <1>1, <1>2, <1>3, RenamedHolds
<1>6. Shape(new) = Shape(tab)
  BY <1>1, <1>2, <1>3, RenamedShape
<1>7. IsTab(new)
  BY <1>1, <1>4, <1>5, TabIs
<1> QED
  BY <1>4, <1>6, <1>7


-----------------------------------------------------------------------------
(* Parts of a Session.                                                      *)
States == {"running", "clean", "failed"}

TerminalType == [state : States, generation : Nat, tried : Seq(Nat)]

(* A Session has its fields.                                                *)
Fields(s) ==
    s = [rev |-> s.rev, spaces |-> s.spaces, tabs |-> s.tabs,
         serial |-> s.serial, terminals |-> s.terminals,
         nextTerminal |-> s.nextTerminal]


-----------------------------------------------------------------------------
(* The tabs and Spaces of a Session.                                        *)

Apart(tabs) ==
    \A t, u \in DOMAIN tabs :
        \A p \in DOMAIN tabs[t].panes, q \in DOMAIN tabs[u].panes :
            (\/ p = q
             \/ /\ tabs[t].panes[p].terminal = tabs[u].panes[q].terminal
                /\ tabs[t].panes[p].terminal # 0)
            => t = u /\ p = q

(* Nothing in a tab has a number that is still to be given out.             *)
Marked(tab, serial, next) ==
    /\ \A p \in DOMAIN tab.panes :
          p < serial /\ tab.panes[p].terminal < next
    /\ \A n \in DOMAIN tab.nodes : n[2] < serial

TabOK(tab, serial, next) ==
    /\ IsTab(tab) /\ Cardinality(DOMAIN tab.panes) \in 1..MaxPanes
    /\ Marked(tab, serial, next)

TabsOK(tabs, serial, next) ==
    /\ DOMAIN tabs \subseteq Nat /\ IsFiniteSet(DOMAIN tabs)
    /\ \A t \in DOMAIN tabs : t < serial /\ TabOK(tabs[t], serial, next)
    /\ Apart(tabs)

SpacesOK(spaces, T, serial) ==
    /\ DOMAIN spaces \subseteq Nat /\ IsFiniteSet(DOMAIN spaces)
    /\ Cardinality(DOMAIN spaces) \in 1..MaxSpaces
    /\ UNION Range(spaces) = T
    /\ \A a, b \in DOMAIN spaces : spaces[a] \cap spaces[b] # {} => a = b
    /\ \A sp \in DOMAIN spaces :
          sp < serial /\ Cardinality(spaces[sp]) \in 1..MaxTabs

PaneTerms(tab) == {tab.panes[p].terminal : p \in DOMAIN tab.panes} \ {0}

(* The terminals of the tabs are those of each of them.                     *)
LEMMA TerminalsAre ==
    ASSUME NEW tabs
    PROVE  TerminalsOf(tabs) = UNION {PaneTerms(tabs[t]) : t \in DOMAIN tabs}
<1> DEFINE U == UNION {{tabs[t].panes[p].terminal : p \in DOMAIN tabs[t].panes} :
                         t \in DOMAIN tabs}
           V == UNION {PaneTerms(tabs[t]) : t \in DOMAIN tabs}
<1>1. ASSUME NEW x \in U, x # 0 PROVE x \in V
  <2>1. PICK t \in DOMAIN tabs :
           x \in {tabs[t].panes[p].terminal : p \in DOMAIN tabs[t].panes}
    BY <1>1
  <2>2. x \in PaneTerms(tabs[t])
    BY <1>1, <2>1 DEF PaneTerms
  <2> QED
    BY <2>2
<1>2. ASSUME NEW x \in V PROVE x \in U /\ x # 0
  <2>1. PICK t \in DOMAIN tabs : x \in PaneTerms(tabs[t])
    BY <1>2
  <2>2. x \in {tabs[t].panes[p].terminal : p \in DOMAIN tabs[t].panes} /\ x # 0
    BY <2>1 DEF PaneTerms
  <2> QED
    BY <2>2
<1>3. TerminalsOf(tabs) = U \ {0}
  BY DEF TerminalsOf
<1> HIDE DEF U, V
<1>4. U \ {0} = V
  BY <1>1, <1>2
<1> QED
  BY <1>3, <1>4 DEF V

(* A tab stays one when more numbers are given out ...                      *)
LEMMA TabMore ==
    ASSUME NEW tab, NEW serial \in Nat, NEW next \in Nat,
           TabOK(tab, serial, next), NEW serial2 \in Nat, NEW next2 \in Nat,
           serial <= serial2, next <= next2
    PROVE  TabOK(tab, serial2, next2)
<1>1. /\ \A p \in DOMAIN tab.panes : p \in Nat /\ tab.panes[p].terminal \in Nat
      /\ \A n \in DOMAIN tab.nodes : n[2] \in Nat
  <2>1. \A p \in DOMAIN tab.panes : p \in Nat /\ tab.panes[p] \in PaneType
    BY DEF TabOK, IsTab
  <2>2. \A n \in DOMAIN tab.nodes : n \in NodeIds
    BY DEF TabOK, IsTab, IsTree
  <2> QED
    BY <2>1, <2>2, NodeIdIs DEF PaneType
<1>2. \A a, b, c \in Nat : a < b /\ b <= c => a < c
  OBVIOUS
<1>3. Marked(tab, serial2, next2)
  BY <1>1, <1>2 DEF TabOK, Marked
<1> QED
  BY <1>3 DEF TabOK

(* ... so do the tabs ...                                                   *)
LEMMA TabsMore ==
    ASSUME NEW tabs, NEW serial \in Nat, NEW next \in Nat,
           TabsOK(tabs, serial, next), NEW serial2 \in Nat, NEW next2 \in Nat,
           serial <= serial2, next <= next2
    PROVE  TabsOK(tabs, serial2, next2)
<1>1. \A a, b, c \in Nat : a < b /\ b <= c => a < c
  OBVIOUS
<1>2. ASSUME NEW t \in DOMAIN tabs
      PROVE  t < serial2 /\ TabOK(tabs[t], serial2, next2)
  <2>1. t \in Nat /\ t < serial /\ TabOK(tabs[t], serial, next)
    BY DEF TabsOK
  <2> QED
    BY <1>1, <2>1, TabMore
<1> QED
  BY <1>2 DEF TabsOK

(* ... and the Spaces.                                                      *)
LEMMA SpacesMore ==
    ASSUME NEW spaces, NEW T, NEW serial \in Nat, SpacesOK(spaces, T, serial),
           NEW serial2 \in Nat, serial <= serial2
    PROVE  SpacesOK(spaces, T, serial2)
<1>1. \A a, b, c \in Nat : a < b /\ b <= c => a < c
  OBVIOUS
<1>2. \A sp \in DOMAIN spaces : sp \in Nat /\ sp < serial
  BY DEF SpacesOK
<1>3. \A sp \in DOMAIN spaces : sp < serial2
  BY <1>1, <1>2
<1> QED
  BY <1>3 DEF SpacesOK

(* A tab whose panes and terminals are in none of the others.               *)
Foreign(tab, tabs) ==
    \A u \in DOMAIN tabs :
        \A p \in DOMAIN tab.panes, q \in DOMAIN tabs[u].panes :
            /\ p # q
            /\ tab.panes[p].terminal # tabs[u].panes[q].terminal
               \/ tab.panes[p].terminal = 0

Own(tab) ==
    \A p, q \in DOMAIN tab.panes :
        tab.panes[p].terminal = tab.panes[q].terminal
        /\ tab.panes[p].terminal # 0 => p = q

Joined(new, tabs, t, tab) ==
    /\ DOMAIN new = DOMAIN tabs \cup {t}
    /\ TerminalsOf(new) = TerminalsOf(tabs) \cup PaneTerms(tab)
    /\ new[t] = tab /\ \A u \in DOMAIN tabs : new[u] = tabs[u]

(* A tab with panes and terminals of its own joins the others.              *)
LEMMA TabsWith ==
    ASSUME NEW tabs, NEW serial \in Nat, NEW next \in Nat,
           TabsOK(tabs, serial, next), NEW t \in Nat \ DOMAIN tabs, t < serial,
           NEW tab, TabOK(tab, serial, next), Own(tab), Foreign(tab, tabs),
           NEW new, new = With(tabs, t, tab)
    PROVE  TabsOK(new, serial, next) /\ Joined(new, tabs, t, tab)
<1> DEFINE D == DOMAIN tabs
<1>1. /\ DOMAIN new = D \cup {t} /\ new[t] = tab
      /\ \A u \in D : new[u] = tabs[u]
  BY DEF With
<1>2. DOMAIN new \subseteq Nat /\ IsFiniteSet(DOMAIN new)
  BY <1>1, FS_AddElement DEF TabsOK
<1>3. \A u \in DOMAIN new : u < serial /\ TabOK(new[u], serial, next)
  BY <1>1 DEF TabsOK
<1>4. Apart(new)
  <2> DEFINE Meet(a, b, p, q) ==
          \/ p = q
          \/ a.panes[p].terminal = b.panes[q].terminal
             /\ a.panes[p].terminal # 0
  <2>1. \A u, v \in D : \A p \in DOMAIN tabs[u].panes :
           \A q \in DOMAIN tabs[v].panes :
              Meet(tabs[u], tabs[v], p, q) => u = v /\ p = q
    BY DEF TabsOK, Apart
  <2>2. \A p, q \in DOMAIN tab.panes : Meet(tab, tab, p, q) => p = q
    BY DEF Own
  <2>3. \A u \in D : \A p \in DOMAIN tab.panes :
           \A q \in DOMAIN tabs[u].panes :
              ~Meet(tab, tabs[u], p, q) /\ ~Meet(tabs[u], tab, q, p)
    BY DEF Foreign
  <2>4. \A u, v \in DOMAIN new : \A p \in DOMAIN new[u].panes :
           \A q \in DOMAIN new[v].panes :
              Meet(new[u], new[v], p, q) => u = v /\ p = q
    <3> HIDE DEF Meet
    <3> QED
      BY <1>1, <2>1, <2>2, <2>3
  <2> QED
    BY <2>4 DEF Apart
<1>5. TerminalsOf(new) = TerminalsOf(tabs) \cup PaneTerms(tab)
  <2>1. TerminalsOf(new) = UNION {PaneTerms(new[u]) : u \in DOMAIN new}
    BY TerminalsAre
  <2>2. TerminalsOf(tabs) = UNION {PaneTerms(tabs[u]) : u \in D}
    BY TerminalsAre
  <2> QED
    BY <1>1, <2>1, <2>2
<1> QED
  BY <1>1, <1>2, <1>3, <1>4, <1>5 DEF TabsOK, Joined

(* What a map is on a part of what it is defined for.                       *)
LEMMA RestrictIs ==
    ASSUME NEW f, NEW A
    PROVE  /\ DOMAIN Restrict(f, A) = A
           /\ \A x \in A : Restrict(f, A)[x] = f[x]
BY DEF Restrict

(* Some of the tabs are tabs, and their terminals are theirs alone.         *)
LEMMA TabsRestrict ==
    ASSUME NEW tabs, NEW serial \in Nat, NEW next \in Nat,
           TabsOK(tabs, serial, next), NEW A \in SUBSET DOMAIN tabs
    PROVE  /\ TabsOK(Restrict(tabs, A), serial, next)
           /\ DOMAIN Restrict(tabs, A) = A
           /\ \A u \in A : Restrict(tabs, A)[u] = tabs[u]
           /\ TerminalsOf(Restrict(tabs, A)) \subseteq TerminalsOf(tabs)
           /\ TerminalsOf(Restrict(tabs, DOMAIN tabs \ A)) =
                 TerminalsOf(tabs) \ TerminalsOf(Restrict(tabs, A))
<1> DEFINE D == DOMAIN tabs
           B == D \ A
           f == Restrict(tabs, A)
           g == Restrict(tabs, B)
<1>1. DOMAIN f = A /\ \A u \in A : f[u] = tabs[u]
  BY DEF Restrict
<1>2. DOMAIN g = B /\ \A u \in B : g[u] = tabs[u]
  BY DEF Restrict
<1> HIDE DEF f, g
<1>3. TabsOK(f, serial, next)
  <2>1. DOMAIN f \subseteq Nat /\ IsFiniteSet(DOMAIN f)
    BY <1>1, FS_Subset DEF TabsOK
  <2>2. \A u \in DOMAIN f : u < serial /\ TabOK(f[u], serial, next)
    BY <1>1 DEF TabsOK
  <2>3. Apart(f)
    BY <1>1 DEF TabsOK, Apart
  <2> QED
    BY <2>1, <2>2, <2>3 DEF TabsOK
<1>4. /\ TerminalsOf(f) = UNION {PaneTerms(tabs[u]) : u \in A}
      /\ TerminalsOf(g) = UNION {PaneTerms(tabs[u]) : u \in B}
      /\ TerminalsOf(tabs) = UNION {PaneTerms(tabs[u]) : u \in D}
  <2>1. {PaneTerms(f[u]) : u \in A} = {PaneTerms(tabs[u]) : u \in A}
    BY <1>1
  <2>2. {PaneTerms(g[u]) : u \in B} = {PaneTerms(tabs[u]) : u \in B}
    BY <1>2
  <2> QED
    BY <1>1, <1>2, <2>1, <2>2, TerminalsAre
<1>5. ASSUME NEW u \in A, NEW v \in B
      PROVE  PaneTerms(tabs[u]) \cap PaneTerms(tabs[v]) = {}
  <2>1. u \in D /\ v \in D /\ u # v
    OBVIOUS
  <2> QED
    BY <2>1 DEF TabsOK, Apart, PaneTerms
<1>6. TerminalsOf(g) = TerminalsOf(tabs) \ TerminalsOf(f)
  BY <1>4, <1>5
<1>7. TerminalsOf(f) \subseteq TerminalsOf(tabs)
  BY <1>4
<1> QED
  BY <1>1, <1>3, <1>6, <1>7 DEF f, g

(* One tab takes the place of another.                                      *)
Others(tabs, t) == Restrict(tabs, DOMAIN tabs \ {t})

(* The tabs other than one have all terminals but those of it.              *)
LEMMA OthersAre ==
    ASSUME NEW tabs, NEW serial \in Nat, NEW next \in Nat,
           TabsOK(tabs, serial, next), NEW t \in DOMAIN tabs
    PROVE  /\ TabsOK(Others(tabs, t), serial, next)
           /\ DOMAIN Others(tabs, t) = DOMAIN tabs \ {t}
           /\ \A u \in DOMAIN tabs : u # t => Others(tabs, t)[u] = tabs[u]
           /\ TerminalsOf(Others(tabs, t)) =
                 TerminalsOf(tabs) \ PaneTerms(tabs[t])
           /\ PaneTerms(tabs[t]) \subseteq TerminalsOf(tabs)
           /\ PaneTerms(tabs[t]) = TerminalsOf(Restrict(tabs, {t}))
<1>1. /\ TerminalsOf(Others(tabs, t)) =
            TerminalsOf(tabs) \ TerminalsOf(Restrict(tabs, {t}))
      /\ TerminalsOf(Restrict(tabs, {t})) \subseteq TerminalsOf(tabs)
      /\ DOMAIN Restrict(tabs, {t}) = {t} /\ Restrict(tabs, {t})[t] = tabs[t]
  BY TabsRestrict DEF Others
<1>2. TerminalsOf(Restrict(tabs, {t})) = PaneTerms(tabs[t])
  <2> DEFINE one == Restrict(tabs, {t})
  <2>1. TerminalsOf(one) = UNION {PaneTerms(one[u]) : u \in DOMAIN one}
    BY TerminalsAre
  <2>2. DOMAIN one = {t} /\ one[t] = tabs[t]
    BY <1>1
  <2> HIDE DEF one
  <2>3. {PaneTerms(one[u]) : u \in DOMAIN one} = {PaneTerms(tabs[t])}
    BY <2>2
  <2>4. \A S : UNION {S} = S
    OBVIOUS
  <2>5. TerminalsOf(one) = PaneTerms(tabs[t])
    BY <2>1, <2>3, <2>4
  <2> QED
    BY <2>5 DEF one
<1>3. TabsOK(Others(tabs, t), serial, next)
  BY TabsRestrict DEF Others
<1>4. /\ DOMAIN Others(tabs, t) = DOMAIN tabs \ {t}
      /\ \A u \in DOMAIN tabs : u # t => Others(tabs, t)[u] = tabs[u]
  BY DEF Others, Restrict
<1> QED
  BY <1>1, <1>2, <1>3, <1>4

Replaced(new, tabs, t, tab) ==
    /\ DOMAIN new = DOMAIN tabs
    /\ TerminalsOf(new) =
          (TerminalsOf(tabs) \ PaneTerms(tabs[t])) \cup PaneTerms(tab)
    /\ new[t] = tab /\ \A u \in DOMAIN tabs : u # t => new[u] = tabs[u]

(* A tab is replaced by one that shares nothing with the others.            *)
LEMMA TabsReplace ==
    ASSUME NEW tabs, NEW serial \in Nat, NEW next \in Nat,
           TabsOK(tabs, serial, next), NEW t \in DOMAIN tabs,
           NEW tab, TabOK(tab, serial, next), Own(tab),
           Foreign(tab, Others(tabs, t)),
           NEW new, new = [tabs EXCEPT ![t] = tab]
    PROVE  TabsOK(new, serial, next) /\ Replaced(new, tabs, t, tab)
<1> DEFINE others == Others(tabs, t)
           D == DOMAIN tabs
<1>1. /\ TabsOK(others, serial, next) /\ DOMAIN others = D \ {t}
      /\ \A u \in D : u # t => others[u] = tabs[u]
      /\ TerminalsOf(others) = TerminalsOf(tabs) \ PaneTerms(tabs[t])
  BY OthersAre
<1>2. t \in Nat /\ t < serial
  BY DEF TabsOK
<1> HIDE DEF others
<1>3. new = With(others, t, tab)
  <2>1. With(others, t, tab) =
           [u \in (D \ {t}) \cup {t} |-> IF u = t THEN tab ELSE others[u]]
    BY <1>1 DEF With
  <2>2. (D \ {t}) \cup {t} = D
    OBVIOUS
  <2>3. new = [u \in D |-> IF u = t THEN tab ELSE tabs[u]]
    OBVIOUS
  <2>4. \A u \in D : (IF u = t THEN tab ELSE tabs[u]) =
                     (IF u = t THEN tab ELSE others[u])
    BY <1>1
  <2> QED
    BY <2>1, <2>2, <2>3, <2>4
<1>4. /\ TabsOK(new, serial, next)
      /\ TerminalsOf(new) = TerminalsOf(others) \cup PaneTerms(tab)
  <2>1. t \in Nat \ DOMAIN others /\ Foreign(tab, others)
    BY <1>1, <1>2 DEF others
  <2>2. TabsOK(others, serial, next)
    BY <1>1
  <2>3. t < serial
    BY <1>2
  <2> HIDE DEF Foreign
  <2>4. TabsOK(new, serial, next) /\ Joined(new, others, t, tab)
    BY <1>3, <2>1, <2>2, <2>3, TabsWith
  <2> QED
    BY <2>4 DEF Joined
<1>5. /\ DOMAIN new = DOMAIN tabs /\ new[t] = tab
      /\ \A u \in DOMAIN tabs : u # t => new[u] = tabs[u]
  OBVIOUS
<1> QED
  BY <1>1, <1>4, <1>5 DEF Replaced

(* The Spaces a tab is in.                                                  *)
LEMMA Gathered ==
    ASSUME NEW spaces, NEW x
    PROVE  x \in UNION Range(spaces) <=> \E sp \in DOMAIN spaces : x \in spaces[sp]
BY DEF Range

(* A Space has finitely many tabs.                                          *)
LEMMA SpaceFinite ==
    ASSUME NEW spaces, NEW T, NEW serial, SpacesOK(spaces, T, serial),
           IsFiniteSet(T), NEW sp \in DOMAIN spaces
    PROVE  /\ spaces[sp] \subseteq T /\ IsFiniteSet(spaces[sp])
           /\ Cardinality(spaces[sp]) \in Nat
<1>1. spaces[sp] \subseteq UNION Range(spaces)
  BY Gathered
<1>2. spaces[sp] \subseteq T
  BY <1>1 DEF SpacesOK
<1>3. IsFiniteSet(spaces[sp])
  BY <1>2, FS_Subset
<1> QED
  BY <1>2, <1>3, FS_CardinalityType

(* A new tab comes into a Space that is not full.                           *)
LEMMA SpaceTakes ==
    ASSUME NEW spaces, NEW T, NEW serial, SpacesOK(spaces, T, serial),
           IsFiniteSet(T), NEW sp \in DOMAIN spaces,
           Cardinality(spaces[sp]) < MaxTabs, NEW tab, tab \notin T,
           NEW new, new = [spaces EXCEPT ![sp] = @ \cup {tab}]
    PROVE  SpacesOK(new, T \cup {tab}, serial)
<1>1. /\ DOMAIN new = DOMAIN spaces /\ new[sp] = spaces[sp] \cup {tab}
      /\ \A a \in DOMAIN spaces : a # sp => new[a] = spaces[a]
  OBVIOUS
<1>2. \A a \in DOMAIN spaces :
         spaces[a] \subseteq T /\ IsFiniteSet(spaces[a])
  BY SpaceFinite
<1>3. UNION Range(new) = T \cup {tab}
  <2>1. \A x : x \in T <=> \E a \in DOMAIN spaces : x \in spaces[a]
    BY Gathered DEF SpacesOK
  <2>2. \A x : x \in UNION Range(new) <=> \E a \in DOMAIN spaces : x \in new[a]
    BY <1>1, Gathered
  <2>3. \A x : x \in UNION Range(new) <=> x \in T \cup {tab}
    BY <1>1, <2>1, <2>2
  <2> QED
    BY <2>3
<1>4. \A a, b \in DOMAIN new : new[a] \cap new[b] # {} => a = b
  <2>1. \A a, b \in DOMAIN spaces : spaces[a] \cap spaces[b] # {} => a = b
    BY DEF SpacesOK
  <2> QED
    BY <1>1, <1>2, <2>1
<1>5. \A a \in DOMAIN new : a < serial /\ Cardinality(new[a]) \in 1..MaxTabs
  <2>1. /\ Cardinality(spaces[sp] \cup {tab}) = Cardinality(spaces[sp]) + 1
        /\ Cardinality(spaces[sp]) \in Nat
    BY <1>2, FS_AddElement, FS_CardinalityType
  <2>2. Cardinality(new[sp]) \in 1..MaxTabs
    BY <1>1, <2>1, SessionTreeAssumption
  <2>3. \A a \in DOMAIN spaces :
           a < serial /\ Cardinality(spaces[a]) \in 1..MaxTabs
    BY DEF SpacesOK
  <2> QED
    BY <1>1, <2>2, <2>3
<1> QED
  BY <1>1, <1>3, <1>4, <1>5 DEF SpacesOK

(* A new Space comes with a new tab.                                        *)
LEMMA SpaceNew ==
    ASSUME NEW spaces, NEW T, NEW serial, SpacesOK(spaces, T, serial),
           IsFiniteSet(T), NEW sp \in Nat \ DOMAIN spaces, sp < serial,
           Cardinality(DOMAIN spaces) < MaxSpaces, NEW tab, tab \notin T,
           NEW new, new = With(spaces, sp, {tab})
    PROVE  SpacesOK(new, T \cup {tab}, serial)
<1>1. /\ DOMAIN new = DOMAIN spaces \cup {sp} /\ new[sp] = {tab}
      /\ \A a \in DOMAIN spaces : a # sp /\ new[a] = spaces[a]
  BY DEF With
<1>2. \A a \in DOMAIN spaces : spaces[a] \subseteq T
  BY SpaceFinite
<1>3. UNION Range(new) = T \cup {tab}
  <2>1. \A x : x \in T <=> \E a \in DOMAIN spaces : x \in spaces[a]
    BY Gathered DEF SpacesOK
  <2>2. \A x : x \in UNION Range(new) <=> \E a \in DOMAIN new : x \in new[a]
    BY Gathered
  <2>3. \A x : x \in UNION Range(new) <=> x \in T \cup {tab}
    BY <1>1, <2>1, <2>2
  <2> QED
    BY <2>3
<1>4. \A a, b \in DOMAIN new : new[a] \cap new[b] # {} => a = b
  <2>1. \A a, b \in DOMAIN spaces : spaces[a] \cap spaces[b] # {} => a = b
    BY DEF SpacesOK
  <2> QED
    BY <1>1, <1>2, <2>1
<1>5. \A a \in DOMAIN new : a < serial /\ Cardinality(new[a]) \in 1..MaxTabs
  <2>1. Cardinality({tab}) = 1
    BY FS_Singleton
  <2>4. 1 \in 1..MaxTabs
    BY SessionTreeAssumption
  <2>2. Cardinality(new[sp]) \in 1..MaxTabs
    BY <1>1, <2>1, <2>4
  <2>3. \A a \in DOMAIN spaces :
           a < serial /\ Cardinality(spaces[a]) \in 1..MaxTabs
    BY DEF SpacesOK
  <2> QED
    BY <1>1, <2>2, <2>3
<1>6. /\ DOMAIN new \subseteq Nat /\ IsFiniteSet(DOMAIN new)
      /\ Cardinality(DOMAIN new) \in 1..MaxSpaces
  <2>1. /\ DOMAIN spaces \subseteq Nat /\ IsFiniteSet(DOMAIN spaces)
    BY DEF SpacesOK
  <2>2. /\ Cardinality(DOMAIN new) = Cardinality(DOMAIN spaces) + 1
        /\ IsFiniteSet(DOMAIN new)
    BY <1>1, <2>1, FS_AddElement
  <2>3. Cardinality(DOMAIN spaces) \in Nat
    BY <2>1, FS_CardinalityType
  <2> QED
    BY <1>1, <2>1, <2>2, <2>3, SessionTreeAssumption
<1> QED
  BY <1>1, <1>3, <1>4, <1>5, <1>6 DEF SpacesOK

(* A Space of several tabs can lose one of them.                            *)
LEMMA SpaceDrops ==
    ASSUME NEW spaces, NEW T, NEW serial, SpacesOK(spaces, T, serial),
           IsFiniteSet(T), NEW sp \in DOMAIN spaces,
           Cardinality(spaces[sp]) > 1, NEW tab \in spaces[sp],
           NEW new, new = [spaces EXCEPT ![sp] = @ \ {tab}]
    PROVE  SpacesOK(new, T \ {tab}, serial)
<1>1. /\ DOMAIN new = DOMAIN spaces /\ new[sp] = spaces[sp] \ {tab}
      /\ \A a \in DOMAIN spaces : a # sp => new[a] = spaces[a]
  OBVIOUS
<1>2. \A a \in DOMAIN spaces :
         spaces[a] \subseteq T /\ IsFiniteSet(spaces[a])
  BY SpaceFinite
<1>3. \A a, b \in DOMAIN spaces : spaces[a] \cap spaces[b] # {} => a = b
  BY DEF SpacesOK
<1>4. \A a \in DOMAIN spaces : a # sp => tab \notin spaces[a]
  BY <1>3
<1>5. UNION Range(new) = T \ {tab}
  <2>1. \A x : x \in T <=> \E a \in DOMAIN spaces : x \in spaces[a]
    BY Gathered DEF SpacesOK
  <2>2. \A x : x \in UNION Range(new) <=> \E a \in DOMAIN spaces : x \in new[a]
    BY <1>1, Gathered
  <2>3. \A x : x \in UNION Range(new) <=> x \in T \ {tab}
    BY <1>1, <1>4, <2>1, <2>2
  <2> QED
    BY <2>3
<1>6. \A a, b \in DOMAIN new : new[a] \cap new[b] # {} => a = b
  BY <1>1, <1>3
<1>7. \A a \in DOMAIN new : a < serial /\ Cardinality(new[a]) \in 1..MaxTabs
  <2>1. /\ Cardinality(spaces[sp] \ {tab}) = Cardinality(spaces[sp]) - 1
        /\ Cardinality(spaces[sp]) \in Nat
    BY <1>2, FS_RemoveElement, FS_CardinalityType
  <2>2. \A a \in DOMAIN spaces :
           a < serial /\ Cardinality(spaces[a]) \in 1..MaxTabs
    BY DEF SpacesOK
  <2>3. Cardinality(new[sp]) \in 1..MaxTabs
    BY <1>1, <2>1, <2>2, SessionTreeAssumption
  <2> QED
    BY <1>1, <2>2, <2>3
<1> QED
  BY <1>1, <1>5, <1>6, <1>7 DEF SpacesOK

(* One Space of several can go, with its tabs.                              *)
LEMMA SpaceGone ==
    ASSUME NEW spaces, NEW T, NEW serial, SpacesOK(spaces, T, serial),
           NEW sp \in DOMAIN spaces, Cardinality(DOMAIN spaces) > 1,
           NEW new, new = Restrict(spaces, DOMAIN spaces \ {sp})
    PROVE  SpacesOK(new, T \ spaces[sp], serial)
<1>1. /\ DOMAIN new = DOMAIN spaces \ {sp}
      /\ \A a \in DOMAIN new : new[a] = spaces[a]
  BY DEF Restrict
<1>3. \A a, b \in DOMAIN spaces : spaces[a] \cap spaces[b] # {} => a = b
  BY DEF SpacesOK
<1>4. \A a \in DOMAIN new : spaces[a] \cap spaces[sp] = {}
  BY <1>1, <1>3
<1>5. UNION Range(new) = T \ spaces[sp]
  <2>1. \A x : x \in T <=> \E a \in DOMAIN spaces : x \in spaces[a]
    BY Gathered DEF SpacesOK
  <2>2. \A x : x \in UNION Range(new) <=> \E a \in DOMAIN new : x \in new[a]
    BY Gathered
  <2>3. \A x : x \in UNION Range(new) <=> x \in T \ spaces[sp]
    BY <1>1, <1>4, <2>1, <2>2
  <2> QED
    BY <2>3
<1>6. /\ DOMAIN new \subseteq Nat /\ IsFiniteSet(DOMAIN new)
      /\ Cardinality(DOMAIN new) \in 1..MaxSpaces
  <2>1. /\ DOMAIN spaces \subseteq Nat /\ IsFiniteSet(DOMAIN spaces)
        /\ Cardinality(DOMAIN spaces) \in 1..MaxSpaces
    BY DEF SpacesOK
  <2>2. /\ Cardinality(DOMAIN new) = Cardinality(DOMAIN spaces) - 1
        /\ IsFiniteSet(DOMAIN new)
    BY <1>1, <2>1, FS_RemoveElement
  <2> QED
    BY <1>1, <2>1, <2>2, SessionTreeAssumption
<1> QED
  BY <1>1, <1>3, <1>5, <1>6 DEF SpacesOK

(* Every tab is in a Space.                                                 *)
LEMMA SpaceOfIs ==
    ASSUME NEW s, NEW T, NEW serial, SpacesOK(s.spaces, T, serial), NEW t \in T
    PROVE  SpaceOf(s, t) \in DOMAIN s.spaces /\ t \in s.spaces[SpaceOf(s, t)]
<1>1. \E sp \in DOMAIN s.spaces : t \in s.spaces[sp]
  BY Gathered DEF SpacesOK
<1> QED
  BY <1>1 DEF SpaceOf

(* What a tab becomes when it gains, loses or keeps its panes.              *)
LEMMA PanesType ==
    ASSUME NEW tab, NEW serial, NEW next, TabOK(tab, serial, next)
    PROVE  /\ IsTab(tab) /\ Fields3(tab) /\ Holds(tab, DOMAIN tab.panes)
           /\ DOMAIN tab.panes \in SUBSET Nat /\ IsFiniteSet(DOMAIN tab.panes)
           /\ \A p \in DOMAIN tab.panes : tab.panes[p] \in PaneType
           /\ Cardinality(DOMAIN tab.panes) \in Nat
BY TabIs, FS_CardinalityType DEF TabOK

(* A new tab is one leaf.                                                   *)
LEMMA NewTabIs ==
    ASSUME NEW n \in Nat, NEW next \in Nat, NEW value \in PaneType,
           value.terminal < next, NEW tab, tab = NewTab(n, value, n + 1)
    PROVE  /\ TabOK(tab, n + 3, next) /\ DOMAIN tab.panes = {n}
           /\ tab.panes[n] = value /\ PaneTerms(tab) = {value.terminal} \ {0}
           /\ Within(tab, 0)
<1> DEFINE r == Node(n + 1)
<1>0. r \in NodeIds /\ r[2] = n + 1 /\ NoNode \in NodeIds
  BY NodeIs DEF NoNode
<1>1. /\ tab = [root |-> r, nodes |-> tab.nodes, panes |-> tab.panes]
      /\ DOMAIN tab.nodes = {r} /\ tab.nodes[r] = Leaf(n)
      /\ DOMAIN tab.panes = {n} /\ tab.panes[n] = value /\ tab.root = r
  BY DEF NewTab
<1>2. Leaf(n) \in NodeType /\ Leaf(n).leaf /\ Leaf(n).pane = n
  BY <1>0 DEF Leaf, NodeType
<1> HIDE DEF r
<1>3. Children(tab.nodes[r]) = {}
  BY <1>1, <1>2 DEF Children
<1>4. Leaves(tab) = {r}
  BY <1>1, <1>2 DEF Leaves
<1>5. IsTree(tab) /\ Within(tab, 0)
  <2> DEFINE level == [m \in {r} |-> 0]
  <2>1. /\ level \in [DOMAIN tab.nodes -> 0..MaxDepth]
        /\ level \in [DOMAIN tab.nodes -> 0..0]
    BY <1>1, SessionTreeAssumption
  <2> HIDE DEF level
  <2>2. \A m \in DOMAIN tab.nodes : Children(tab.nodes[m]) = {}
    BY <1>1, <1>3
  <2>3. IsFiniteSet(DOMAIN tab.nodes)
    BY <1>1, FS_Singleton
  <2>4. IsTree(tab)
    BY <1>0, <1>1, <1>2, <2>1, <2>2, <2>3 DEF IsTree
  <2>5. Within(tab, 0)
    BY <2>1, <2>2 DEF Within, Rises, Kids
  <2> QED
    BY <2>4, <2>5
<1>6. Holds(tab, {n})
  BY <1>1, <1>2, <1>4, <1>5 DEF Holds
<1>7. IsTab(tab)
  <2>1. Fields3(tab)
    BY <1>1 DEF Fields3
  <2>2. IsFiniteSet({n})
    BY FS_Singleton
  <2> QED
    BY <1>1, <1>6, <2>1, <2>2, TabIs
<1>8. Cardinality(DOMAIN tab.panes) \in 1..MaxPanes
  <2>1. Cardinality({n}) = 1
    BY FS_Singleton
  <2>2. 1 \in 1..MaxPanes
    BY SessionTreeAssumption
  <2> QED
    BY <1>1, <2>1, <2>2
<1>9. Marked(tab, n + 3, next)
  <2>1. n < n + 3 /\ n + 1 < n + 3
    OBVIOUS
  <2> QED
    BY <1>0, <1>1, <2>1 DEF Marked
<1>10. PaneTerms(tab) = {value.terminal} \ {0}
  BY <1>1 DEF PaneTerms
<1> QED
  BY <1>1, <1>5, <1>7, <1>8, <1>9, <1>10 DEF TabOK

(* Which panes a tab has says nothing about its nodes.                      *)
LEMMA SameNodes ==
    ASSUME NEW old, NEW new, new.nodes = old.nodes, new.root = old.root
    PROVE  /\ \A P : Holds(old, P) => Holds(new, P)
           /\ \A N : Within(old, N) => Within(new, N)
<1>1. Leaves(new) = Leaves(old)
  BY DEF Leaves
<1>2. IsTree(old) => IsTree(new)
  BY DEF IsTree
<1>3. \A N : Within(old, N) => Within(new, N)
  BY DEF Within, Rises, Kids
<1> QED
  BY <1>1, <1>2, <1>3 DEF Holds

(* A split of a tab with room gives a tab, with the new pane added.         *)
LEMMA SplitTabIs ==
    ASSUME NEW tab, NEW serial \in Nat, NEW next \in Nat,
           TabOK(tab, serial, next), NEW pane \in DOMAIN tab.panes,
           Cardinality(DOMAIN tab.panes) < MaxPanes, CanSplit(tab, pane),
           NEW node \in Nat, serial <= node,
           NEW other \in Nat \ DOMAIN tab.panes, other < node + 2,
           NEW value \in PaneType, value.terminal < next,
           NEW new, new = WithPane(Split(tab, pane, other, node), other, value)
    PROVE  /\ TabOK(new, node + 2, next)
           /\ new.panes = With(tab.panes, other, value)
           /\ \A N \in Nat : Within(tab, N) => Within(new, N + 1)
<1> DEFINE D == DOMAIN tab.panes
           divided == Split(tab, pane, other, node)
<1>1. /\ Fields3(tab) /\ Holds(tab, D) /\ D \in SUBSET Nat /\ IsFiniteSet(D)
      /\ \A p \in D : tab.panes[p] \in PaneType
      /\ Cardinality(D) \in Nat
  BY PanesType
<1>2. /\ TabOK(tab, node, next) /\ node <= node + 2
  BY TabMore
<1>3. \A n \in DOMAIN tab.nodes : n[2] < node
  BY <1>2 DEF TabOK, Marked
<1>4. /\ Holds(divided, D \cup {other})
      /\ DOMAIN divided.nodes =
            DOMAIN tab.nodes \cup {Node(node), Node(node + 1)}
      /\ divided.panes = tab.panes /\ Fields3(divided)
      /\ \A N \in Nat : Within(tab, N) => Within(divided, N + 1)
  <2>1. Divided(divided, tab, D, other, node)
    BY <1>1, <1>3, SplitHolds DEF NodesUnder
  <2> QED
    BY <2>1 DEF Divided
<1> HIDE DEF divided
<1>5. /\ new.panes = With(tab.panes, other, value)
      /\ new.nodes = divided.nodes /\ new.root = divided.root /\ Fields3(new)
  BY <1>4 DEF WithPane, Fields3, divided
<1>6. /\ DOMAIN new.panes = D \cup {other}
      /\ \A p \in D \cup {other} :
            new.panes[p] = IF p = other THEN value ELSE tab.panes[p]
  BY <1>5 DEF With
<1>7. /\ Holds(new, D \cup {other})
      /\ \A N \in Nat : Within(divided, N) => Within(new, N)
  BY <1>4, <1>5, SameNodes
<1>8. /\ IsFiniteSet(D \cup {other})
      /\ Cardinality(D \cup {other}) = Cardinality(D) + 1
  BY <1>1, FS_AddElement
<1>9. IsTab(new)
  BY <1>1, <1>5, <1>6, <1>7, <1>8, TabIs
<1>10. Cardinality(DOMAIN new.panes) \in 1..MaxPanes
  BY <1>1, <1>6, <1>8, SessionTreeAssumption
<1>11. Marked(new, node + 2, next)
  <2>1. \A p \in D : p < node + 2 /\ tab.panes[p].terminal < next
    BY <1>2, TabMore DEF TabOK, Marked
  <2>2. \A n \in DOMAIN tab.nodes : n[2] < node + 2
    BY <1>2, TabMore DEF TabOK, Marked
  <2>3. /\ Node(node)[2] < node + 2 /\ Node(node + 1)[2] < node + 2
    BY NodeIs
  <2> QED
    BY <1>4, <1>5, <1>6, <2>1, <2>2, <2>3 DEF Marked
<1>12. \A N \in Nat : Within(tab, N) => Within(new, N + 1)
  BY <1>4, <1>7
<1> QED
  BY <1>5, <1>9, <1>10, <1>11, <1>12 DEF TabOK

Lessened(new, tab, pane, serial, next) ==
    /\ TabOK(new, serial, next)
    /\ new.panes = Restrict(tab.panes, DOMAIN tab.panes \ {pane})

(* Removing one pane of several leaves a tab with the others.               *)
LEMMA PaneOutIs ==
    ASSUME NEW tab, NEW serial \in Nat, NEW next \in Nat,
           TabOK(tab, serial, next), NEW pane \in DOMAIN tab.panes,
           Cardinality(DOMAIN tab.panes) > 1,
           NEW new, new = WithoutPane(Detach(tab, pane), pane)
    PROVE  Lessened(new, tab, pane, serial, next)
<1> DEFINE D == DOMAIN tab.panes
           rest == Detach(tab, pane)
<1>1. /\ Fields3(tab) /\ Holds(tab, D) /\ D \in SUBSET Nat /\ IsFiniteSet(D)
      /\ \A p \in D : tab.panes[p] \in PaneType
      /\ Cardinality(D) \in Nat
  BY PanesType
<1>2. PICK q \in D : q # pane
  <2>1. D # {pane}
    BY FS_Singleton
  <2> QED
    BY <2>1
<1>3. /\ Holds(rest, D \ {pane}) /\ DOMAIN rest.nodes \subseteq DOMAIN tab.nodes
      /\ rest.panes = tab.panes /\ Fields3(rest)
  <2>1. Fields3(tab) /\ Holds(tab, D) /\ q \in D /\ pane # q
    BY <1>1, <1>2
  <2> QED
    BY <2>1, DetachHolds DEF Fields3
<1> HIDE DEF rest
<1>4. /\ new.panes = Restrict(tab.panes, D \ {pane})
      /\ new.nodes = rest.nodes /\ new.root = rest.root /\ Fields3(new)
  BY <1>3 DEF WithoutPane, Fields3, rest
<1>5. /\ DOMAIN new.panes = D \ {pane}
      /\ \A p \in D \ {pane} : new.panes[p] = tab.panes[p]
  BY <1>4, RestrictIs
<1>6. Holds(new, D \ {pane})
  BY <1>3, <1>4, SameNodes
<1>7. /\ IsFiniteSet(D \ {pane})
      /\ Cardinality(D \ {pane}) = Cardinality(D) - 1
  BY <1>1, FS_RemoveElement
<1>8. IsTab(new)
  BY <1>1, <1>4, <1>5, <1>6, <1>7, TabIs
<1>9. Cardinality(DOMAIN new.panes) \in 1..MaxPanes
  BY <1>1, <1>5, <1>7, SessionTreeAssumption DEF TabOK
<1>10. Marked(new, serial, next)
  BY <1>3, <1>4, <1>5 DEF TabOK, Marked
<1> QED
  BY <1>4, <1>8, <1>9, <1>10 DEF TabOK, Lessened

(* The panes a tab has stay as they are; its tree may have new nodes.       *)
LEMMA SamePanes ==
    ASSUME NEW tab, NEW serial \in Nat, NEW next \in Nat,
           TabOK(tab, serial, next), NEW new, Fields3(new),
           new.panes = tab.panes, Holds(new, DOMAIN tab.panes),
           NEW serial2 \in Nat, serial <= serial2,
           \A n \in DOMAIN new.nodes : n[2] < serial2
    PROVE  TabOK(new, serial2, next)
<1>1. /\ TabOK(tab, serial2, next)
  BY TabMore
<1>2. /\ DOMAIN tab.panes \in SUBSET Nat /\ IsFiniteSet(DOMAIN tab.panes)
      /\ \A p \in DOMAIN tab.panes : tab.panes[p] \in PaneType
  BY PanesType
<1>3. IsTab(new)
  BY <1>2, TabIs
<1>4. Marked(new, serial2, next) /\ Cardinality(DOMAIN new.panes) \in 1..MaxPanes
  BY <1>1 DEF TabOK, Marked
<1> QED
  BY <1>3, <1>4 DEF TabOK

Moved(new, tab, serial, next) ==
    TabOK(new, serial + 2, next) /\ new.panes = tab.panes

(* Moving a pane beside another within a tab keeps the panes.               *)
LEMMA MovedIs ==
    ASSUME NEW tab, NEW serial \in Nat, NEW next \in Nat,
           TabOK(tab, serial, next), NEW pane \in DOMAIN tab.panes,
           NEW target \in DOMAIN tab.panes, pane # target,
           CanSplit(Detach(tab, pane), target),
           NEW new, new = Split(Detach(tab, pane), target, pane, serial)
    PROVE  Moved(new, tab, serial, next)
<1> DEFINE D == DOMAIN tab.panes
           rest == Detach(tab, pane)
<1>1. Fields3(tab) /\ Holds(tab, D) /\ D \in SUBSET Nat
  BY PanesType
<1>2. /\ Holds(rest, D \ {pane}) /\ DOMAIN rest.nodes \subseteq DOMAIN tab.nodes
      /\ rest.panes = tab.panes /\ Fields3(rest)
  BY <1>1, DetachHolds DEF Fields3
<1> HIDE DEF rest
<1>3. \A n \in DOMAIN rest.nodes : n \in NodeIds /\ n[2] < serial
  BY <1>1, <1>2 DEF TabOK, Marked, Holds, IsTree
<1>4. /\ pane \in Nat \ (D \ {pane}) /\ target \in D \ {pane}
      /\ D \ {pane} \in SUBSET Nat
  BY <1>1
<1>5. /\ Holds(new, (D \ {pane}) \cup {pane})
      /\ DOMAIN new.nodes =
            DOMAIN rest.nodes \cup {Node(serial), Node(serial + 1)}
      /\ new.panes = rest.panes /\ Fields3(new)
  <2>1. CanSplit(rest, target) /\ new = Split(rest, target, pane, serial)
    BY DEF rest
  <2>2. NodesUnder(rest, serial)
    BY <1>3 DEF NodesUnder
  <2>3. Holds(rest, D \ {pane}) /\ Fields3(rest)
    BY <1>2
  <2>4. /\ pane \in Nat \ (D \ {pane}) /\ target \in D \ {pane}
        /\ D \ {pane} \in SUBSET Nat
    BY <1>4
  <2>5. Divided(new, rest, D \ {pane}, pane, serial)
    BY <2>1, <2>2, <2>3, <2>4, SplitHolds
  <2> QED
    BY <2>5 DEF Divided
<1>6. (D \ {pane}) \cup {pane} = D
  OBVIOUS
<1>7. \A n \in DOMAIN new.nodes : n[2] < serial + 2
  <2>1. \A n \in DOMAIN rest.nodes : n[2] < serial + 2
    <3>1. \A n \in DOMAIN rest.nodes : n[2] \in Nat
      BY <1>3, NodeIdIs
    <3>2. \A a \in Nat : a < serial => a < serial + 2
      OBVIOUS
    <3> QED
      BY <1>3, <3>1, <3>2
  <2>2. /\ Node(serial)[2] < serial + 2 /\ Node(serial + 1)[2] < serial + 2
    BY NodeIs
  <2> QED
    BY <1>5, <2>1, <2>2
<1>8. TabOK(new, serial + 2, next)
  <2>1. Holds(new, DOMAIN tab.panes) /\ new.panes = tab.panes /\ Fields3(new)
    BY <1>2, <1>5, <1>6
  <2>2. serial + 2 \in Nat /\ serial <= serial + 2
    OBVIOUS
  <2> QED
    BY <1>7, <2>1, <2>2, SamePanes
<1> QED
  BY <1>2, <1>5, <1>8 DEF Moved

(* Swapping two panes keeps the panes.                                      *)
LEMMA SwappedIs ==
    ASSUME NEW tab, NEW serial \in Nat, NEW next \in Nat,
           TabOK(tab, serial, next), NEW pane \in DOMAIN tab.panes,
           NEW target \in DOMAIN tab.panes, pane # target,
           NEW new, new = Swap(tab, pane, target)
    PROVE  TabOK(new, serial, next) /\ new.panes = tab.panes
<1> DEFINE D == DOMAIN tab.panes
<1>1. Fields3(tab) /\ Holds(tab, D) /\ D \in SUBSET Nat
  BY PanesType
<1>2. /\ Holds(new, D) /\ DOMAIN new.nodes = DOMAIN tab.nodes
      /\ new.panes = tab.panes /\ Fields3(new)
  BY <1>1, SwapHolds
<1>3. \A n \in DOMAIN new.nodes : n[2] < serial
  BY <1>2 DEF TabOK, Marked
<1>4. TabOK(new, serial, next)
  BY <1>2, <1>3, SamePanes
<1> QED
  BY <1>2, <1>4

Rewired(tab, pane, t) == [tab EXCEPT !.panes[pane].terminal = t]

Repaned(new, tab, pane, t, serial, next) ==
    /\ TabOK(new, serial, next) /\ DOMAIN new.panes = DOMAIN tab.panes
    /\ \A p \in DOMAIN tab.panes : p # pane => new.panes[p] = tab.panes[p]
    /\ new.panes[pane].terminal = t

(* Another terminal for a pane changes nothing else of the tab.             *)
LEMMA ReplacedIs ==
    ASSUME NEW tab, NEW serial \in Nat, NEW next \in Nat,
           TabOK(tab, serial, next), NEW pane \in DOMAIN tab.panes,
           NEW t \in Nat, t < next,
           NEW new, new = Rewired(tab, pane, t)
    PROVE  Repaned(new, tab, pane, t, serial, next)
<1> DEFINE D == DOMAIN tab.panes
<1>1. /\ Fields3(tab) /\ Holds(tab, D) /\ D \in SUBSET Nat /\ IsFiniteSet(D)
      /\ \A p \in D : tab.panes[p] \in PaneType
  BY PanesType
<1>2. /\ new.panes = [tab.panes EXCEPT ![pane] = [@ EXCEPT !.terminal = t]]
      /\ new.nodes = tab.nodes /\ new.root = tab.root /\ Fields3(new)
  BY <1>1 DEF Fields3, Rewired
<1>3. /\ DOMAIN new.panes = D
      /\ \A p \in D : p # pane => new.panes[p] = tab.panes[p]
      /\ new.panes[pane] = [tab.panes[pane] EXCEPT !.terminal = t]
  BY <1>2
<1>4. new.panes[pane] \in PaneType /\ new.panes[pane].terminal = t
  BY <1>1, <1>3 DEF PaneType
<1>5. Holds(new, D)
  BY <1>1, <1>2, SameNodes
<1>6. IsTab(new)
  BY <1>1, <1>2, <1>3, <1>4, <1>5, TabIs
<1>7. Cardinality(DOMAIN new.panes) \in 1..MaxPanes
  BY <1>3 DEF TabOK
<1>8. Marked(new, serial, next)
  BY <1>2, <1>3, <1>4 DEF TabOK, Marked
<1> QED
  BY <1>3, <1>4, <1>6, <1>7, <1>8 DEF TabOK, Repaned

(* The panes and terminals of one tab are not those of the others.          *)
LEMMA OwnForeign ==
    ASSUME NEW tabs, NEW serial, NEW next, TabsOK(tabs, serial, next),
           NEW t \in DOMAIN tabs
    PROVE  Own(tabs[t]) /\ Foreign(tabs[t], Others(tabs, t))
<1>1. Apart(tabs)
  BY DEF TabsOK
<1>2. Own(tabs[t])
  BY <1>1 DEF Own, Apart
<1>3. /\ DOMAIN Others(tabs, t) = DOMAIN tabs \ {t}
      /\ \A u \in DOMAIN tabs \ {t} : Others(tabs, t)[u] = tabs[u]
  BY DEF Others, Restrict
<1>4. Foreign(tabs[t], Others(tabs, t))
  BY <1>1, <1>3 DEF Foreign, Apart
<1> QED
  BY <1>2, <1>4

(* The terminal of a pane is one of the terminals of the tabs.              *)
LEMMA TermIn ==
    ASSUME NEW tabs, NEW u \in DOMAIN tabs, NEW p \in DOMAIN tabs[u].panes,
           tabs[u].panes[p].terminal # 0
    PROVE  tabs[u].panes[p].terminal \in TerminalsOf(tabs)
<1>1. tabs[u].panes[p].terminal \in PaneTerms(tabs[u])
  BY DEF PaneTerms
<1> QED
  BY <1>1, TerminalsAre

(* No terminal has a number that is still to be given out.                  *)
LEMMA TermsFew ==
    ASSUME NEW tabs, NEW serial \in Nat, NEW next \in Nat,
           TabsOK(tabs, serial, next)
    PROVE  /\ TerminalsOf(tabs) \subseteq Nat \ {0}
           /\ \A x \in TerminalsOf(tabs) : x < next
<1>1. TerminalsOf(tabs) = UNION {PaneTerms(tabs[t]) : t \in DOMAIN tabs}
  BY TerminalsAre
<1>2. ASSUME NEW x \in TerminalsOf(tabs)
      PROVE  x \in Nat \ {0} /\ x < next
  <2>1. PICK t \in DOMAIN tabs : x \in PaneTerms(tabs[t])
    BY <1>1
  <2>2. PICK p \in DOMAIN tabs[t].panes : x = tabs[t].panes[p].terminal /\ x # 0
    BY <2>1 DEF PaneTerms
  <2>3. TabOK(tabs[t], serial, next)
    BY DEF TabsOK
  <2>4. tabs[t].panes[p] \in PaneType
    BY <2>3, PanesType
  <2> QED
    BY <2>2, <2>3, <2>4 DEF TabOK, Marked, PaneType
<1> QED
  BY <1>2

(* A tab that keeps some of its panes.                                      *)
Sub(new, old) ==
    /\ DOMAIN new.panes \subseteq DOMAIN old.panes
    /\ \A p \in DOMAIN new.panes : new.panes[p] = old.panes[p]

(* A tab may be replaced by one with some of its panes ...                  *)
LEMMA TabShrinks ==
    ASSUME NEW tabs, NEW serial \in Nat, NEW next \in Nat,
           TabsOK(tabs, serial, next), NEW t \in DOMAIN tabs,
           NEW tab, TabOK(tab, serial, next), Sub(tab, tabs[t]),
           NEW new, new = [tabs EXCEPT ![t] = tab]
    PROVE  TabsOK(new, serial, next) /\ Replaced(new, tabs, t, tab)
<1>1. Own(tabs[t]) /\ Foreign(tabs[t], Others(tabs, t))
  BY OwnForeign
<1>2. Own(tab)
  BY <1>1 DEF Own, Sub
<1>3. Foreign(tab, Others(tabs, t))
  BY <1>1 DEF Foreign, Sub
<1> QED
  BY <1>2, <1>3, TabsReplace

(* A tab that gains a pane that is nowhere yet.                             *)
Nowhere(pane, tabs) == \A u \in DOMAIN tabs : pane \notin DOMAIN tabs[u].panes

Grows(new, tabs, t, tab, value) ==
    /\ DOMAIN new = DOMAIN tabs
    /\ TerminalsOf(new) = TerminalsOf(tabs) \cup ({value.terminal} \ {0})
    /\ new[t] = tab /\ \A u \in DOMAIN tabs : u # t => new[u] = tabs[u]

(* ... or by one with a pane more that is nowhere else.                     *)
LEMMA TabGrows ==
    ASSUME NEW tabs, NEW serial \in Nat, NEW next \in Nat,
           TabsOK(tabs, serial, next), NEW t \in DOMAIN tabs,
           NEW tab, TabOK(tab, serial, next), NEW other, Nowhere(other, tabs),
           NEW value, value.terminal \notin TerminalsOf(tabs),
           tab.panes = With(tabs[t].panes, other, value),
           NEW new, new = [tabs EXCEPT ![t] = tab]
    PROVE  TabsOK(new, serial, next) /\ Grows(new, tabs, t, tab, value)
<1> DEFINE old == tabs[t]
           others == Others(tabs, t)
<1>1. Own(old) /\ Foreign(old, others)
  BY OwnForeign
<1>2. /\ DOMAIN tab.panes = DOMAIN old.panes \cup {other}
      /\ other \notin DOMAIN old.panes /\ tab.panes[other] = value
      /\ \A p \in DOMAIN old.panes : tab.panes[p] = old.panes[p]
  BY DEF With, Nowhere
<1>3. /\ DOMAIN others = DOMAIN tabs \ {t}
      /\ \A u \in DOMAIN tabs \ {t} : others[u] = tabs[u]
  BY DEF Others, Restrict
<1>4. \A p \in DOMAIN old.panes :
         old.panes[p].terminal # value.terminal \/ value.terminal = 0
  BY TermIn
<1>5. \A u \in DOMAIN others : \A p \in DOMAIN others[u].panes :
         /\ p # other
         /\ others[u].panes[p].terminal # value.terminal \/ value.terminal = 0
  BY <1>3, TermIn DEF Nowhere
<1> HIDE DEF old, others
<1>6. Own(tab)
  BY <1>1, <1>2, <1>4 DEF Own
<1>7. Foreign(tab, others)
  BY <1>1, <1>2, <1>5 DEF Foreign
<1>8. TabsOK(new, serial, next) /\ Replaced(new, tabs, t, tab)
  BY <1>6, <1>7, TabsReplace DEF others
<1>9. PaneTerms(tab) = PaneTerms(old) \cup ({value.terminal} \ {0})
  <2>1. {tab.panes[p].terminal : p \in DOMAIN tab.panes} =
           {old.panes[p].terminal : p \in DOMAIN old.panes}
           \cup {value.terminal}
    BY <1>2
  <2> QED
    BY <2>1 DEF PaneTerms
<1>10. PaneTerms(old) \subseteq TerminalsOf(tabs)
  BY TerminalsAre DEF old
<1>11. TerminalsOf(new) = TerminalsOf(tabs) \cup ({value.terminal} \ {0})
  BY <1>8, <1>9, <1>10 DEF Replaced, old
<1> QED
  BY <1>8, <1>11 DEF Replaced, Grows

(* The terminals a tab that loses a pane leaves behind.                     *)
LEMMA TermsLess ==
    ASSUME NEW tabs, NEW serial \in Nat, NEW next \in Nat,
           TabsOK(tabs, serial, next), NEW t \in DOMAIN tabs,
           NEW pane \in DOMAIN tabs[t].panes, NEW tab,
           tab.panes = Restrict(tabs[t].panes, DOMAIN tabs[t].panes \ {pane}),
           NEW new, Replaced(new, tabs, t, tab)
    PROVE  /\ TerminalsOf(new) =
                 TerminalsOf(tabs) \ {tabs[t].panes[pane].terminal}
           /\ Nowhere(pane, new)
<1> DEFINE old == tabs[t]
           x == old.panes[pane].terminal
<1>1. Own(old) /\ Foreign(old, Others(tabs, t))
  BY OwnForeign
<1>2. /\ DOMAIN tab.panes = DOMAIN old.panes \ {pane}
      /\ \A p \in DOMAIN tab.panes : tab.panes[p] = old.panes[p]
  BY RestrictIs
<1>3. PaneTerms(tab) = PaneTerms(old) \ {x}
  <2>1. \A p \in DOMAIN old.panes : p # pane =>
           old.panes[p].terminal # x \/ x = 0
    BY <1>1 DEF Own
  <2> HIDE DEF x, old
  <2>2. ASSUME NEW y PROVE y \in PaneTerms(tab) <=> y \in PaneTerms(old) \ {x}
    <3>1. ASSUME y \in PaneTerms(tab) PROVE y \in PaneTerms(old) \ {x}
      BY <1>2, <2>1, <3>1 DEF PaneTerms
    <3>2. ASSUME y \in PaneTerms(old) \ {x} PROVE y \in PaneTerms(tab)
      <4>1. PICK p \in DOMAIN old.panes : y = old.panes[p].terminal /\ y # 0
        BY <3>2 DEF PaneTerms
      <4>2. p # pane
        BY <3>2, <4>1 DEF x
      <4> QED
        BY <1>2, <4>1, <4>2 DEF PaneTerms
    <3> QED
      BY <3>1, <3>2
  <2> QED
    BY <2>2
<1>4. PaneTerms(old) \subseteq TerminalsOf(tabs) /\ 0 \notin TerminalsOf(tabs)
  BY TerminalsAre DEF PaneTerms
<1>5. x = 0 \/ x \in PaneTerms(old)
  BY DEF PaneTerms
<1>6. TerminalsOf(new) = (TerminalsOf(tabs) \ PaneTerms(old)) \cup PaneTerms(tab)
  BY DEF Replaced
<1>7. TerminalsOf(new) = TerminalsOf(tabs) \ {x}
  <2> HIDE DEF old, x
  <2> QED
    BY <1>3, <1>4, <1>5, <1>6
<1>8. Nowhere(pane, new)
  <2>1. \A u \in DOMAIN tabs : u # t => pane \notin DOMAIN tabs[u].panes
    BY DEF TabsOK, Apart
  <2> QED
    BY <1>2, <2>1 DEF Nowhere, Replaced
<1> QED
  BY <1>7, <1>8

-----------------------------------------------------------------------------
(* Sessions.                                                                *)
Laid(s) ==
    /\ Fields(s) /\ s.rev \in Nat \ {0} /\ s.serial \in Nat
    /\ s.nextTerminal \in Nat \ {0}
    /\ SpacesOK(s.spaces, DOMAIN s.tabs, s.serial)
    /\ TabsOK(s.tabs, s.serial, s.nextTerminal)

(* A pane with a terminal that no pane has yet.                             *)
Fresh(s, value) ==
    /\ value \in PaneType /\ value.terminal < s.nextTerminal
    /\ value.terminal \notin TerminalsOf(s.tabs)

(* What changes the tabs and leaves the terminals to others.                *)
Same(new, s) ==
    /\ new.terminals = s.terminals /\ new.nextTerminal = s.nextTerminal
    /\ new.rev = s.rev /\ s.serial <= new.serial

Gains(new, s, value) ==
    /\ TerminalsOf(new.tabs) = TerminalsOf(s.tabs) \cup ({value.terminal} \ {0})
    /\ Same(new, s)

(* Tabs and Spaces are finitely many, with numbers given out.               *)
LEMMA TabsFinite ==
    ASSUME NEW s, Laid(s)
    PROVE  /\ IsFiniteSet(DOMAIN s.tabs) /\ DOMAIN s.tabs \subseteq Nat
           /\ IsFiniteSet(DOMAIN s.spaces) /\ DOMAIN s.spaces \subseteq Nat
           /\ \A t \in DOMAIN s.tabs : t < s.serial
           /\ \A sp \in DOMAIN s.spaces : sp < s.serial
BY DEF Laid, TabsOK, SpacesOK

(* A new tab joins the others.                                              *)
LEMMA NewTabJoins ==
    ASSUME NEW tabs, NEW serial \in Nat, NEW next \in Nat,
           TabsOK(tabs, serial, next), NEW n \in Nat, serial <= n,
           NEW value \in PaneType, value.terminal < next,
           value.terminal \notin TerminalsOf(tabs),
           NEW tab, tab = NewTab(n, value, n + 1),
           NEW new, new = With(tabs, n + 2, tab)
    PROVE  /\ TabsOK(new, n + 3, next) /\ Joined(new, tabs, n + 2, tab)
           /\ PaneTerms(tab) = {value.terminal} \ {0}
<1>1. /\ TabOK(tab, n + 3, next) /\ DOMAIN tab.panes = {n}
      /\ tab.panes[n] = value /\ PaneTerms(tab) = {value.terminal} \ {0}
  BY NewTabIs
<1>2. TabsOK(tabs, n, next) /\ TabsOK(tabs, n + 3, next)
  BY TabsMore
<1>3. n + 2 \in Nat \ DOMAIN tabs /\ n + 2 < n + 3 /\ n + 3 \in Nat
  <2>1. \A t \in DOMAIN tabs : t \in Nat /\ t < n
    BY <1>2 DEF TabsOK
  <2>2. ~(n + 2 < n) /\ n + 2 \in Nat /\ n + 2 < n + 3 /\ n + 3 \in Nat
    OBVIOUS
  <2> QED
    BY <2>1, <2>2
<1>4. Own(tab)
  BY <1>1 DEF Own
<1>5. Foreign(tab, tabs)
  <2>1. ASSUME NEW u \in DOMAIN tabs, NEW q \in DOMAIN tabs[u].panes
        PROVE  /\ n # q
               /\ value.terminal # tabs[u].panes[q].terminal
                  \/ value.terminal = 0
    <3>1. TabOK(tabs[u], n, next)
      BY <1>2 DEF TabsOK
    <3>2. q < n /\ ~(n < n)
      BY <3>1 DEF TabOK, Marked
    <3> QED
      BY <3>2, TermIn
  <2> QED
    BY <1>1, <2>1 DEF Foreign
<1>6. TabsOK(new, n + 3, next) /\ Joined(new, tabs, n + 2, tab)
  BY <1>1, <1>2, <1>3, <1>4, <1>5, TabsWith
<1> QED
  BY <1>1, <1>6

TabAdded(new, s, sp, value) ==
    /\ Laid(new) /\ Gains(new, s, value)
    /\ new.spaces = [s.spaces EXCEPT ![sp] = @ \cup {s.serial + 2}]
    /\ Joined(new.tabs, s.tabs, s.serial + 2,
              NewTab(s.serial, value, s.serial + 1))
    /\ new.serial = s.serial + 3

SpaceAdded(new, s, value) ==
    /\ Laid(new) /\ Gains(new, s, value)
    /\ new.spaces = With(s.spaces, s.serial, {s.serial + 3})
    /\ Joined(new.tabs, s.tabs, s.serial + 3,
              NewTab(s.serial + 1, value, s.serial + 2))
    /\ new.serial = s.serial + 4

(* A new tab in a Space that is not full.                                   *)
LEMMA AddTabLaid ==
    ASSUME NEW s, Laid(s), NEW sp \in DOMAIN s.spaces,
           Cardinality(s.spaces[sp]) < MaxTabs, NEW value, Fresh(s, value),
           NEW new, new = AddTab(s, sp, value)
    PROVE  TabAdded(new, s, sp, value)
<1> DEFINE n == s.serial
           tab == NewTab(n, value, n + 1)
<1>1. /\ n \in Nat /\ s.nextTerminal \in Nat /\ s.rev \in Nat \ {0}
      /\ SpacesOK(s.spaces, DOMAIN s.tabs, n) /\ Fields(s)
      /\ TabsOK(s.tabs, n, s.nextTerminal) /\ s.nextTerminal # 0
  BY DEF Laid
<1>2. /\ new.spaces = [s.spaces EXCEPT ![sp] = @ \cup {n + 2}]
      /\ new.tabs = With(s.tabs, n + 2, tab) /\ new.serial = n + 3
      /\ new.terminals = s.terminals /\ new.nextTerminal = s.nextTerminal
      /\ new.rev = s.rev /\ Fields(new)
  BY <1>1 DEF AddTab, Fields
<1> HIDE DEF tab
<1>3. /\ TabsOK(new.tabs, n + 3, s.nextTerminal)
      /\ Joined(new.tabs, s.tabs, n + 2, tab)
      /\ PaneTerms(tab) = {value.terminal} \ {0}
  BY <1>1, <1>2, NewTabJoins DEF Fresh, tab
<1>4. /\ n + 2 \notin DOMAIN s.tabs /\ n <= n + 3 /\ n + 3 \in Nat
  <2>1. \A t \in DOMAIN s.tabs : t < n
    BY <1>1 DEF TabsOK
  <2>2. ~(n + 2 < n) /\ n <= n + 3 /\ n + 3 \in Nat
    BY <1>1
  <2> QED
    BY <2>1, <2>2
<1>5. SpacesOK(new.spaces, DOMAIN new.tabs, n + 3)
  <2>1. SpacesOK(new.spaces, DOMAIN s.tabs \cup {n + 2}, n)
    BY <1>1, <1>2, <1>4, SpaceTakes, TabsFinite
  <2>2. SpacesOK(new.spaces, DOMAIN s.tabs \cup {n + 2}, n + 3)
    BY <1>1, <1>4, <2>1, SpacesMore
  <2> QED
    BY <1>3, <2>2 DEF Joined
<1>6. Laid(new)
  BY <1>1, <1>2, <1>3, <1>4, <1>5 DEF Laid
<1>7. Gains(new, s, value)
  BY <1>2, <1>3, <1>4 DEF Gains, Same, Joined
<1> QED
  BY <1>2, <1>3, <1>6, <1>7 DEF tab, TabAdded

(* A new Space with its first tab.                                          *)
LEMMA AddSpaceLaid ==
    ASSUME NEW s, Laid(s), Cardinality(DOMAIN s.spaces) < MaxSpaces,
           NEW value, Fresh(s, value), NEW new, new = AddSpace(s, value)
    PROVE  SpaceAdded(new, s, value)
<1> DEFINE k == s.serial
           n == k + 1
           tab == NewTab(n, value, n + 1)
<1>1. /\ k \in Nat /\ s.nextTerminal \in Nat /\ s.rev \in Nat \ {0}
      /\ SpacesOK(s.spaces, DOMAIN s.tabs, k) /\ Fields(s)
      /\ TabsOK(s.tabs, k, s.nextTerminal) /\ s.nextTerminal # 0
  BY DEF Laid
<1>2. /\ new.spaces = [With(s.spaces, k, {}) EXCEPT ![k] = @ \cup {n + 2}]
      /\ new.tabs = With(s.tabs, n + 2, tab) /\ new.serial = n + 3
      /\ new.terminals = s.terminals /\ new.nextTerminal = s.nextTerminal
      /\ new.rev = s.rev /\ Fields(new)
  BY <1>1 DEF AddSpace, AddTab, Fields
<1>3. new.spaces = With(s.spaces, k, {n + 2})
  BY <1>2 DEF With
<1> HIDE DEF tab
<1>4. /\ TabsOK(new.tabs, n + 3, s.nextTerminal)
      /\ Joined(new.tabs, s.tabs, n + 2, tab)
      /\ PaneTerms(tab) = {value.terminal} \ {0}
  <2>1. n \in Nat /\ k <= n
    BY <1>1
  <2> HIDE DEF n
  <2> QED
    BY <1>1, <1>2, <2>1, NewTabJoins DEF Fresh, tab
<1>5. /\ n + 2 \notin DOMAIN s.tabs /\ k <= n + 3 /\ n + 3 \in Nat
      /\ k \notin DOMAIN s.spaces /\ k < n + 3
  <2>1. /\ \A t \in DOMAIN s.tabs : t < k
        /\ \A sp \in DOMAIN s.spaces : sp < k
    BY <1>1 DEF TabsOK, SpacesOK
  <2>2. ~(n + 2 < k) /\ k <= n + 3 /\ n + 3 \in Nat /\ ~(k < k) /\ k < n + 3
    BY <1>1
  <2> QED
    BY <2>1, <2>2
<1>6. SpacesOK(new.spaces, DOMAIN new.tabs, n + 3)
  <2>1. SpacesOK(s.spaces, DOMAIN s.tabs, n + 3)
    BY <1>1, <1>5, SpacesMore
  <2>2. IsFiniteSet(DOMAIN s.tabs)
    BY TabsFinite
  <2>3. SpacesOK(new.spaces, DOMAIN s.tabs \cup {n + 2}, n + 3)
    BY <1>1, <1>3, <1>5, <2>1, <2>2, SpaceNew
  <2> QED
    BY <1>4, <2>3 DEF Joined
<1>7. Laid(new)
  BY <1>1, <1>2, <1>4, <1>5, <1>6 DEF Laid
<1>8. Gains(new, s, value)
  BY <1>2, <1>4, <1>5 DEF Gains, Same, Joined
<1>9. n + 2 = k + 3 /\ n + 3 = k + 4 /\ n + 1 = k + 2
  BY <1>1
<1> QED
  BY <1>2, <1>3, <1>4, <1>7, <1>8, <1>9 DEF tab, SpaceAdded

(* A pane that is nowhere yet comes into a tab.                             *)
PaneInto(s, t, pane, other, node, value) ==
    [s EXCEPT !.serial = node + 2,
              !.tabs[t] = WithPane(Split(@, pane, other, node), other, value)]

PaneIn(new, s, t, other, serial, value) ==
    /\ Laid(new) /\ Gains(new, s, value) /\ new.spaces = s.spaces
    /\ Grows(new.tabs, s.tabs, t, new.tabs[t], value)
    /\ new.tabs[t].panes = With(s.tabs[t].panes, other, value)
    /\ \A N \in Nat : Within(s.tabs[t], N) => Within(new.tabs[t], N + 1)
    /\ new.serial = serial

(* A pane comes into a tab that is not full, by a split.                    *)
LEMMA PaneInLaid ==
    ASSUME NEW s, Laid(s), NEW t \in DOMAIN s.tabs,
           NEW pane \in DOMAIN s.tabs[t].panes,
           Cardinality(DOMAIN s.tabs[t].panes) < MaxPanes,
           CanSplit(s.tabs[t], pane), NEW value, Fresh(s, value),
           NEW node \in Nat, s.serial <= node,
           NEW other \in Nat, Nowhere(other, s.tabs), other < node + 2,
           NEW new, new = PaneInto(s, t, pane, other, node, value)
    PROVE  PaneIn(new, s, t, other, node + 2, value)
<1> DEFINE k == s.serial
           next == s.nextTerminal
           tab == WithPane(Split(s.tabs[t], pane, other, node), other, value)
<1>1. /\ k \in Nat /\ next \in Nat /\ s.rev \in Nat \ {0}
      /\ SpacesOK(s.spaces, DOMAIN s.tabs, k) /\ Fields(s)
      /\ TabsOK(s.tabs, k, next) /\ next # 0
  BY DEF Laid
<1>2. /\ new.tabs = [s.tabs EXCEPT ![t] = tab]
      /\ new.serial = node + 2 /\ new.spaces = s.spaces
      /\ new.terminals = s.terminals /\ new.nextTerminal = next
      /\ new.rev = s.rev /\ Fields(new)
  BY <1>1 DEF Fields, PaneInto
<1>3. node + 2 \in Nat /\ k <= node + 2
  BY <1>1
<1>5. TabOK(s.tabs[t], k, next)
  BY <1>1 DEF TabsOK
<1>6. /\ TabOK(tab, node + 2, next)
      /\ tab.panes = With(s.tabs[t].panes, other, value)
      /\ \A N \in Nat : Within(s.tabs[t], N) => Within(tab, N + 1)
  <2>1. other \in Nat \ DOMAIN s.tabs[t].panes
    BY <1>1 DEF Nowhere
  <2>2. value \in PaneType /\ value.terminal < next
    BY DEF Fresh
  <2> HIDE DEF k, next
  <2> QED
    BY <1>1, <1>3, <1>5, <2>1, <2>2, SplitTabIs DEF k
<1> HIDE DEF tab
<1>7. /\ TabsOK(new.tabs, node + 2, next)
      /\ Grows(new.tabs, s.tabs, t, tab, value)
  <2>1. TabsOK(s.tabs, node + 2, next)
    BY <1>1, <1>3, TabsMore
  <2>2. TabOK(tab, node + 2, next)
    BY <1>3, <1>6
  <2>3. value.terminal \notin TerminalsOf(s.tabs)
    BY DEF Fresh
  <2> HIDE DEF k, next
  <2> QED
    BY <1>1, <1>2, <1>3, <1>6, <2>1, <2>2, <2>3, TabGrows
<1>8. SpacesOK(new.spaces, DOMAIN new.tabs, node + 2)
  <2>1. SpacesOK(s.spaces, DOMAIN s.tabs, node + 2)
    BY <1>1, <1>3, SpacesMore
  <2> QED
    BY <1>2, <1>7, <2>1 DEF Grows
<1>9. new.tabs[t] = tab
  BY <1>7 DEF Grows
<1>10. Laid(new)
  BY <1>1, <1>2, <1>3, <1>7, <1>8 DEF Laid
<1>11. Gains(new, s, value)
  BY <1>2, <1>3, <1>7 DEF Gains, Same, Grows
<1> QED
  BY <1>2, <1>6, <1>7, <1>9, <1>10, <1>11 DEF PaneIn

(* The next number is no pane yet.                                          *)
LEMMA NumberFree ==
    ASSUME NEW s, Laid(s)
    PROVE  Nowhere(s.serial, s.tabs)
<1>1. \A u \in DOMAIN s.tabs : \A p \in DOMAIN s.tabs[u].panes : p < s.serial
  BY DEF Laid, TabsOK, TabOK, Marked
<1>2. ~(s.serial < s.serial)
  BY DEF Laid
<1> QED
  BY <1>1, <1>2 DEF Nowhere

(* A new pane beside one.                                                   *)
LEMMA AddPaneLaid ==
    ASSUME NEW s, Laid(s), NEW t \in DOMAIN s.tabs,
           NEW pane \in DOMAIN s.tabs[t].panes,
           Cardinality(DOMAIN s.tabs[t].panes) < MaxPanes,
           CanSplit(s.tabs[t], pane), NEW value, Fresh(s, value),
           NEW new, new = AddPane(s, t, pane, value)
    PROVE  PaneIn(new, s, t, s.serial, s.serial + 3, value)
<1> DEFINE k == s.serial
           node == k + 1
<1>1. /\ k \in Nat /\ node \in Nat /\ k <= node /\ k < node + 2
      /\ node + 2 = k + 3
  BY DEF Laid
<1>2. Nowhere(k, s.tabs)
  BY NumberFree
<1>3. new = PaneInto(s, t, pane, k, node, value)
  BY <1>1 DEF AddPane, PaneInto
<1> HIDE DEF node
<1>4. PaneIn(new, s, t, k, node + 2, value)
  BY <1>1, <1>2, <1>3, PaneInLaid
<1> QED
  BY <1>1, <1>4

(* What takes terminals from the tabs, and from the Session.                *)
Loses(new, s, T) ==
    /\ TerminalsOf(new.tabs) = TerminalsOf(s.tabs) \ T
    /\ new.terminals = s.terminals /\ new.nextTerminal = s.nextTerminal
    /\ new.rev = s.rev /\ s.serial <= new.serial

PaneOut(s, t, pane) ==
    [s EXCEPT !.tabs[t] = WithoutPane(Detach(@, pane), pane)]

PaneGone(new, s, t, pane) ==
    /\ Laid(new) /\ Loses(new, s, {s.tabs[t].panes[pane].terminal})
    /\ Nowhere(pane, new.tabs) /\ new.spaces = s.spaces
    /\ new.serial = s.serial
    /\ DOMAIN new.tabs = DOMAIN s.tabs
    /\ \A u \in DOMAIN s.tabs : u # t => new.tabs[u] = s.tabs[u]

(* One pane of several leaves its tab, with its terminal.                   *)
LEMMA PaneOutLaid ==
    ASSUME NEW s, Laid(s), NEW t \in DOMAIN s.tabs,
           NEW pane \in DOMAIN s.tabs[t].panes,
           Cardinality(DOMAIN s.tabs[t].panes) > 1,
           NEW new, new = PaneOut(s, t, pane)
    PROVE  PaneGone(new, s, t, pane)
<1> DEFINE k == s.serial
           next == s.nextTerminal
           tab == WithoutPane(Detach(s.tabs[t], pane), pane)
<1>1. /\ k \in Nat /\ next \in Nat /\ s.rev \in Nat \ {0}
      /\ SpacesOK(s.spaces, DOMAIN s.tabs, k) /\ Fields(s)
      /\ TabsOK(s.tabs, k, next) /\ next # 0
  BY DEF Laid
<1>2. /\ new.tabs = [s.tabs EXCEPT ![t] = tab]
      /\ new.serial = k /\ new.spaces = s.spaces
      /\ new.terminals = s.terminals /\ new.nextTerminal = next
      /\ new.rev = s.rev /\ Fields(new)
  BY <1>1 DEF Fields, PaneOut
<1>3. TabOK(s.tabs[t], k, next)
  BY <1>1 DEF TabsOK
<1>4. /\ TabOK(tab, k, next)
      /\ tab.panes = Restrict(s.tabs[t].panes, DOMAIN s.tabs[t].panes \ {pane})
  <2>1. k \in Nat /\ next \in Nat
    BY <1>1
  <2>2. Lessened(tab, s.tabs[t], pane, k, next)
    <3> HIDE DEF k, next
    <3> QED
      BY <1>3, <2>1, PaneOutIs
  <2> QED
    BY <2>2 DEF Lessened
<1> HIDE DEF tab
<1>5. Sub(tab, s.tabs[t])
  BY <1>4, RestrictIs DEF Sub
<1>6. TabsOK(new.tabs, k, next) /\ Replaced(new.tabs, s.tabs, t, tab)
  BY <1>1, <1>2, <1>4, <1>5, TabShrinks
<1>7. /\ TerminalsOf(new.tabs) =
            TerminalsOf(s.tabs) \ {s.tabs[t].panes[pane].terminal}
      /\ Nowhere(pane, new.tabs)
  BY <1>1, <1>4, <1>6, TermsLess
<1>8. /\ DOMAIN new.tabs = DOMAIN s.tabs
      /\ \A u \in DOMAIN s.tabs : u # t => new.tabs[u] = s.tabs[u]
  BY <1>6 DEF Replaced
<1>9. Laid(new)
  BY <1>1, <1>2, <1>6, <1>8 DEF Laid
<1>10. Loses(new, s, {s.tabs[t].panes[pane].terminal})
  BY <1>1, <1>2, <1>7 DEF Loses
<1> QED
  BY <1>2, <1>7, <1>8, <1>9, <1>10 DEF PaneGone

TabGone(new, s, t) ==
    /\ Laid(new) /\ Loses(new, s, PaneTerms(s.tabs[t]))
    /\ PaneTerms(s.tabs[t]) = TerminalsOf(Restrict(s.tabs, {t}))
    /\ new.serial = s.serial
    /\ DOMAIN new.tabs = DOMAIN s.tabs \ {t}
    /\ \A u \in DOMAIN new.tabs : new.tabs[u] = s.tabs[u]
    /\ \A p \in DOMAIN s.tabs[t].panes : Nowhere(p, new.tabs)

(* One tab of several leaves its Space, with the terminals of its panes.    *)
LEMMA RemoveTabLaid ==
    ASSUME NEW s, Laid(s), NEW t \in DOMAIN s.tabs,
           Cardinality(s.spaces[SpaceOf(s, t)]) > 1,
           NEW new, new = RemoveTab(s, t)
    PROVE  TabGone(new, s, t)
<1> DEFINE k == s.serial
           next == s.nextTerminal
           sp == SpaceOf(s, t)
<1>1. /\ k \in Nat /\ next \in Nat /\ s.rev \in Nat \ {0}
      /\ SpacesOK(s.spaces, DOMAIN s.tabs, k) /\ Fields(s)
      /\ TabsOK(s.tabs, k, next) /\ next # 0
  BY DEF Laid
<1>2. sp \in DOMAIN s.spaces /\ t \in s.spaces[sp]
  BY <1>1, SpaceOfIs
<1>3. /\ new.tabs = Others(s.tabs, t)
      /\ new.spaces = [s.spaces EXCEPT ![sp] = @ \ {t}]
      /\ new.serial = k
      /\ new.terminals = s.terminals /\ new.nextTerminal = next
      /\ new.rev = s.rev /\ Fields(new)
  BY <1>1 DEF Fields, RemoveTab, Others
<1> HIDE DEF sp
<1>4. /\ TabsOK(new.tabs, k, next)
      /\ DOMAIN new.tabs = DOMAIN s.tabs \ {t}
      /\ \A u \in DOMAIN s.tabs : u # t => new.tabs[u] = s.tabs[u]
      /\ TerminalsOf(new.tabs) = TerminalsOf(s.tabs) \ PaneTerms(s.tabs[t])
      /\ PaneTerms(s.tabs[t]) = TerminalsOf(Restrict(s.tabs, {t}))
  <2> DEFINE rest == Others(s.tabs, t)
  <2>1. k \in Nat /\ next \in Nat /\ TabsOK(s.tabs, k, next)
    BY <1>1
  <2> HIDE DEF k, next
  <2>2. /\ TabsOK(rest, k, next) /\ DOMAIN rest = DOMAIN s.tabs \ {t}
        /\ \A u \in DOMAIN s.tabs : u # t => rest[u] = s.tabs[u]
        /\ TerminalsOf(rest) = TerminalsOf(s.tabs) \ PaneTerms(s.tabs[t])
        /\ PaneTerms(s.tabs[t]) = TerminalsOf(Restrict(s.tabs, {t}))
    BY <2>1, OthersAre
  <2>3. new.tabs = rest
    BY <1>3
  <2> HIDE DEF rest
  <2> QED
    BY <2>2, <2>3
<1>5. SpacesOK(new.spaces, DOMAIN new.tabs, k)
  <2>1. IsFiniteSet(DOMAIN s.tabs) /\ Cardinality(s.spaces[sp]) > 1
    BY TabsFinite DEF sp
  <2> QED
    BY <1>1, <1>2, <1>3, <1>4, <2>1, SpaceDrops
<1>6. \A p \in DOMAIN s.tabs[t].panes : Nowhere(p, new.tabs)
  <2>1. \A u \in DOMAIN s.tabs : u # t =>
           \A p \in DOMAIN s.tabs[t].panes : p \notin DOMAIN s.tabs[u].panes
    BY <1>1 DEF TabsOK, Apart
  <2> QED
    BY <1>4, <2>1 DEF Nowhere
<1>7. Laid(new)
  BY <1>1, <1>3, <1>4, <1>5 DEF Laid
<1>8. Loses(new, s, PaneTerms(s.tabs[t]))
  BY <1>1, <1>3, <1>4 DEF Loses
<1> QED
  BY <1>3, <1>4, <1>6, <1>7, <1>8 DEF TabGone

(* One Space of several leaves, with the terminals of its panes.            *)
LEMMA RemoveSpaceLaid ==
    ASSUME NEW s, Laid(s), NEW sp \in DOMAIN s.spaces,
           Cardinality(DOMAIN s.spaces) > 1,
           NEW new, new = RemoveSpace(s, sp)
    PROVE  /\ Laid(new)
           /\ Loses(new, s, TerminalsOf(Restrict(s.tabs, s.spaces[sp])))
<1> DEFINE k == s.serial
           next == s.nextTerminal
           A == s.spaces[sp]
<1>1. /\ k \in Nat /\ next \in Nat /\ s.rev \in Nat \ {0}
      /\ SpacesOK(s.spaces, DOMAIN s.tabs, k) /\ Fields(s)
      /\ TabsOK(s.tabs, k, next) /\ next # 0
  BY DEF Laid
<1>2. /\ new.tabs = Restrict(s.tabs, DOMAIN s.tabs \ A)
      /\ new.spaces = Restrict(s.spaces, DOMAIN s.spaces \ {sp})
      /\ new.serial = k
      /\ new.terminals = s.terminals /\ new.nextTerminal = next
      /\ new.rev = s.rev /\ Fields(new)
  BY <1>1 DEF Fields, RemoveSpace
<1>3. A \subseteq DOMAIN s.tabs
  <2>1. IsFiniteSet(DOMAIN s.tabs)
    BY TabsFinite
  <2> QED
    BY <1>1, <2>1, SpaceFinite
<1>4. /\ TabsOK(new.tabs, k, next) /\ DOMAIN new.tabs = DOMAIN s.tabs \ A
  <2> DEFINE B == DOMAIN s.tabs \ A
  <2>1. k \in Nat /\ next \in Nat /\ TabsOK(s.tabs, k, next)
    BY <1>1
  <2>2. B \in SUBSET DOMAIN s.tabs /\ new.tabs = Restrict(s.tabs, B)
    BY <1>2
  <2> HIDE DEF k, next, B
  <2>3. /\ TabsOK(Restrict(s.tabs, B), k, next)
        /\ DOMAIN Restrict(s.tabs, B) = B
    BY <2>1, <2>2, TabsRestrict
  <2> QED
    BY <2>2, <2>3 DEF B
<1>5. TerminalsOf(new.tabs) = TerminalsOf(s.tabs) \ TerminalsOf(Restrict(s.tabs, A))
  <2>1. k \in Nat /\ next \in Nat /\ TabsOK(s.tabs, k, next)
    BY <1>1
  <2> HIDE DEF k, next, A
  <2>2. TerminalsOf(Restrict(s.tabs, DOMAIN s.tabs \ A)) =
           TerminalsOf(s.tabs) \ TerminalsOf(Restrict(s.tabs, A))
    BY <1>3, <2>1, TabsRestrict
  <2> QED
    BY <1>2, <2>2 DEF A
<1>6. SpacesOK(new.spaces, DOMAIN new.tabs, k)
  BY <1>1, <1>2, <1>4, SpaceGone
<1>7. Laid(new)
  BY <1>1, <1>2, <1>4, <1>6 DEF Laid
<1>8. Loses(new, s, TerminalsOf(Restrict(s.tabs, A)))
  BY <1>1, <1>2, <1>5 DEF Loses
<1> QED
  BY <1>7, <1>8

(* A tab whose tree changes under the same panes.                           *)
Reshaped(s, serial, t, tab) == [s EXCEPT !.serial = serial, !.tabs[t] = tab]

(* A tab whose tree changes under the same panes loses nothing.             *)
LEMMA ReshapedLaid ==
    ASSUME NEW s, Laid(s), NEW t \in DOMAIN s.tabs,
           NEW serial \in Nat, s.serial <= serial,
           NEW tab, TabOK(tab, serial, s.nextTerminal),
           tab.panes = s.tabs[t].panes,
           NEW new, new = Reshaped(s, serial, t, tab)
    PROVE  Laid(new) /\ Loses(new, s, {})
<1> DEFINE next == s.nextTerminal
<1>1. /\ s.serial \in Nat /\ next \in Nat /\ s.rev \in Nat \ {0}
      /\ SpacesOK(s.spaces, DOMAIN s.tabs, s.serial) /\ Fields(s)
      /\ TabsOK(s.tabs, s.serial, next) /\ next # 0
  BY DEF Laid
<1>2. /\ new.tabs = [s.tabs EXCEPT ![t] = tab]
      /\ new.serial = serial /\ new.spaces = s.spaces
      /\ new.terminals = s.terminals /\ new.nextTerminal = next
      /\ new.rev = s.rev /\ Fields(new)
  BY <1>1 DEF Fields, Reshaped
<1>3. TabsOK(s.tabs, serial, next)
  BY <1>1, TabsMore
<1>4. Sub(tab, s.tabs[t])
  BY DEF Sub
<1>5. TabsOK(new.tabs, serial, next) /\ Replaced(new.tabs, s.tabs, t, tab)
  <2>1. TabOK(tab, serial, next) /\ next \in Nat
    BY <1>1
  <2> HIDE DEF next
  <2> QED
    BY <1>2, <1>3, <1>4, <2>1, TabShrinks
<1>6. TerminalsOf(new.tabs) = TerminalsOf(s.tabs)
  <2>1. PaneTerms(tab) = PaneTerms(s.tabs[t])
    BY DEF PaneTerms
  <2>2. PaneTerms(s.tabs[t]) \subseteq TerminalsOf(s.tabs)
    BY TerminalsAre
  <2>3. TerminalsOf(new.tabs) =
           (TerminalsOf(s.tabs) \ PaneTerms(s.tabs[t])) \cup PaneTerms(tab)
    BY <1>5 DEF Replaced
  <2> QED
    BY <2>1, <2>2, <2>3
<1>7. SpacesOK(new.spaces, DOMAIN new.tabs, serial)
  <2>1. SpacesOK(s.spaces, DOMAIN s.tabs, serial)
    BY <1>1, SpacesMore
  <2> QED
    BY <1>2, <1>5, <2>1 DEF Replaced
<1>8. Laid(new)
  BY <1>1, <1>2, <1>5, <1>7 DEF Laid
<1>9. Loses(new, s, {})
  BY <1>2, <1>6 DEF Loses
<1> QED
  BY <1>8, <1>9

MoveIn(s, t, pane, target) ==
    [s EXCEPT !.serial = @ + 2,
              !.tabs[t] = Split(Detach(@, pane), target, pane, s.serial)]

(* A move within a tab loses nothing.                                       *)
LEMMA MoveInLaid ==
    ASSUME NEW s, Laid(s), NEW t \in DOMAIN s.tabs,
           NEW pane \in DOMAIN s.tabs[t].panes,
           NEW target \in DOMAIN s.tabs[t].panes, pane # target,
           CanSplit(Detach(s.tabs[t], pane), target),
           NEW new, new = MoveIn(s, t, pane, target)
    PROVE  Laid(new) /\ Loses(new, s, {})
<1> DEFINE tab == Split(Detach(s.tabs[t], pane), target, pane, s.serial)
           serial == s.serial + 2
           next == s.nextTerminal
<1>1. /\ s.serial \in Nat /\ next \in Nat /\ serial \in Nat
      /\ s.serial <= serial /\ TabOK(s.tabs[t], s.serial, next)
  BY DEF Laid, TabsOK
<1>2. TabOK(tab, serial, next) /\ tab.panes = s.tabs[t].panes
  <2>1. Moved(tab, s.tabs[t], s.serial, next)
    <3> HIDE DEF next
    <3> QED
      BY <1>1, MovedIs
  <2> QED
    BY <2>1 DEF Moved
<1>3. new = Reshaped(s, serial, t, tab)
  BY DEF Reshaped, MoveIn
<1> HIDE DEF tab, serial
<1>4. Laid(new) /\ Loses(new, s, {})
  BY <1>1, <1>2, <1>3, ReshapedLaid
<1> QED
  BY <1>4

SwapIn(s, t, pane, target) == [s EXCEPT !.tabs[t] = Swap(@, pane, target)]

(* A swap loses nothing.                                                    *)
LEMMA SwapLaid ==
    ASSUME NEW s, Laid(s), NEW t \in DOMAIN s.tabs,
           NEW pane \in DOMAIN s.tabs[t].panes,
           NEW target \in DOMAIN s.tabs[t].panes, pane # target,
           NEW new, new = SwapIn(s, t, pane, target)
    PROVE  Laid(new) /\ Loses(new, s, {})
<1> DEFINE tab == Swap(s.tabs[t], pane, target)
           next == s.nextTerminal
<1>1. /\ s.serial \in Nat /\ next \in Nat
      /\ s.serial <= s.serial /\ TabOK(s.tabs[t], s.serial, next)
  BY DEF Laid, TabsOK
<1>2. TabOK(tab, s.serial, next) /\ tab.panes = s.tabs[t].panes
  <2> HIDE DEF next
  <2> QED
    BY <1>1, SwappedIs
<1>3. new = Reshaped(s, s.serial, t, tab)
  BY DEF Laid, Fields, Reshaped, SwapIn
<1> HIDE DEF tab
<1>4. Laid(new) /\ Loses(new, s, {})
  BY <1>1, <1>2, <1>3, ReshapedLaid
<1> QED
  BY <1>4

(* Two different things are two.                                            *)
LEMMA PairCounts ==
    ASSUME NEW a, NEW b, a # b
    PROVE  Cardinality({a, b}) = 2 /\ IsFiniteSet({a, b})
<1>1. Cardinality({a}) = 1 /\ IsFiniteSet({a})
  BY FS_Singleton
<1>2. {a, b} = {a} \cup {b}
  OBVIOUS
<1>3. /\ Cardinality({a} \cup {b}) = Cardinality({a}) + 1
      /\ IsFiniteSet({a} \cup {b})
  BY <1>1, FS_AddElement
<1> QED
  BY <1>1, <1>2, <1>3

MayLeave(s, t, pane) ==
    /\ t \in DOMAIN s.tabs /\ pane \in DOMAIN s.tabs[t].panes
    /\ s.tabs[t].panes[pane].terminal # 0
    /\ \/ Cardinality(DOMAIN s.tabs[t].panes) > 1
       \/ Cardinality(s.spaces[SpaceOf(s, t)]) > 1

HasLeft(new, s, t, pane) ==
    /\ Laid(new) /\ Loses(new, s, {s.tabs[t].panes[pane].terminal})
    /\ Nowhere(pane, new.tabs) /\ new.serial = s.serial
    /\ \A u \in DOMAIN s.tabs :
          u # t => u \in DOMAIN new.tabs /\ new.tabs[u] = s.tabs[u]

(* The pane that leaves a tab, and the tab with its last one.               *)
LEMMA LeavesLaid ==
    ASSUME NEW s, Laid(s), NEW t, NEW pane, MayLeave(s, t, pane),
           NEW new, new = LeavesTab(s, t, pane)
    PROVE  HasLeft(new, s, t, pane)
<1> SUFFICES ASSUME t \in DOMAIN s.tabs, pane \in DOMAIN s.tabs[t].panes,
                    s.tabs[t].panes[pane].terminal # 0,
                    \/ Cardinality(DOMAIN s.tabs[t].panes) > 1
                    \/ Cardinality(s.spaces[SpaceOf(s, t)]) > 1
             PROVE  /\ Laid(new)
                    /\ Loses(new, s, {s.tabs[t].panes[pane].terminal})
                    /\ Nowhere(pane, new.tabs) /\ new.serial = s.serial
                    /\ \A u \in DOMAIN s.tabs :
                          u # t => /\ u \in DOMAIN new.tabs
                                   /\ new.tabs[u] = s.tabs[u]
  BY DEF MayLeave, HasLeft
<1> DEFINE x == s.tabs[t].panes[pane].terminal
<1>1. CASE EmptiesTab(s.tabs[t], pane)
  <2>1. DOMAIN s.tabs[t].panes = {pane}
    BY <1>1 DEF EmptiesTab
  <2>2. Cardinality(s.spaces[SpaceOf(s, t)]) > 1
    <3>1. Cardinality({pane}) = 1
      BY FS_Singleton
    <3> QED
      BY <2>1, <3>1
  <2>3. new = RemoveTab(s, t)
    BY <1>1 DEF LeavesTab
  <2>4. /\ Laid(new) /\ Loses(new, s, PaneTerms(s.tabs[t]))
        /\ new.serial = s.serial
        /\ DOMAIN new.tabs = DOMAIN s.tabs \ {t}
        /\ \A u \in DOMAIN new.tabs : new.tabs[u] = s.tabs[u]
        /\ \A p \in DOMAIN s.tabs[t].panes : Nowhere(p, new.tabs)
    <3>1. TabGone(new, s, t)
      BY <2>2, <2>3, RemoveTabLaid
    <3> QED
      BY <3>1 DEF TabGone
  <2>5. PaneTerms(s.tabs[t]) = {x}
    BY <2>1 DEF PaneTerms
  <2> HIDE DEF x
  <2>6. Loses(new, s, {x})
    BY <2>4, <2>5
  <2> QED
    BY <2>4, <2>6 DEF x
<1>2. CASE ~EmptiesTab(s.tabs[t], pane)
  <2>1. DOMAIN s.tabs[t].panes # {pane}
    BY <1>2 DEF EmptiesTab
  <2>2. Cardinality(DOMAIN s.tabs[t].panes) > 1
    <3> DEFINE D == DOMAIN s.tabs[t].panes
    <3>1. TabOK(s.tabs[t], s.serial, s.nextTerminal)
      BY DEF Laid, TabsOK
    <3>2. IsFiniteSet(D) /\ Cardinality(D) \in Nat
      BY <3>1, PanesType
    <3>3. PICK q \in D : q # pane
      BY <2>1
    <3>4. Cardinality({pane, q}) = 2 /\ {pane, q} \subseteq D
      BY <3>3, PairCounts
    <3>5. Cardinality({pane, q}) <= Cardinality(D)
      BY <3>2, <3>4, FS_Subset
    <3> QED
      BY <3>2, <3>4, <3>5
  <2>3. new = PaneOut(s, t, pane)
    BY <1>2 DEF LeavesTab, PaneOut
  <2>4. /\ Laid(new) /\ Loses(new, s, {x}) /\ new.serial = s.serial
        /\ Nowhere(pane, new.tabs) /\ DOMAIN new.tabs = DOMAIN s.tabs
        /\ \A u \in DOMAIN s.tabs : u # t => new.tabs[u] = s.tabs[u]
    <3>1. PaneGone(new, s, t, pane)
      BY <2>2, <2>3, PaneOutLaid
    <3> QED
      BY <3>1 DEF PaneGone
  <2> QED
    BY <2>4
<1> QED
  BY <1>1, <1>2

Across(s, t, pane, other, target) ==
    [LeavesTab(s, t, pane) EXCEPT
        !.serial = @ + 2,
        !.tabs[other] = WithPane(Split(s.tabs[other], target, pane, s.serial),
                                 pane, s.tabs[t].panes[pane])]

(* A move to another tab loses nothing, also when the pane was the last of  *)
(* its tab and the tab goes.                                                *)
LEMMA MoveAcrossLaid ==
    ASSUME NEW s, Laid(s), NEW t \in DOMAIN s.tabs,
           NEW pane \in DOMAIN s.tabs[t].panes,
           s.tabs[t].panes[pane].terminal # 0,
           \/ Cardinality(DOMAIN s.tabs[t].panes) > 1
           \/ Cardinality(s.spaces[SpaceOf(s, t)]) > 1,
           NEW other \in DOMAIN s.tabs, t # other,
           NEW target \in DOMAIN s.tabs[other].panes,
           Cardinality(DOMAIN s.tabs[other].panes) < MaxPanes,
           CanSplit(s.tabs[other], target),
           NEW new, new = Across(s, t, pane, other, target)
    PROVE  Laid(new) /\ Loses(new, s, {})
<1> DEFINE left == LeavesTab(s, t, pane)
           value == s.tabs[t].panes[pane]
           x == value.terminal
<1>1. /\ Laid(left) /\ Loses(left, s, {x})
      /\ Nowhere(pane, left.tabs) /\ left.serial = s.serial
      /\ \A u \in DOMAIN s.tabs :
            u # t => u \in DOMAIN left.tabs /\ left.tabs[u] = s.tabs[u]
  <2>1. left = LeavesTab(s, t, pane)
    OBVIOUS
  <2> HIDE DEF left
  <2>2. MayLeave(s, t, pane)
    BY DEF MayLeave
  <2>3. HasLeft(left, s, t, pane)
    BY <2>1, <2>2, LeavesLaid
  <2> QED
    BY <2>3 DEF HasLeft
<1>2. new = PaneInto(left, other, target, pane, left.serial, value)
  BY <1>1 DEF Across, PaneInto
<1> HIDE DEF left
<1>3. /\ other \in DOMAIN left.tabs /\ target \in DOMAIN left.tabs[other].panes
      /\ Cardinality(DOMAIN left.tabs[other].panes) < MaxPanes
      /\ CanSplit(left.tabs[other], target)
  BY <1>1
<1>4. /\ pane \in Nat /\ pane < s.serial /\ value \in PaneType
      /\ x < s.nextTerminal /\ s.serial \in Nat
  <2>1. TabOK(s.tabs[t], s.serial, s.nextTerminal) /\ s.serial \in Nat
    BY DEF Laid, TabsOK
  <2> QED
    BY <2>1, PanesType DEF TabOK, Marked
<1>5. Fresh(left, value)
  <2>1. /\ TerminalsOf(left.tabs) = TerminalsOf(s.tabs) \ {x}
        /\ left.nextTerminal = s.nextTerminal
    BY <1>1 DEF Loses
  <2> QED
    BY <1>4, <2>1 DEF Fresh
<1>6. /\ left.serial \in Nat /\ left.serial <= left.serial
      /\ pane < left.serial + 2
  BY <1>1, <1>4
<1> HIDE DEF value
<1>7. PaneIn(new, left, other, pane, left.serial + 2, value)
  BY <1>1, <1>2, <1>3, <1>4, <1>5, <1>6, PaneInLaid
<1>8. Laid(new) /\ Gains(new, left, value)
  BY <1>7 DEF PaneIn
<1>9. x \in TerminalsOf(s.tabs) /\ x # 0
  BY TermIn DEF value
<1>10. Loses(new, s, {})
  <2>1. TerminalsOf(new.tabs) = TerminalsOf(s.tabs)
    BY <1>1, <1>8, <1>9 DEF Loses, Gains
  <2>2. s.serial <= new.serial
    BY <1>1, <1>8 DEF Gains, Same, Loses
  <2> QED
    BY <1>1, <1>8, <2>1, <2>2 DEF Loses, Gains, Same
<1> QED
  BY <1>8, <1>10

(* An agent takes the place of the terminal of a pane.                      *)
Agent(s, t, pane, x) == [s EXCEPT !.tabs[t].panes[pane].terminal = x]

Worn(new, s, t, pane, x) ==
    /\ Laid(new) /\ new.terminals = s.terminals /\ new.rev = s.rev
    /\ new.nextTerminal = s.nextTerminal /\ new.serial = s.serial
    /\ TerminalsOf(new.tabs) =
          (TerminalsOf(s.tabs) \ {s.tabs[t].panes[pane].terminal}) \cup {x}

(* The agent's terminal is the pane's, and the one before it is no pane's.  *)
LEMMA AgentLaid ==
    ASSUME NEW s, Laid(s), NEW t \in DOMAIN s.tabs,
           NEW pane \in DOMAIN s.tabs[t].panes,
           NEW x \in Nat \ {0}, x < s.nextTerminal,
           x \notin TerminalsOf(s.tabs),
           NEW new, new = Agent(s, t, pane, x)
    PROVE  Worn(new, s, t, pane, x)
<1> DEFINE k == s.serial
           next == s.nextTerminal
           old == s.tabs[t]
           y == old.panes[pane].terminal
           tab == Rewired(old, pane, x)
           others == Others(s.tabs, t)
<1>1. /\ k \in Nat /\ next \in Nat /\ s.rev \in Nat \ {0}
      /\ SpacesOK(s.spaces, DOMAIN s.tabs, k) /\ Fields(s)
      /\ TabsOK(s.tabs, k, next) /\ next # 0
  BY DEF Laid
<1>2. /\ new.tabs = [s.tabs EXCEPT ![t] = tab]
      /\ new.serial = k /\ new.spaces = s.spaces
      /\ new.terminals = s.terminals /\ new.nextTerminal = next
      /\ new.rev = s.rev /\ Fields(new)
  BY <1>1 DEF Fields, Agent, Rewired
<1>3. TabOK(old, k, next)
  BY <1>1 DEF TabsOK
<1>4. /\ TabOK(tab, k, next) /\ DOMAIN tab.panes = DOMAIN old.panes
      /\ \A p \in DOMAIN old.panes : p # pane => tab.panes[p] = old.panes[p]
      /\ tab.panes[pane].terminal = x
  <2>1. Repaned(tab, old, pane, x, k, next)
    <3>1. x \in Nat /\ x < next
      OBVIOUS
    <3> HIDE DEF k, next
    <3> QED
      BY <1>1, <1>3, <3>1, ReplacedIs
  <2> HIDE DEF tab
  <2> QED
    BY <2>1 DEF Repaned
<1> HIDE DEF tab
<1>5. Own(old) /\ Foreign(old, others)
  BY <1>1, OwnForeign
<1>6. \A p \in DOMAIN old.panes : old.panes[p].terminal # x
  BY TermIn
<1>7. Own(tab)
  BY <1>4, <1>5, <1>6 DEF Own
<1>8. Foreign(tab, others)
  <2>1. \A u \in DOMAIN others : \A q \in DOMAIN others[u].panes :
           others[u].panes[q].terminal # x
    BY TermIn DEF Others, Restrict
  <2> HIDE DEF others
  <2> QED
    BY <1>4, <1>5, <2>1 DEF Foreign
<1>9. TabsOK(new.tabs, k, next) /\ Replaced(new.tabs, s.tabs, t, tab)
  <2> HIDE DEF k, next
  <2> QED
    BY <1>1, <1>2, <1>4, <1>7, <1>8, TabsReplace
<1>10. PaneTerms(tab) = (PaneTerms(old) \ {y}) \cup {x}
  <2>1. \A p \in DOMAIN old.panes : p # pane =>
           old.panes[p].terminal # y \/ y = 0
    BY <1>5 DEF Own
  <2> HIDE DEF y, old
  <2>2. ASSUME NEW z
        PROVE  z \in PaneTerms(tab) <=> z \in (PaneTerms(old) \ {y}) \cup {x}
    <3>1. ASSUME z \in PaneTerms(tab)
          PROVE  z \in (PaneTerms(old) \ {y}) \cup {x}
      BY <1>4, <2>1, <3>1 DEF PaneTerms
    <3>2. ASSUME z \in PaneTerms(old) \ {y} PROVE z \in PaneTerms(tab)
      <4>1. PICK p \in DOMAIN old.panes : z = old.panes[p].terminal /\ z # 0
        BY <3>2 DEF PaneTerms
      <4>2. p # pane
        BY <3>2, <4>1 DEF y, old
      <4> QED
        BY <1>4, <4>1, <4>2 DEF PaneTerms
    <3>3. x \in PaneTerms(tab)
      BY <1>4 DEF PaneTerms, old
    <3> QED
      BY <3>1, <3>2, <3>3
  <2> QED
    BY <2>2
<1>11. PaneTerms(old) \subseteq TerminalsOf(s.tabs) /\ 0 \notin TerminalsOf(s.tabs)
  BY TerminalsAre DEF PaneTerms
<1>12. y = 0 \/ y \in PaneTerms(old)
  BY DEF PaneTerms
<1>13. TerminalsOf(new.tabs) = (TerminalsOf(s.tabs) \ {y}) \cup {x}
  <2>1. TerminalsOf(new.tabs) =
           (TerminalsOf(s.tabs) \ PaneTerms(old)) \cup PaneTerms(tab)
    BY <1>9 DEF Replaced
  <2> HIDE DEF old, y
  <2> QED
    BY <1>10, <1>11, <1>12, <2>1
<1>14. Laid(new)
  BY <1>1, <1>2, <1>9 DEF Laid, Replaced
<1> QED
  BY <1>2, <1>13, <1>14 DEF Worn

-----------------------------------------------------------------------------
(* The terminals of a Session.                                              *)
Kept(s) ==
    /\ IsFiniteSet(DOMAIN s.terminals)
    /\ Cardinality(DOMAIN s.terminals) <= MaxTerminals
    /\ \A t \in DOMAIN s.terminals : s.terminals[t] \in TerminalType

(* A Session as it is between two steps: the terminals it keeps are those   *)
(* of its panes.                                                            *)
SessionOK(s) ==
    Laid(s) /\ Kept(s) /\ DOMAIN s.terminals = TerminalsOf(s.tabs)

(* A change of the topology is a change of the revision.                    *)
Grown(new, s) ==
    /\ new.rev \in Nat /\ s.rev \in Nat /\ s.rev <= new.rev
    /\ new.rev = s.rev => new.spaces = s.spaces /\ new.tabs = s.tabs

(* Raising the revision changes nothing else ...                            *)
LEMMA BumpOK ==
    ASSUME NEW s, SessionOK(s), NEW new, new = Bump(s)
    PROVE  /\ SessionOK(new) /\ new.rev = s.rev + 1
           /\ new.terminals = s.terminals /\ new.tabs = s.tabs
           /\ new.spaces = s.spaces
<1>1. Fields(s) /\ s.rev \in Nat
  BY DEF SessionOK, Laid
<1>2. /\ Fields(new) /\ new.rev = s.rev + 1 /\ new.spaces = s.spaces
      /\ new.tabs = s.tabs /\ new.terminals = s.terminals
      /\ new.serial = s.serial /\ new.nextTerminal = s.nextTerminal
  BY <1>1 DEF Bump, Fields
<1>3. s.rev + 1 \in Nat \ {0}
  BY <1>1
<1>4. Laid(new)
  BY <1>2, <1>3 DEF SessionOK, Laid
<1>5. Kept(new)
  BY <1>2 DEF SessionOK, Kept
<1> QED
  BY <1>2, <1>4, <1>5 DEF SessionOK

(* ... and tells a later topology from the one before.                      *)
LEMMA BumpGrows ==
    ASSUME NEW s, NEW mid, mid.rev = s.rev, s.rev \in Nat,
           NEW new, new.rev = mid.rev + 1
    PROVE  Grown(new, s)
<1>1. s.rev + 1 \in Nat /\ s.rev <= s.rev + 1 /\ s.rev + 1 # s.rev
  OBVIOUS
<1> QED
  BY <1>1 DEF Grown

(* A failed command that used up numbers changes nothing that shows.        *)
LEMMA UsedUpOK ==
    ASSUME NEW s, SessionOK(s), NEW a \in Nat, NEW b \in Nat,
           NEW new, new = UsedUp(s, a, b)
    PROVE  SessionOK(new) /\ Grown(new, s)
<1>1. /\ Fields(s) /\ s.rev \in Nat \ {0} /\ s.serial \in Nat
      /\ s.nextTerminal \in Nat /\ s.nextTerminal # 0
  BY DEF SessionOK, Laid
<1>2. /\ Fields(new) /\ new.rev = s.rev /\ new.spaces = s.spaces
      /\ new.tabs = s.tabs /\ new.terminals = s.terminals
      /\ new.serial = s.serial + a /\ new.nextTerminal = s.nextTerminal + b
  BY <1>1 DEF UsedUp, Fields
<1>3. /\ new.serial \in Nat /\ s.serial <= new.serial
      /\ new.nextTerminal \in Nat \ {0} /\ s.nextTerminal <= new.nextTerminal
  <2>1. \A n, m \in Nat : n + m \in Nat /\ n <= n + m /\ (n + m = 0 => n = 0)
    OBVIOUS
  <2> QED
    BY <1>1, <1>2, <2>1
<1>4. TabsOK(new.tabs, new.serial, new.nextTerminal)
  <2>1. TabsOK(s.tabs, s.serial, s.nextTerminal)
    BY DEF SessionOK, Laid
  <2> QED
    BY <1>1, <1>2, <1>3, <2>1, TabsMore
<1>5. SpacesOK(new.spaces, DOMAIN new.tabs, new.serial)
  <2>1. SpacesOK(s.spaces, DOMAIN s.tabs, s.serial)
    BY DEF SessionOK, Laid
  <2> QED
    BY <1>1, <1>2, <1>3, <2>1, SpacesMore
<1>6. Laid(new)
  BY <1>1, <1>2, <1>3, <1>4, <1>5 DEF Laid
<1>7. Kept(new)
  BY <1>2 DEF SessionOK, Kept
<1>8. SessionOK(new)
  BY <1>2, <1>6, <1>7 DEF SessionOK
<1>9. Grown(new, s)
  BY <1>1, <1>2 DEF Grown
<1> QED
  BY <1>8, <1>9

(* A Session with a terminal, or none, for a pane that is to come.          *)
Awaits(new, s, value) ==
    /\ Laid(new) /\ Kept(new) /\ Fresh(new, value)
    /\ DOMAIN new.terminals = TerminalsOf(new.tabs) \cup ({value.terminal} \ {0})
    /\ new.tabs = s.tabs /\ new.spaces = s.spaces /\ new.serial = s.serial
    /\ new.rev = s.rev

(* A new terminal is one.                                                   *)
LEMMA NewTerminalType == NewTerminal \in TerminalType
<1>1. <<>> \in Seq(Nat)
  OBVIOUS
<1> QED
  BY <1>1 DEF NewTerminal, TerminalType, States

(* With room for it there is a terminal for a pane to come ...              *)
LEMMA AwaitsTerminal ==
    ASSUME NEW s, SessionOK(s), Room(s), NEW new, new = WithTerminal(s),
           NEW value, value = Pane(s.nextTerminal, 0)
    PROVE  Awaits(new, s, value) /\ new.nextTerminal = s.nextTerminal + 1
<1> DEFINE x == s.nextTerminal
<1>1. /\ Fields(s) /\ s.rev \in Nat \ {0} /\ s.serial \in Nat
      /\ x \in Nat \ {0} /\ TabsOK(s.tabs, s.serial, x)
      /\ SpacesOK(s.spaces, DOMAIN s.tabs, s.serial)
      /\ DOMAIN s.terminals = TerminalsOf(s.tabs) /\ Kept(s)
  BY DEF SessionOK, Laid
<1>2. /\ Fields(new) /\ new.rev = s.rev /\ new.spaces = s.spaces
      /\ new.tabs = s.tabs /\ new.terminals = With(s.terminals, x, NewTerminal)
      /\ new.serial = s.serial /\ new.nextTerminal = x + 1
  BY <1>1 DEF WithTerminal, Fields
<1>3. /\ DOMAIN new.terminals = DOMAIN s.terminals \cup {x}
      /\ \A t \in DOMAIN new.terminals :
            new.terminals[t] = IF t = x THEN NewTerminal ELSE s.terminals[t]
  BY <1>2 DEF With
<1>4. x + 1 \in Nat \ {0} /\ x <= x + 1 /\ x < x + 1 /\ ~(x < x)
  BY <1>1
<1>5. x \notin TerminalsOf(s.tabs)
  BY <1>1, <1>4, TermsFew
<1>6. Laid(new)
  <2>1. TabsOK(new.tabs, s.serial, x + 1)
    BY <1>1, <1>2, <1>4, TabsMore
  <2> QED
    BY <1>1, <1>2, <1>4, <2>1 DEF Laid
<1>7. Kept(new)
  <2>1. /\ IsFiniteSet(DOMAIN s.terminals)
        /\ \A t \in DOMAIN s.terminals : s.terminals[t] \in TerminalType
    BY <1>1 DEF Kept
  <2>2. /\ IsFiniteSet(DOMAIN new.terminals)
        /\ Cardinality(DOMAIN new.terminals) = Cardinality(DOMAIN s.terminals) + 1
    BY <1>1, <1>3, <1>5, <2>1, FS_AddElement
  <2>3. /\ Cardinality(DOMAIN s.terminals) \in Nat
        /\ Cardinality(DOMAIN s.terminals) < MaxTerminals
    BY <2>1, FS_CardinalityType DEF Room
  <2>4. Cardinality(DOMAIN new.terminals) <= MaxTerminals
    BY <2>2, <2>3, SessionTreeAssumption
  <2>5. \A t \in DOMAIN new.terminals : new.terminals[t] \in TerminalType
    BY <1>3, <2>1, NewTerminalType
  <2> QED
    BY <2>2, <2>4, <2>5 DEF Kept
<1>8. value \in PaneType /\ value.terminal = x
  BY <1>1 DEF Pane, PaneType
<1>9. Fresh(new, value)
  BY <1>2, <1>4, <1>5, <1>8 DEF Fresh
<1> QED
  BY <1>1, <1>2, <1>3, <1>6, <1>7, <1>8, <1>9 DEF Awaits

(* ... a local pane or one that belongs to a host needs none ...            *)
LEMMA AwaitsNone ==
    ASSUME NEW s, SessionOK(s), NEW owner \in Nat,
           NEW value, value = Pane(0, owner)
    PROVE  Awaits(s, s, value)
<1>1. value \in PaneType /\ value.terminal = 0
  BY DEF Pane, PaneType
<1>2. 0 \notin TerminalsOf(s.tabs)
  BY DEF TerminalsOf
<1>3. 0 < s.nextTerminal
  BY DEF SessionOK, Laid
<1>4. Fresh(s, value)
  BY <1>1, <1>2, <1>3 DEF Fresh
<1> QED
  BY <1>1, <1>4 DEF Awaits, SessionOK

(* ... and so a pane of either domain can come.                             *)
LEMMA SuppliedAwaits ==
    ASSUME NEW s, SessionOK(s), NEW domain \in Domains,
           domain = "server" => Room(s)
    PROVE  Awaits(Supplied(s, domain), s, NewPane(s, domain))
<1>1. CASE domain = "server"
  BY <1>1, AwaitsTerminal DEF Supplied, NewPane
<1>2. CASE domain # "server"
  <2>1. Supplied(s, domain) = s /\ NewPane(s, domain) = Pane(0, 0)
    BY <1>2 DEF Supplied, NewPane
  <2> QED
    BY <2>1, AwaitsNone
<1> QED
  BY <1>1, <1>2

(* The pane comes, and its terminal has it.                                 *)
LEMMA Settled ==
    ASSUME NEW s, NEW mid, NEW value, Awaits(mid, s, value),
           NEW new, Laid(new), Gains(new, mid, value)
    PROVE  /\ SessionOK(new) /\ new.rev = s.rev
           /\ new.terminals = mid.terminals
<1>1. /\ new.terminals = mid.terminals /\ new.rev = mid.rev
      /\ TerminalsOf(new.tabs) =
            TerminalsOf(mid.tabs) \cup ({value.terminal} \ {0})
  BY DEF Gains, Same
<1>2. Kept(new)
  BY <1>1 DEF Awaits, Kept
<1> QED
  BY <1>1, <1>2 DEF SessionOK, Awaits

(* Terminals go with their panes.                                           *)
Rid(new, s, T) ==
    /\ DOMAIN new.terminals = DOMAIN s.terminals \ T
    /\ \A t \in DOMAIN new.terminals : new.terminals[t] = s.terminals[t]

(* Destroying the terminals of the panes that left makes terminals and      *)
(* panes match again.                                                       *)
LEMMA DestroyOK ==
    ASSUME NEW s, SessionOK(s), NEW T, NEW mid, Laid(mid), Loses(mid, s, T),
           NEW new, new = Destroy(mid, T)
    PROVE  /\ SessionOK(new) /\ Rid(new, s, T) /\ new.rev = s.rev
           /\ new.tabs = mid.tabs
<1>1. /\ Fields(mid) /\ mid.terminals = s.terminals /\ mid.rev = s.rev
      /\ TerminalsOf(mid.tabs) = TerminalsOf(s.tabs) \ T
  BY DEF Laid, Loses
<1>2. /\ Fields(new) /\ new.rev = s.rev /\ new.spaces = mid.spaces
      /\ new.tabs = mid.tabs
      /\ new.terminals = Restrict(s.terminals, DOMAIN s.terminals \ T)
      /\ new.serial = mid.serial /\ new.nextTerminal = mid.nextTerminal
  BY <1>1 DEF Destroy, Fields
<1>3. /\ DOMAIN new.terminals = DOMAIN s.terminals \ T
      /\ \A t \in DOMAIN new.terminals : new.terminals[t] = s.terminals[t]
  BY <1>2, RestrictIs
<1>4. Laid(new)
  BY <1>1, <1>2 DEF Laid
<1>5. Kept(new)
  <2>1. /\ IsFiniteSet(DOMAIN s.terminals)
        /\ Cardinality(DOMAIN s.terminals) <= MaxTerminals
        /\ \A t \in DOMAIN s.terminals : s.terminals[t] \in TerminalType
    BY DEF SessionOK, Kept
  <2>2. /\ IsFiniteSet(DOMAIN new.terminals)
        /\ Cardinality(DOMAIN new.terminals) <= Cardinality(DOMAIN s.terminals)
    BY <1>3, <2>1, FS_Subset
  <2>3. /\ Cardinality(DOMAIN s.terminals) \in Nat
        /\ Cardinality(DOMAIN new.terminals) \in Nat
    BY <2>1, <2>2, FS_CardinalityType
  <2>4. Cardinality(DOMAIN new.terminals) <= MaxTerminals
    BY <2>1, <2>2, <2>3, SessionTreeAssumption
  <2> QED
    BY <1>3, <2>1, <2>2, <2>4 DEF Kept
<1>6. DOMAIN new.terminals = TerminalsOf(new.tabs)
  BY <1>1, <1>2, <1>3 DEF SessionOK
<1> QED
  BY <1>2, <1>3, <1>4, <1>5, <1>6 DEF SessionOK, Rid

(* What loses no terminal needs to destroy none.                            *)
LEMMA NothingLost ==
    ASSUME NEW s, SessionOK(s), NEW new, Laid(new), Loses(new, s, {})
    PROVE  SessionOK(new) /\ new.rev = s.rev
<1>1. /\ new.terminals = s.terminals /\ new.rev = s.rev
      /\ TerminalsOf(new.tabs) = TerminalsOf(s.tabs)
  BY DEF Loses
<1> QED
  BY <1>1 DEF SessionOK, Kept

-----------------------------------------------------------------------------
(* Commands.                                                                *)
Fine(new, s) == SessionOK(new) /\ Grown(new, s)

(* A changed Session of the same revision is fine once it is bumped.        *)
LEMMA Bumped ==
    ASSUME NEW s, SessionOK(s), NEW mid, SessionOK(mid), mid.rev = s.rev
    PROVE  Fine(Bump(mid), s)
<1>1. SessionOK(Bump(mid)) /\ Bump(mid).rev = mid.rev + 1
  BY BumpOK
<1>2. s.rev \in Nat
  BY DEF SessionOK, Laid
<1>3. Grown(Bump(mid), s)
  BY <1>1, <1>2, BumpGrows
<1> QED
  BY <1>1, <1>3 DEF Fine

(* A Space, a tab and a pane for what was awaited.                          *)
LEMMA AddSpaceFine ==
    ASSUME NEW s, SessionOK(s), Cardinality(DOMAIN s.spaces) < MaxSpaces,
           NEW mid, NEW value, Awaits(mid, s, value)
    PROVE  /\ SessionOK(AddSpace(mid, value))
           /\ Fine(Bump(AddSpace(mid, value)), s)
<1> DEFINE new == AddSpace(mid, value)
<1>1. /\ Laid(mid) /\ Fresh(mid, value)
      /\ Cardinality(DOMAIN mid.spaces) < MaxSpaces
  BY DEF Awaits
<1>2. SpaceAdded(new, mid, value)
  BY <1>1, AddSpaceLaid
<1> HIDE DEF new
<1>3. Laid(new) /\ Gains(new, mid, value)
  BY <1>2 DEF SpaceAdded
<1>4. SessionOK(new) /\ new.rev = s.rev
  BY <1>3, Settled
<1>5. Fine(Bump(new), s)
  BY <1>4, Bumped
<1> QED
  BY <1>4, <1>5 DEF new

(* A tab is added.                                                          *)
LEMMA AddTabFine ==
    ASSUME NEW s, SessionOK(s), NEW sp \in DOMAIN s.spaces,
           Cardinality(s.spaces[sp]) < MaxTabs,
           NEW mid, NEW value, Awaits(mid, s, value)
    PROVE  /\ SessionOK(AddTab(mid, sp, value))
           /\ Fine(Bump(AddTab(mid, sp, value)), s)
<1> DEFINE new == AddTab(mid, sp, value)
<1>1. /\ Laid(mid) /\ Fresh(mid, value) /\ sp \in DOMAIN mid.spaces
      /\ Cardinality(mid.spaces[sp]) < MaxTabs
  BY DEF Awaits
<1>2. TabAdded(new, mid, sp, value)
  BY <1>1, AddTabLaid
<1> HIDE DEF new
<1>3. Laid(new) /\ Gains(new, mid, value)
  BY <1>2 DEF TabAdded
<1>4. SessionOK(new) /\ new.rev = s.rev
  BY <1>3, Settled
<1>5. Fine(Bump(new), s)
  BY <1>4, Bumped
<1> QED
  BY <1>4, <1>5 DEF new

(* A pane is added.                                                         *)
LEMMA AddPaneFine ==
    ASSUME NEW s, SessionOK(s), NEW t \in DOMAIN s.tabs,
           NEW pane \in DOMAIN s.tabs[t].panes,
           Cardinality(DOMAIN s.tabs[t].panes) < MaxPanes,
           CanSplit(s.tabs[t], pane),
           NEW mid, NEW value, Awaits(mid, s, value)
    PROVE  /\ SessionOK(AddPane(mid, t, pane, value))
           /\ Fine(Bump(AddPane(mid, t, pane, value)), s)
<1> DEFINE new == AddPane(mid, t, pane, value)
<1>1. /\ Laid(mid) /\ Fresh(mid, value) /\ t \in DOMAIN mid.tabs
      /\ pane \in DOMAIN mid.tabs[t].panes
      /\ Cardinality(DOMAIN mid.tabs[t].panes) < MaxPanes
      /\ CanSplit(mid.tabs[t], pane)
  BY DEF Awaits
<1>2. PaneIn(new, mid, t, mid.serial, mid.serial + 3, value)
  BY <1>1, AddPaneLaid
<1> HIDE DEF new
<1>3. Laid(new) /\ Gains(new, mid, value)
  BY <1>2 DEF PaneIn
<1>4. SessionOK(new) /\ new.rev = s.rev
  BY <1>3, Settled
<1>5. Fine(Bump(new), s)
  BY <1>4, Bumped
<1> QED
  BY <1>4, <1>5 DEF new

(* A pane, a tab and a Space go, with their terminals.                      *)
LEMMA ClosedPaneFine ==
    ASSUME NEW s, SessionOK(s), NEW t \in DOMAIN s.tabs,
           NEW pane \in DOMAIN s.tabs[t].panes,
           Cardinality(DOMAIN s.tabs[t].panes) > 1,
           NEW new, new = ClosedPane(s, t, pane)
    PROVE  /\ SessionOK(new) /\ new.rev = s.rev
           /\ Rid(new, s, {s.tabs[t].panes[pane].terminal})
<1> DEFINE mid == PaneOut(s, t, pane)
           T == {s.tabs[t].panes[pane].terminal}
<1>1. Laid(s)
  BY DEF SessionOK
<1>2. PaneGone(mid, s, t, pane)
  BY <1>1, PaneOutLaid
<1>3. new = Destroy(mid, T)
  BY DEF ClosedPane, PaneOut
<1> HIDE DEF mid
<1>4. Laid(mid) /\ Loses(mid, s, T)
  BY <1>2 DEF PaneGone
<1> HIDE DEF T
<1>5. SessionOK(new) /\ Rid(new, s, T) /\ new.rev = s.rev
  BY <1>3, <1>4, DestroyOK
<1> QED
  BY <1>5 DEF T

(* A tab is closed with its terminals.                                      *)
LEMMA ClosedTabFine ==
    ASSUME NEW s, SessionOK(s), NEW t \in DOMAIN s.tabs,
           Cardinality(s.spaces[SpaceOf(s, t)]) > 1,
           NEW new, new = ClosedTab(s, t)
    PROVE  /\ SessionOK(new) /\ new.rev = s.rev
           /\ Rid(new, s, PaneTerms(s.tabs[t]))
<1> DEFINE mid == RemoveTab(s, t)
           T == PaneTerms(s.tabs[t])
<1>1. Laid(s)
  BY DEF SessionOK
<1>2. TabGone(mid, s, t)
  BY <1>1, RemoveTabLaid
<1>3. new = Destroy(mid, TerminalsOf(Restrict(s.tabs, {t})))
  BY DEF ClosedTab
<1> HIDE DEF mid
<1>4. /\ Laid(mid) /\ Loses(mid, s, T)
      /\ T = TerminalsOf(Restrict(s.tabs, {t}))
  BY <1>2 DEF TabGone
<1> HIDE DEF T
<1>5. SessionOK(new) /\ Rid(new, s, T) /\ new.rev = s.rev
  BY <1>3, <1>4, DestroyOK
<1> QED
  BY <1>5 DEF T

(* A Space is closed with its terminals.                                    *)
LEMMA ClosedSpaceFine ==
    ASSUME NEW s, SessionOK(s), NEW sp \in DOMAIN s.spaces,
           Cardinality(DOMAIN s.spaces) > 1,
           NEW new, new = ClosedSpace(s, sp)
    PROVE  /\ SessionOK(new) /\ new.rev = s.rev
           /\ Rid(new, s, TerminalsOf(Restrict(s.tabs, s.spaces[sp])))
<1> DEFINE mid == RemoveSpace(s, sp)
           T == TerminalsOf(Restrict(s.tabs, s.spaces[sp]))
<1>1. Laid(s)
  BY DEF SessionOK
<1>2. Laid(mid) /\ Loses(mid, s, T)
  BY <1>1, RemoveSpaceLaid
<1>3. new = Destroy(mid, T)
  BY DEF ClosedSpace
<1> HIDE DEF mid, T
<1>4. SessionOK(new) /\ Rid(new, s, T) /\ new.rev = s.rev
  BY <1>2, <1>3, DestroyOK
<1> QED
  BY <1>4 DEF T

(* An agent takes the place of a terminal.                                  *)
LEMMA AgentFine ==
    ASSUME NEW s, SessionOK(s), Room(s), NEW t \in DOMAIN s.tabs,
           NEW pane \in DOMAIN s.tabs[t].panes,
           s.tabs[t].panes[pane].terminal # 0,
           NEW new, new = Destroy(Agent(WithTerminal(s), t, pane,
                                        s.nextTerminal),
                                  {s.tabs[t].panes[pane].terminal})
    PROVE  SessionOK(new) /\ new.rev = s.rev
<1> DEFINE x == s.nextTerminal
           y == s.tabs[t].panes[pane].terminal
           mid == WithTerminal(s)
           worn == Agent(mid, t, pane, x)
<1>1. /\ Awaits(mid, s, Pane(x, 0)) /\ mid.nextTerminal = x + 1
  BY AwaitsTerminal
<1>2. x \in Nat \ {0} /\ s.serial \in Nat /\ s.rev \in Nat \ {0}
  BY DEF SessionOK, Laid
<1>3. Pane(x, 0).terminal = x
  BY DEF Pane
<1>4. /\ Laid(mid) /\ Kept(mid) /\ mid.tabs = s.tabs /\ mid.rev = s.rev
      /\ DOMAIN mid.terminals = TerminalsOf(s.tabs) \cup {x}
      /\ x \notin TerminalsOf(s.tabs)
  BY <1>1, <1>2, <1>3 DEF Awaits, Fresh
<1>5. x < mid.nextTerminal
  BY <1>1, <1>2
<1> HIDE DEF mid
<1>6. /\ Laid(worn) /\ worn.terminals = mid.terminals /\ worn.rev = mid.rev
      /\ TerminalsOf(worn.tabs) = (TerminalsOf(s.tabs) \ {y}) \cup {x}
  <2>1. /\ t \in DOMAIN mid.tabs /\ pane \in DOMAIN mid.tabs[t].panes
        /\ x \notin TerminalsOf(mid.tabs) /\ mid.tabs[t].panes[pane].terminal = y
    BY <1>4
  <2>2. Worn(worn, mid, t, pane, x)
    <3> HIDE DEF x
    <3> QED
      BY <1>2, <1>4, <1>5, <2>1, AgentLaid
  <2> QED
    BY <1>4, <2>1, <2>2 DEF Worn
<1>7. y \in TerminalsOf(s.tabs) /\ y # x
  BY <1>4, TermIn
<1>8. new = Destroy(worn, {y})
  BY DEF mid
<1> HIDE DEF worn, x, y
<1>9. /\ Fields(new) /\ new.rev = s.rev /\ new.spaces = worn.spaces
      /\ new.tabs = worn.tabs
      /\ new.terminals = Restrict(mid.terminals, DOMAIN mid.terminals \ {y})
      /\ new.serial = worn.serial /\ new.nextTerminal = worn.nextTerminal
  BY <1>4, <1>6, <1>8 DEF Destroy, Fields, Laid
<1>10. /\ DOMAIN new.terminals = DOMAIN mid.terminals \ {y}
       /\ \A u \in DOMAIN new.terminals : new.terminals[u] = mid.terminals[u]
  <2> DEFINE old == mid.terminals
             D == DOMAIN old \ {y}
  <2>1. new.terminals = Restrict(old, D)
    BY <1>9
  <2>2. D \subseteq DOMAIN old
    OBVIOUS
  <2> HIDE DEF old, D
  <2>3. /\ DOMAIN Restrict(old, D) = D
        /\ \A u \in D : Restrict(old, D)[u] = old[u]
    BY <2>2, RestrictIs
  <2>4. /\ DOMAIN new.terminals = D
        /\ \A u \in D : new.terminals[u] = old[u]
    BY <2>1, <2>3
  <2> QED
    BY <2>4 DEF old, D
<1>11. Laid(new)
  BY <1>4, <1>6, <1>9 DEF Laid
<1>12. Kept(new)
  <2>1. /\ IsFiniteSet(DOMAIN mid.terminals)
        /\ Cardinality(DOMAIN mid.terminals) <= MaxTerminals
        /\ \A u \in DOMAIN mid.terminals : mid.terminals[u] \in TerminalType
    BY <1>4 DEF Kept
  <2>2. /\ IsFiniteSet(DOMAIN new.terminals)
        /\ Cardinality(DOMAIN new.terminals) <= Cardinality(DOMAIN mid.terminals)
    BY <1>10, <2>1, FS_Subset
  <2>3. /\ Cardinality(DOMAIN mid.terminals) \in Nat
        /\ Cardinality(DOMAIN new.terminals) \in Nat
    BY <2>1, <2>2, FS_CardinalityType
  <2>4. Cardinality(DOMAIN new.terminals) <= MaxTerminals
    BY <2>1, <2>2, <2>3, SessionTreeAssumption
  <2> QED
    BY <1>10, <2>1, <2>2, <2>4 DEF Kept
<1>13. DOMAIN new.terminals = TerminalsOf(new.tabs)
  BY <1>4, <1>6, <1>7, <1>9, <1>10
<1> QED
  BY <1>9, <1>11, <1>12, <1>13 DEF SessionOK

-----------------------------------------------------------------------------
(* The loop that closes the panes whose shells have ended.                  *)
LEMMA TabWithIs ==
    ASSUME NEW s, SessionOK(s), NEW x \in DOMAIN s.terminals,
           NEW t, t = TabWith(s, x)
    PROVE  /\ t \in DOMAIN s.tabs
           /\ PaneWith(s.tabs[t], x) \in DOMAIN s.tabs[t].panes
           /\ s.tabs[t].panes[PaneWith(s.tabs[t], x)].terminal = x
           /\ x # 0
<1>1. x \in UNION {PaneTerms(s.tabs[u]) : u \in DOMAIN s.tabs}
  BY TerminalsAre DEF SessionOK
<1>2. PICK u \in DOMAIN s.tabs : x \in PaneTerms(s.tabs[u])
  BY <1>1
<1>3. x # 0 /\ \E p \in DOMAIN s.tabs[u].panes : s.tabs[u].panes[p].terminal = x
  BY <1>2 DEF PaneTerms
<1>4. /\ t \in DOMAIN s.tabs
      /\ \E p \in DOMAIN s.tabs[t].panes : s.tabs[t].panes[p].terminal = x
  BY <1>2, <1>3 DEF TabWith
<1> QED
  BY <1>3, <1>4 DEF PaneWith

(* Where there are not several, there is one.                               *)
LEMMA LoneIs ==
    ASSUME NEW D, IsFiniteSet(D), NEW p \in D, ~(Cardinality(D) > 1)
    PROVE  D = {p}
<1>1. Cardinality(D) \in Nat
  BY FS_CardinalityType
<1>2. ASSUME NEW q \in D, q # p PROVE FALSE
  <2>1. Cardinality({p, q}) = 2 /\ {p, q} \subseteq D
    BY <1>2, PairCounts
  <2>2. Cardinality({p, q}) <= Cardinality(D)
    BY <2>1, FS_Subset
  <2> QED
    BY <1>1, <2>1, <2>2
<1> QED
  BY <1>2

Closed1(new, s, x) ==
    SessionOK(new) /\ new.rev = s.rev + 1 /\ Rid(new, s, {x})

(* What rids the Session of one terminal closes it.                         *)
LEMMA ClosesOne ==
    ASSUME NEW s, SessionOK(s), NEW x, NEW mid, SessionOK(mid),
           mid.rev = s.rev, Rid(mid, s, {x})
    PROVE  Closed1(Bump(mid), s, x)
<1>1. /\ SessionOK(Bump(mid)) /\ Bump(mid).rev = mid.rev + 1
      /\ Bump(mid).terminals = mid.terminals
  BY BumpOK
<1> QED
  BY <1>1 DEF Closed1, Rid

(* Closing the pane of an exited shell, its tab or its Space when it was    *)
(* the last in it, rids the Session of that terminal only.                  *)
LEMMA CloseExitedIs ==
    ASSUME NEW s, SessionOK(s), NEW x \in DOMAIN s.terminals,
           NEW c \in CloseExited(s, x)
    PROVE  Closed1(c, s, x)
<1> DEFINE t == TabWith(s, x)
           p == PaneWith(s.tabs[t], x)
           sp == SpaceOf(s, t)
           D == DOMAIN s.tabs[t].panes
<1>1. t \in DOMAIN s.tabs /\ p \in D /\ s.tabs[t].panes[p].terminal = x /\ x # 0
  BY TabWithIs
<1>2. /\ TabOK(s.tabs[t], s.serial, s.nextTerminal) /\ Laid(s)
      /\ SpacesOK(s.spaces, DOMAIN s.tabs, s.serial)
  BY <1>1 DEF SessionOK, Laid, TabsOK
<1>3. IsFiniteSet(D) /\ Cardinality(D) \in Nat
  BY <1>2, PanesType
<1>4. sp \in DOMAIN s.spaces /\ t \in s.spaces[sp]
  BY <1>1, <1>2, SpaceOfIs
<1>5. CASE ~LonePane(s.tabs[t])
  <2>1. c = Bump(ClosedPane(s, t, p))
    BY <1>5 DEF CloseExited
  <2>2. Cardinality(D) > 1
    BY <1>3, <1>5 DEF LonePane
  <2> DEFINE mid == ClosedPane(s, t, p)
  <2>3. /\ SessionOK(mid) /\ mid.rev = s.rev
        /\ Rid(mid, s, {s.tabs[t].panes[p].terminal})
    <3> HIDE DEF t, p
    <3> QED
      BY <1>1, <2>2, ClosedPaneFine
  <2> HIDE DEF mid, t, p
  <2> QED
    BY <1>1, <2>1, <2>3, ClosesOne DEF mid
<1>6. CASE LonePane(s.tabs[t])
  <2>1. D = {p}
    <3>1. ~(Cardinality(D) > 1)
      BY <1>3, <1>6 DEF LonePane
    <3> HIDE DEF D, p
    <3> QED
      BY <1>1, <1>3, <3>1, LoneIs
  <2>2. PaneTerms(s.tabs[t]) = {x}
    BY <1>1, <2>1 DEF PaneTerms
  <2>3. CASE Cardinality(s.spaces[sp]) > 1
    <3> DEFINE mid == ClosedTab(s, t)
    <3>1. c = Bump(mid)
      BY <1>6, <2>3 DEF CloseExited
    <3>2. SessionOK(mid) /\ mid.rev = s.rev /\ Rid(mid, s, PaneTerms(s.tabs[t]))
      <4> HIDE DEF t
      <4> QED
        BY <1>1, <2>3, ClosedTabFine
    <3> HIDE DEF mid, t
    <3> QED
      BY <2>2, <3>1, <3>2, ClosesOne
  <2>4. CASE ~(Cardinality(s.spaces[sp]) > 1)
    <3> DEFINE mid == ClosedSpace(s, sp)
               T == TerminalsOf(Restrict(s.tabs, s.spaces[sp]))
    <3>1. c = Bump(mid) /\ Cardinality(DOMAIN s.spaces) > 1
      BY <1>6, <2>4 DEF CloseExited
    <3>2. SessionOK(mid) /\ mid.rev = s.rev /\ Rid(mid, s, T)
      <4> HIDE DEF sp
      <4> QED
        BY <1>4, <3>1, ClosedSpaceFine
    <3>3. s.spaces[sp] = {t}
      <4>1. IsFiniteSet(s.spaces[sp])
        <5> HIDE DEF sp
        <5> QED
          BY <1>2, <1>4, SpaceFinite, TabsFinite
      <4> HIDE DEF sp, t
      <4> QED
        BY <1>4, <2>4, <4>1, LoneIs
    <3>4. T = {x}
      <4>1. TerminalsOf(Restrict(s.tabs, {t})) = PaneTerms(s.tabs[t])
        <5>1. /\ TabsOK(s.tabs, s.serial, s.nextTerminal)
              /\ s.serial \in Nat /\ s.nextTerminal \in Nat
          BY <1>2 DEF Laid
        <5> HIDE DEF t
        <5> QED
          BY <1>1, <5>1, OthersAre
      <4> QED
        BY <2>2, <3>3, <4>1
    <3> HIDE DEF mid, T
    <3> QED
      BY <3>1, <3>2, <3>4, ClosesOne
  <2> QED
    BY <2>3, <2>4
<1> QED
  BY <1>5, <1>6

(* Going on twice is going on.                                              *)
LEMMA GrownOn ==
    ASSUME NEW a, NEW b, NEW c, Grown(b, a), Grown(c, b)
    PROVE  Grown(c, a)
<1>1. \A i, j, k \in Nat :
         i <= j /\ j <= k => i <= k /\ (i = k => i = j /\ j = k)
  OBVIOUS
<1> HIDE <1>1
<1>2. /\ a.rev \in Nat /\ b.rev \in Nat /\ c.rev \in Nat
      /\ a.rev <= b.rev /\ b.rev <= c.rev
  BY DEF Grown
<1>3. a.rev <= c.rev /\ (a.rev = c.rev => a.rev = b.rev /\ b.rev = c.rev)
  BY <1>1, <1>2
<1> QED
  BY <1>2, <1>3 DEF Grown

(* One terminal at a time: its pane goes, or the attempt is noted.          *)
LEMMA CloseOrRememberIs ==
    ASSUME NEW rev \in Nat, NEW s, SessionOK(s), NEW x \in DOMAIN s.terminals,
           NEW new, new = CloseOrRemember(rev, s, x)
    PROVE  /\ Fine(new, s)
           /\ DOMAIN new.terminals \in {DOMAIN s.terminals,
                                        DOMAIN s.terminals \ {x}}
<1>1. CASE CloseExited(s, x) # {}
  <2>1. new \in CloseExited(s, x)
    BY <1>1 DEF CloseOrRemember
  <2>2. Closed1(new, s, x)
    BY <2>1, CloseExitedIs
  <2>3. SessionOK(new) /\ new.rev = s.rev + 1 /\ Rid(new, s, {x})
    BY <2>2 DEF Closed1
  <2>4. s.rev \in Nat
    BY DEF SessionOK, Laid
  <2>5. Grown(new, s)
    BY <2>3, <2>4, BumpGrows
  <2> QED
    BY <2>3, <2>5 DEF Fine, Rid
<1>2. CASE CloseExited(s, x) = {}
  <2> DEFINE note == <<s.terminals[x].generation, rev>>
             terminals == [s.terminals EXCEPT ![x] = [@ EXCEPT !.tried = note]]
  <2>0. new = [s EXCEPT !.terminals[x].tried = note]
    BY <1>2 DEF CloseOrRemember
  <2>1. /\ Fields(s) /\ Laid(s) /\ Kept(s)
        /\ DOMAIN s.terminals = TerminalsOf(s.tabs)
        /\ s.terminals[x] \in TerminalType
    BY DEF SessionOK, Laid, Kept
  <2>2. note \in Seq(Nat)
    BY <2>1 DEF TerminalType
  <2> HIDE DEF note
  <2>3. /\ Fields(new) /\ new.rev = s.rev /\ new.spaces = s.spaces
        /\ new.tabs = s.tabs /\ new.terminals = terminals
        /\ new.serial = s.serial /\ new.nextTerminal = s.nextTerminal
    BY <2>0, <2>1 DEF Fields
  <2>4. /\ DOMAIN terminals = DOMAIN s.terminals
        /\ terminals[x] \in TerminalType
        /\ \A u \in DOMAIN s.terminals : u # x => terminals[u] = s.terminals[u]
    BY <2>1, <2>2 DEF TerminalType
  <2> HIDE DEF terminals
  <2>5. Laid(new)
    BY <2>1, <2>3 DEF Laid
  <2>6. Kept(new)
    BY <2>1, <2>3, <2>4 DEF Kept
  <2>7. SessionOK(new)
    BY <2>1, <2>3, <2>4, <2>5, <2>6 DEF SessionOK
  <2>8. Grown(new, s)
    BY <2>1, <2>3 DEF Grown, Laid
  <2> QED
    BY <2>3, <2>4, <2>7, <2>8 DEF Fine
<1> QED
  BY <1>1, <1>2

(* Forgetting old attempts keeps the Session and its terminals.             *)
LEMMA PumpedIs ==
    ASSUME NEW s, SessionOK(s), NEW new, new = Pumped(s)
    PROVE  /\ Fine(new, s) /\ DOMAIN new.terminals = DOMAIN s.terminals
<1> DEFINE Told(t) == IF s.terminals[t].state = "running"
                      THEN [s.terminals[t] EXCEPT !.tried = <<>>]
                      ELSE s.terminals[t]
           terminals == [t \in DOMAIN s.terminals |-> Told(t)]
<1>1. /\ Fields(s) /\ Laid(s) /\ Kept(s)
      /\ DOMAIN s.terminals = TerminalsOf(s.tabs)
      /\ \A t \in DOMAIN s.terminals : s.terminals[t] \in TerminalType
  BY DEF SessionOK, Laid, Kept
<1>2. /\ Fields(new) /\ new.rev = s.rev /\ new.spaces = s.spaces
      /\ new.tabs = s.tabs /\ new.terminals = terminals
      /\ new.serial = s.serial /\ new.nextTerminal = s.nextTerminal
  BY <1>1 DEF Fields, Pumped
<1>3. <<>> \in Seq(Nat)
  OBVIOUS
<1>4. \A t \in DOMAIN s.terminals : Told(t) \in TerminalType
  BY <1>1, <1>3 DEF TerminalType
<1>5. /\ DOMAIN terminals = DOMAIN s.terminals
      /\ \A t \in DOMAIN terminals : terminals[t] \in TerminalType
  BY <1>4
<1> HIDE DEF terminals, Told
<1>6. Laid(new)
  BY <1>1, <1>2 DEF Laid
<1>7. Kept(new)
  BY <1>1, <1>2, <1>5 DEF Kept
<1>8. SessionOK(new)
  BY <1>1, <1>2, <1>5, <1>6, <1>7 DEF SessionOK
<1>9. Grown(new, s)
  BY <1>1, <1>2 DEF Grown, Laid
<1> QED
  BY <1>2, <1>5, <1>8, <1>9 DEF Fine

(* A round of the loop, one clean exit after the other.                     *)
Turn(s, order, sofar, i) ==
    IF i = 0 THEN Pumped(s) ELSE CloseOrRemember(s.rev, sofar[i - 1], order[i])

Runs(a, s, order, n) == a = [i \in 0..n |-> Turn(s, order, a, i)]

RoundOf(s, order) == CHOOSE a : Runs(a, s, order, Len(order))

GoesOn(a, s, order, n) ==
    /\ a = [i \in 0..n |-> a[i]] /\ a[0] = Pumped(s)
    /\ \A i \in 1..n : a[i] = CloseOrRemember(s.rev, a[i - 1], order[i])

(* The turns of the loop, one by one.                                       *)
LEMMA RunsAre ==
    ASSUME NEW s, NEW order, NEW n \in Nat, NEW a
    PROVE  Runs(a, s, order, n) <=> GoesOn(a, s, order, n)
<1>1. /\ 0 \in 0..n /\ \A i \in 1..n : i \in 0..n /\ i # 0
      /\ \A i \in 0..n : i # 0 => i \in 1..n
  OBVIOUS
<1>2. ASSUME Runs(a, s, order, n)
      PROVE  /\ a = [i \in 0..n |-> a[i]] /\ a[0] = Pumped(s)
             /\ \A i \in 1..n :
                   a[i] = CloseOrRemember(s.rev, a[i - 1], order[i])
  <2>1. a = [i \in 0..n |-> Turn(s, order, a, i)]
    BY <1>2 DEF Runs
  <2>2. \A i \in 0..n : a[i] = Turn(s, order, a, i)
    BY <2>1
  <2> QED
    BY <1>1, <2>1, <2>2 DEF Turn
<1>3. ASSUME a = [i \in 0..n |-> a[i]], a[0] = Pumped(s),
             \A i \in 1..n : a[i] = CloseOrRemember(s.rev, a[i - 1], order[i])
      PROVE  Runs(a, s, order, n)
  <2>1. \A i \in 0..n : a[i] = Turn(s, order, a, i)
    BY <1>1, <1>3 DEF Turn
  <2>2. [i \in 0..n |-> a[i]] = [i \in 0..n |-> Turn(s, order, a, i)]
    BY <2>1
  <2> QED
    BY <1>3, <2>2 DEF Runs
<1> QED
  BY <1>2, <1>3 DEF GoesOn

(* The recursion over the turns has a solution.                             *)
LEMMA RoundExists ==
    ASSUME NEW s, NEW order, NEW n \in Nat
    PROVE  \E a : Runs(a, s, order, n)
<1> DEFINE Step(x, i) == CloseOrRemember(s.rev, x, order[i])
           Upto(a, k) == /\ a = [i \in 0..k |-> a[i]] /\ a[0] = Pumped(s)
                         /\ \A i \in 1..k : a[i] = Step(a[i - 1], i)
           T == {k \in 0..n : \E a : Upto(a, k)}
<1> HIDE DEF Step
<1>1. 0 \in T
  <2> DEFINE a == [i \in 0..0 |-> Pumped(s)]
  <2>1. Upto(a, 0)
    OBVIOUS
  <2>2. 0 \in 0..n
    OBVIOUS
  <2> HIDE DEF a
  <2> QED
    BY <2>1, <2>2
<1>2. ASSUME NEW k \in Nat, k < n /\ k \in T PROVE k + 1 \in T
  <2>1. PICK a : Upto(a, k)
    BY <1>2
  <2> DEFINE b == [i \in 0..(k + 1) |-> IF i = k + 1 THEN Step(a[k], k + 1)
                                       ELSE a[i]]
  <2>2. /\ 0 \in 0..(k + 1) /\ 0 # k + 1 /\ k + 1 \in 0..n
        /\ \A i \in 1..(k + 1) :
              /\ i \in 0..(k + 1) /\ i - 1 \in 0..(k + 1) /\ i - 1 # k + 1
              /\ i # k + 1 => i \in 1..k
        /\ (k + 1) - 1 = k
    BY <1>2
  <2>3. /\ b[0] = a[0]
        /\ \A i \in 1..(k + 1) : b[i - 1] = a[i - 1]
        /\ \A i \in 1..(k + 1) :
              b[i] = IF i = k + 1 THEN Step(a[k], k + 1) ELSE a[i]
    BY <2>2
  <2>4. b = [i \in 0..(k + 1) |-> b[i]]
    OBVIOUS
  <2> HIDE DEF b
  <2>5. \A i \in 1..(k + 1) : b[i] = Step(b[i - 1], i)
    BY <2>1, <2>2, <2>3
  <2>6. Upto(b, k + 1)
    BY <2>1, <2>3, <2>4, <2>5
  <2> QED
    BY <2>2, <2>6
<1>3. n \in T
  <2> HIDE DEF T
  <2>1. 0..n \subseteq T
    BY <1>1, <1>2, Induction
  <2> QED
    BY <2>1
<1>4. PICK a : Upto(a, n)
  BY <1>3
<1>5. Runs(a, s, order, n)
  BY <1>4, RunsAre DEF Step, GoesOn
<1> QED
  BY <1>5

(* After a round the Session is one, and only terminals of shells that      *)
(* ended cleanly are gone.                                                  *)
LEMMA RoundIs ==
    ASSUME NEW s, SessionOK(s), NEW order,
           order \in SetToSeqs(CleanExits(s)),
           NEW new, new = RoundOf(s, order)[Len(order)]
    PROVE  /\ Fine(new, s)
           /\ \A x \in DOMAIN s.terminals \ DOMAIN new.terminals :
                 s.terminals[x].state = "clean"
<1> DEFINE C == CleanExits(s)
           n == Cardinality(C)
           a == RoundOf(s, order)
<1>1. /\ C \subseteq DOMAIN s.terminals
      /\ \A x \in C : s.terminals[x].state = "clean"
  BY DEF CleanExits
<1>2. n \in Nat
  <2>1. IsFiniteSet(DOMAIN s.terminals)
    BY DEF SessionOK, Kept
  <2>2. IsFiniteSet(C)
    BY <1>1, <2>1, FS_Subset
  <2> HIDE DEF C
  <2> QED
    BY <2>2, FS_CardinalityType
<1>3. /\ order \in [1..n -> C]
      /\ \A i, j \in 1..n : i # j => order[i] # order[j]
  BY DEF SetToSeqs
<1> HIDE DEF C, n
<1>4. Len(order) = n
  BY <1>2, <1>3, MappedSeq
<1>5. Runs(a, s, order, n)
  <2>1. \E b : Runs(b, s, order, n)
    BY <1>2, RoundExists
  <2> QED
    BY <1>4, <2>1 DEF RoundOf
<1> HIDE DEF a
<1>6. /\ a[0] = Pumped(s)
      /\ \A i \in 1..n : a[i] = CloseOrRemember(s.rev, a[i - 1], order[i])
  <2>1. GoesOn(a, s, order, n)
    BY <1>2, <1>5, RunsAre
  <2> QED
    BY <2>1 DEF GoesOn
<1> DEFINE Gone(k) == {order[j] : j \in 1..k}
           Holding(k) ==
               /\ Fine(a[k], s)
               /\ DOMAIN a[k].terminals \subseteq DOMAIN s.terminals
               /\ DOMAIN s.terminals \ DOMAIN a[k].terminals \subseteq Gone(k)
           T == {k \in 0..n : Holding(k)}
<1>7. 0 \in T
  <2>1. /\ Fine(a[0], s) /\ DOMAIN a[0].terminals = DOMAIN s.terminals
    BY <1>6, PumpedIs
  <2> QED
    BY <1>2, <2>1
<1>8. ASSUME NEW k \in Nat, k < n /\ k \in T PROVE k + 1 \in T
  <2>0. /\ k + 1 \in 1..n /\ k + 1 \in 0..n /\ (k + 1) - 1 = k
        /\ \A j \in 1..k : j \in 1..n /\ j \in 1..(k + 1) /\ j # k + 1
        /\ k + 1 \in 1..(k + 1)
    BY <1>2, <1>8
  <2>1. Holding(k)
    BY <1>8
  <2> DEFINE x == order[k + 1]
  <2>2. a[k + 1] = CloseOrRemember(s.rev, a[k], x)
    BY <1>6, <2>0
  <2>3. x \in DOMAIN s.terminals /\ x \notin Gone(k)
    BY <1>1, <1>3, <2>0
  <2>4. x \in DOMAIN a[k].terminals
    BY <2>1, <2>3
  <2>5. Gone(k) \subseteq Gone(k + 1) /\ x \in Gone(k + 1)
    BY <2>0
  <2> HIDE DEF x, Gone
  <2>6. SessionOK(a[k]) /\ Grown(a[k], s)
    BY <2>1 DEF Fine
  <2>7. s.rev \in Nat
    BY DEF SessionOK, Laid
  <2>8. /\ Fine(a[k + 1], a[k])
        /\ DOMAIN a[k + 1].terminals \in {DOMAIN a[k].terminals,
                                          DOMAIN a[k].terminals \ {x}}
    BY <2>2, <2>4, <2>6, <2>7, CloseOrRememberIs
  <2>9. Fine(a[k + 1], s)
    BY <2>6, <2>8, GrownOn DEF Fine
  <2>10. Holding(k + 1)
    BY <2>1, <2>5, <2>8, <2>9
  <2> QED
    BY <2>0, <2>10
<1>9. n \in T
  <2> HIDE DEF T
  <2>1. 0..n \subseteq T
    BY <1>2, <1>7, <1>8, Induction
  <2> QED
    BY <1>2, <2>1
<1>10. /\ new = a[n] /\ Holding(n)
  BY <1>4, <1>9 DEF a
<1>11. Gone(n) \subseteq C
  BY <1>3
<1> QED
  BY <1>1, <1>10, <1>11

-----------------------------------------------------------------------------
(* Layouts.                                                                 *)
LEMMA WithinMore ==
    ASSUME NEW tab, NEW N \in Nat, NEW M \in Nat, N <= M, Within(tab, N)
    PROVE  Within(tab, M)
<1>1. PICK level \in [DOMAIN tab.nodes -> 0..N] : Rises(tab, level)
  BY DEF Within
<1>2. level \in [DOMAIN tab.nodes -> 0..M]
  <2>1. 0..N \subseteq 0..M
    OBVIOUS
  <2> QED
    BY <2>1
<1> QED
  BY <1>1, <1>2 DEF Within

(* The greatest of finitely many numbers.                                   *)
LEMMA MaxIs ==
    ASSUME NEW S \in SUBSET Nat, IsFiniteSet(S), S # {}
    PROVE  /\ Max(S) \in S /\ Max(S) \in Nat
           /\ \A y \in S : y <= Max(S)
<1>1. \E x \in S : \A y \in S : x >= y
  BY GreatestExists
<1>2. Max(S) \in S /\ \A y \in S : Max(S) >= y
  BY <1>1 DEF Max
<1>3. \A a, b \in Nat : a >= b => b <= a
  OBVIOUS
<1> QED
  BY <1>2, <1>3

(* What a Session keeps while a layout grows in it.                         *)
Extends(x, s) ==
    /\ SessionOK(x) /\ x.rev = s.rev /\ s.serial <= x.serial
    /\ s.nextTerminal <= x.nextTerminal
    /\ TerminalsOf(s.tabs) \subseteq TerminalsOf(x.tabs)

(* The layout's Space after steps that added a tabs, the last b of them     *)
(* splits: no more than b splits are in its newest tab.                     *)
SmallTab(tab, b) == Within(tab, b) /\ Cardinality(DOMAIN tab.panes) <= b + 1

Newest(x, sp, a, b) ==
    /\ sp \in DOMAIN x.spaces /\ Cardinality(x.spaces[sp]) <= a + 1
    /\ \E t \in x.spaces[sp] :
          /\ \A u \in x.spaces[sp] : u <= t
          /\ t \in DOMAIN x.tabs /\ SmallTab(x.tabs[t], b)

(* Extending twice is extending.                                            *)
LEMMA ExtendsOn ==
    ASSUME NEW a, NEW b, NEW c, SessionOK(a), Extends(b, a), Extends(c, b)
    PROVE  Extends(c, a)
<1>1. \A i, j, k \in Nat : i <= j /\ j <= k => i <= k
  OBVIOUS
<1>2. /\ a.serial \in Nat /\ b.serial \in Nat /\ c.serial \in Nat
      /\ a.nextTerminal \in Nat /\ b.nextTerminal \in Nat
      /\ c.nextTerminal \in Nat
  BY DEF Extends, SessionOK, Laid
<1>3. a.serial <= c.serial /\ a.nextTerminal <= c.nextTerminal
  BY <1>1, <1>2 DEF Extends
<1> QED
  BY <1>3 DEF Extends

(* The tabs of a Session are tabs.                                          *)
LEMMA TabOf ==
    ASSUME NEW x, SessionOK(x), NEW t \in DOMAIN x.tabs
    PROVE  /\ TabOK(x.tabs[t], x.serial, x.nextTerminal)
           /\ Cardinality(DOMAIN x.tabs[t].panes) \in Nat
<1>1. TabOK(x.tabs[t], x.serial, x.nextTerminal)
  BY DEF SessionOK, Laid, TabsOK
<1> QED
  BY <1>1, PanesType

(* What comes with a terminal extends the Session it is for.                *)
LEMMA GainsExtend ==
    ASSUME NEW x, SessionOK(x), NEW mid, NEW value, Awaits(mid, x, value),
           mid.nextTerminal = x.nextTerminal + 1,
           NEW new, Laid(new), Gains(new, mid, value)
    PROVE  Extends(new, x)
<1>1. SessionOK(new) /\ new.rev = x.rev
  BY Settled
<1>2. x.nextTerminal \in Nat /\ x.serial \in Nat
  BY DEF SessionOK, Laid
<1>3. /\ x.nextTerminal <= new.nextTerminal
  <2>1. new.nextTerminal = x.nextTerminal + 1
    BY DEF Gains, Same
  <2> QED
    BY <1>2, <2>1
<1>4. x.serial <= new.serial
  BY DEF Gains, Same, Awaits
<1>5. TerminalsOf(x.tabs) \subseteq TerminalsOf(new.tabs)
  BY DEF Gains, Awaits
<1> QED
  BY <1>1, <1>3, <1>4, <1>5 DEF Extends

(* The Space a layout begins with has one tab of one pane.                  *)
LEMMA LayoutStarts ==
    ASSUME NEW s, SessionOK(s), Room(s),
           Cardinality(DOMAIN s.spaces) < MaxSpaces,
           NEW new, new = AddSpace(Supplied(s, "server"), NewPane(s, "server"))
    PROVE  Extends(new, s) /\ Newest(new, s.serial, 0, 0)
<1> DEFINE mid == WithTerminal(s)
           value == Pane(s.nextTerminal, 0)
           n == s.serial
<1>1. new = AddSpace(mid, value)
  BY DEF Supplied, NewPane
<1>2. Awaits(mid, s, value) /\ mid.nextTerminal = s.nextTerminal + 1
  BY AwaitsTerminal
<1> HIDE DEF mid, value
<1>3. /\ Laid(mid) /\ Fresh(mid, value) /\ mid.spaces = s.spaces
      /\ mid.serial = n /\ mid.tabs = s.tabs
  BY <1>2 DEF Awaits
<1>4. SpaceAdded(new, mid, value)
  BY <1>1, <1>3, AddSpaceLaid
<1>5. /\ Laid(new) /\ Gains(new, mid, value)
      /\ new.spaces = With(s.spaces, n, {n + 3})
      /\ Joined(new.tabs, s.tabs, n + 3, NewTab(n + 1, value, n + 2))
  BY <1>3, <1>4 DEF SpaceAdded
<1>6. Extends(new, s)
  BY <1>2, <1>5, GainsExtend
<1>7. /\ n \in DOMAIN new.spaces /\ new.spaces[n] = {n + 3}
      /\ n + 3 \in DOMAIN new.tabs
      /\ new.tabs[n + 3] = NewTab(n + 1, value, n + 2)
  BY <1>5 DEF With, Joined
<1>8. SmallTab(new.tabs[n + 3], 0)
  <2>1. n + 1 \in Nat /\ (n + 1) + 1 = n + 2 /\ mid.nextTerminal \in Nat
    BY <1>3 DEF Laid
  <2>2. value \in PaneType /\ value.terminal < mid.nextTerminal
    BY <1>3 DEF Fresh
  <2> DEFINE m == n + 1
             tab == NewTab(m, value, m + 1)
  <2>3. tab = new.tabs[n + 3]
    BY <1>7, <2>1
  <2>4. DOMAIN tab.panes = {m} /\ Within(tab, 0)
    <3> HIDE DEF m, tab
    <3> QED
      BY <2>1, <2>2, NewTabIs DEF tab, m
  <2>5. Cardinality({m}) = 1
    BY FS_Singleton
  <2> HIDE DEF m, tab
  <2>6. Cardinality(DOMAIN tab.panes) <= 0 + 1
    BY <2>4, <2>5
  <2> QED
    BY <2>3, <2>4, <2>6 DEF SmallTab
<1>9. Cardinality({n + 3}) <= 0 + 1
  <2>1. Cardinality({n + 3}) = 1
    BY FS_Singleton
  <2> QED
    BY <2>1
<1>10. n + 3 <= n + 3
  <2>1. n \in Nat
    BY DEF SessionOK, Laid
  <2> QED
    BY <2>1
<1>11. Newest(new, n, 0, 0)
  BY <1>7, <1>8, <1>9, <1>10 DEF Newest
<1> QED
  BY <1>6, <1>11

(* A step that adds a tab.                                                  *)
LEMMA LayoutTab ==
    ASSUME NEW x, SessionOK(x), Room(x), NEW sp, NEW a \in Nat, NEW b,
           Newest(x, sp, a, b), a + 1 < MaxTabs,
           NEW new, new = AddTab(WithTerminal(x), sp, Pane(x.nextTerminal, 0))
    PROVE  Extends(new, x) /\ Newest(new, sp, a + 1, 0)
<1> DEFINE mid == WithTerminal(x)
           value == Pane(x.nextTerminal, 0)
           n == x.serial
<1>1. new = AddTab(mid, sp, value)
  OBVIOUS
<1>2. Awaits(mid, x, value) /\ mid.nextTerminal = x.nextTerminal + 1
  BY AwaitsTerminal
<1> HIDE DEF mid, value
<1>3. /\ Laid(mid) /\ Fresh(mid, value) /\ mid.spaces = x.spaces
      /\ mid.serial = n /\ mid.tabs = x.tabs
  BY <1>2 DEF Awaits
<1>4. /\ sp \in DOMAIN x.spaces /\ IsFiniteSet(x.spaces[sp])
      /\ Cardinality(x.spaces[sp]) \in Nat
      /\ Cardinality(x.spaces[sp]) <= a + 1 /\ x.spaces[sp] \subseteq DOMAIN x.tabs
      /\ \A u \in x.spaces[sp] : u \in Nat /\ u < n
  <2>1. /\ SpacesOK(x.spaces, DOMAIN x.tabs, x.serial) /\ IsFiniteSet(DOMAIN x.tabs)
        /\ DOMAIN x.tabs \subseteq Nat /\ \A u \in DOMAIN x.tabs : u < x.serial
    BY TabsFinite DEF SessionOK, Laid
  <2>2. sp \in DOMAIN x.spaces /\ Cardinality(x.spaces[sp]) <= a + 1
    BY DEF Newest
  <2> QED
    BY <2>1, <2>2, SpaceFinite
<1>5. TabAdded(new, mid, sp, value)
  <2>1. Cardinality(mid.spaces[sp]) < MaxTabs
    BY <1>3, <1>4, SessionTreeAssumption
  <2>2. sp \in DOMAIN mid.spaces
    BY <1>3, <1>4
  <2> QED
    BY <1>1, <1>3, <2>1, <2>2, AddTabLaid
<1>6. /\ Laid(new) /\ Gains(new, mid, value)
      /\ new.spaces = [x.spaces EXCEPT ![sp] = @ \cup {n + 2}]
      /\ Joined(new.tabs, x.tabs, n + 2, NewTab(n, value, n + 1))
  BY <1>3, <1>5 DEF TabAdded
<1>7. Extends(new, x)
  BY <1>2, <1>6, GainsExtend
<1>8. /\ sp \in DOMAIN new.spaces /\ new.spaces[sp] = x.spaces[sp] \cup {n + 2}
      /\ n + 2 \in DOMAIN new.tabs
      /\ new.tabs[n + 2] = NewTab(n, value, n + 1)
      /\ \A t \in DOMAIN x.tabs : t \in DOMAIN new.tabs /\ new.tabs[t] = x.tabs[t]
  BY <1>4, <1>6 DEF Joined
<1>9. SmallTab(new.tabs[n + 2], 0)
  <2>1. n \in Nat /\ mid.nextTerminal \in Nat
    BY <1>3 DEF Laid
  <2>2. value \in PaneType /\ value.terminal < mid.nextTerminal
    BY <1>3 DEF Fresh
  <2> DEFINE tab == NewTab(n, value, n + 1)
  <2>4. DOMAIN tab.panes = {n} /\ Within(tab, 0)
    <3> HIDE DEF tab, n
    <3> QED
      BY <2>1, <2>2, NewTabIs DEF tab
  <2>5. Cardinality({n}) = 1
    BY FS_Singleton
  <2>6. new.tabs[n + 2] = tab
    BY <1>8
  <2> HIDE DEF tab, n
  <2> QED
    BY <2>4, <2>5, <2>6 DEF SmallTab
<1>10. \A u \in new.spaces[sp] : u <= n + 2
  <2>1. n \in Nat
    BY <1>3 DEF Laid
  <2>2. \A u \in x.spaces[sp] : u <= n + 2
    BY <1>4, <2>1
  <2> QED
    BY <1>8, <2>1, <2>2
<1>11. Cardinality(new.spaces[sp]) <= a + 1 + 1
  <2> DEFINE S == x.spaces[sp]
             c == Cardinality(S)
  <2>1. IsFiniteSet(S) /\ c \in Nat /\ c <= a + 1
    BY <1>4
  <2>2. new.spaces[sp] = S \cup {n + 2}
    BY <1>8
  <2> HIDE DEF S
  <2>3. Cardinality(S \cup {n + 2}) \in {c, c + 1}
    BY <2>1, FS_AddElement
  <2> HIDE DEF c
  <2>4. c <= a + 1 + 1 /\ c + 1 <= a + 1 + 1
    BY <2>1
  <2> QED
    BY <2>2, <2>3, <2>4
<1>12. Newest(new, sp, a + 1, 0)
  BY <1>4, <1>8, <1>9, <1>10, <1>11 DEF Newest
<1> QED
  BY <1>7, <1>12

(* A step that splits the newest pane: there is room in the tab and in the  *)
(* tree, since the layout is valid.                                         *)
LEMMA LayoutSplit ==
    ASSUME NEW x, SessionOK(x), Room(x), NEW sp, NEW a \in Nat,
           NEW b \in Nat, Newest(x, sp, a, b), b + 1 < MaxPanes, b < MaxDepth,
           NEW t, t = Max(x.spaces[sp]),
           NEW pane, pane = Max(DOMAIN x.tabs[t].panes),
           NEW new, new = AddPane(WithTerminal(x), t, pane,
                                  Pane(x.nextTerminal, 0))
    PROVE  Extends(new, x) /\ Newest(new, sp, a, b + 1)
<1> DEFINE mid == WithTerminal(x)
           value == Pane(x.nextTerminal, 0)
           tab == x.tabs[t]
           other == x.serial
<1>1. new = AddPane(mid, t, pane, value)
  OBVIOUS
<1>2. Awaits(mid, x, value) /\ mid.nextTerminal = x.nextTerminal + 1
  BY AwaitsTerminal
<1> HIDE DEF mid, value
<1>3. /\ Laid(mid) /\ Fresh(mid, value) /\ mid.spaces = x.spaces
      /\ mid.tabs = x.tabs /\ mid.serial = other
  BY <1>2 DEF Awaits
<1>4. /\ sp \in DOMAIN x.spaces /\ IsFiniteSet(x.spaces[sp])
      /\ Cardinality(x.spaces[sp]) <= a + 1 /\ Cardinality(x.spaces[sp]) \in Nat
      /\ x.spaces[sp] \subseteq Nat /\ x.spaces[sp] # {}
  <2>1. /\ SpacesOK(x.spaces, DOMAIN x.tabs, x.serial)
        /\ IsFiniteSet(DOMAIN x.tabs) /\ DOMAIN x.tabs \subseteq Nat
    BY TabsFinite DEF SessionOK, Laid
  <2>2. sp \in DOMAIN x.spaces /\ Cardinality(x.spaces[sp]) <= a + 1
    BY DEF Newest
  <2>3. x.spaces[sp] # {}
    <3>1. Cardinality(x.spaces[sp]) # 0
      BY <2>1, <2>2 DEF SpacesOK
    <3> QED
      BY <3>1, FS_EmptySet
  <2> QED
    BY <2>1, <2>2, <2>3, SpaceFinite
<1>5. t \in x.spaces[sp] /\ \A u \in x.spaces[sp] : u <= t
  BY <1>4, MaxIs
<1>6. /\ t \in DOMAIN x.tabs /\ SmallTab(tab, b)
  <2>1. PICK u \in x.spaces[sp] : /\ \A v \in x.spaces[sp] : v <= u
                                  /\ u \in DOMAIN x.tabs
                                  /\ SmallTab(x.tabs[u], b)
    BY DEF Newest
  <2>2. u \in Nat /\ t \in Nat /\ u <= t /\ t <= u
    BY <1>4, <1>5, <2>1
  <2>3. u = t
    BY <2>2
  <2> QED
    BY <2>1, <2>3
<1>7. /\ TabOK(tab, x.serial, x.nextTerminal)
      /\ Cardinality(DOMAIN tab.panes) \in Nat
      /\ Holds(tab, DOMAIN tab.panes) /\ DOMAIN tab.panes \in SUBSET Nat
      /\ IsFiniteSet(DOMAIN tab.panes)
  BY <1>6, TabOf, PanesType
<1>8. pane \in DOMAIN tab.panes
  <2>1. DOMAIN tab.panes # {}
    <3>1. Cardinality(DOMAIN tab.panes) # 0
      <4>1. Cardinality(DOMAIN tab.panes) \in 1..MaxPanes
        BY <1>7 DEF TabOK
      <4> QED
        BY <4>1
    <3> QED
      BY <3>1, FS_EmptySet
  <2> QED
    BY <1>7, <2>1, MaxIs
<1> HIDE DEF tab, other
<1>9. CanSplit(tab, pane)
  <2>1. LeafOf(tab, pane) \in DOMAIN tab.nodes /\ IsTree(tab)
    BY <1>7, <1>8, LeafIs DEF Holds
  <2>2. Depth(tab, LeafOf(tab, pane)) \in 0..b
    BY <1>6, <2>1, DepthLeast DEF SmallTab
  <2> QED
    BY <2>2, SessionTreeAssumption DEF CanSplit
<1>10. Cardinality(DOMAIN tab.panes) < MaxPanes
  BY <1>6, <1>7, SessionTreeAssumption DEF SmallTab
<1>11. PaneIn(new, mid, t, other, other + 3, value)
  <2>1. /\ t \in DOMAIN mid.tabs /\ pane \in DOMAIN mid.tabs[t].panes
        /\ Cardinality(DOMAIN mid.tabs[t].panes) < MaxPanes
        /\ CanSplit(mid.tabs[t], pane)
    BY <1>3, <1>6, <1>8, <1>9, <1>10 DEF tab
  <2> QED
    BY <1>1, <1>3, <2>1, AddPaneLaid
<1>12. /\ Laid(new) /\ Gains(new, mid, value) /\ new.spaces = x.spaces
       /\ Grows(new.tabs, x.tabs, t, new.tabs[t], value)
       /\ new.tabs[t].panes = With(tab.panes, other, value)
       /\ Within(tab, b) => Within(new.tabs[t], b + 1)
  BY <1>3, <1>11 DEF PaneIn, tab
<1>13. Extends(new, x)
  BY <1>2, <1>12, GainsExtend
<1>14. SmallTab(new.tabs[t], b + 1)
  <2>1. DOMAIN new.tabs[t].panes = DOMAIN tab.panes \cup {other}
    BY <1>12 DEF With
  <2>2. /\ Cardinality(DOMAIN tab.panes \cup {other})
              <= Cardinality(DOMAIN tab.panes) + 1
        /\ Cardinality(DOMAIN tab.panes \cup {other}) \in Nat
    <3>1. Cardinality(DOMAIN tab.panes \cup {other})
             \in {Cardinality(DOMAIN tab.panes), Cardinality(DOMAIN tab.panes) + 1}
      BY <1>7, FS_AddElement
    <3> QED
      BY <1>7, <3>1
  <2>3. Cardinality(DOMAIN tab.panes) <= b + 1
    BY <1>6 DEF SmallTab
  <2>4. Cardinality(DOMAIN tab.panes \cup {other}) <= b + 1 + 1
    BY <1>7, <2>2, <2>3
  <2>5. Cardinality(DOMAIN new.tabs[t].panes) <= b + 1 + 1
    BY <2>1, <2>4
  <2> QED
    BY <1>6, <1>12, <2>5 DEF SmallTab
<1>15. t \in DOMAIN new.tabs
  BY <1>6, <1>12 DEF Grows
<1>16. Newest(new, sp, a, b + 1)
  BY <1>4, <1>5, <1>12, <1>14, <1>15 DEF Newest
<1> QED
  BY <1>13, <1>16

(* A step that fails used up numbers at most.                               *)
LEMMA UsedUpExtends ==
    ASSUME NEW s, SessionOK(s), NEW a \in Nat, NEW b \in Nat,
           NEW new, new = UsedUp(s, a, b)
    PROVE  Extends(new, s)
<1>1. Fields(s) /\ s.serial \in Nat /\ s.nextTerminal \in Nat
  BY DEF SessionOK, Laid
<1>2. /\ new.rev = s.rev /\ new.tabs = s.tabs
      /\ new.serial = s.serial + a /\ new.nextTerminal = s.nextTerminal + b
  BY <1>1 DEF UsedUp, Fields
<1>3. s.serial <= new.serial /\ s.nextTerminal <= new.nextTerminal
  BY <1>1, <1>2
<1>4. SessionOK(new)
  BY UsedUpOK
<1> QED
  BY <1>2, <1>3, <1>4 DEF Extends

(* One step of a layout.                                                    *)
Reached(x, y, sp, a, b) ==
    /\ y = [ok |-> y.ok, s |-> y.s] /\ y.ok \in BOOLEAN
    /\ Extends(y.s, x)
    /\ y.ok => Newest(y.s, sp, a, b)

(* Every step of a valid layout takes its Space a tab or a split further,   *)
(* or fails and keeps what was reached.                                     *)
LEMMA LayoutStepIs ==
    ASSUME NEW x, SessionOK(x), NEW sp, NEW a \in Nat, NEW b \in Nat, NEW y,
           Reached(x, y, sp, a, b), NEW step \in {"tab", "split"},
           step = "tab" => a + 1 < MaxTabs,
           step = "split" => b + 1 < MaxPanes /\ b < MaxDepth,
           NEW new, new = LayoutStep(sp, y, step)
    PROVE  Reached(x, new, sp, IF step = "tab" THEN a + 1 ELSE a,
                   IF step = "tab" THEN 0 ELSE b + 1)
<1> DEFINE s == y.s
<1>1. SessionOK(s) /\ Extends(s, x) /\ y.ok \in BOOLEAN
      /\ (y.ok => Newest(s, sp, a, b))
  BY DEF Reached, Extends
<1>2. CASE ~y.ok
  <2>1. new = y
    BY <1>2 DEF LayoutStep
  <2> QED
    BY <1>2, <2>1 DEF Reached
<1>3. CASE y.ok /\ ~Room(s)
  <2> DEFINE c == IF step = "tab" THEN 3 ELSE 1
  <2>1. new = [ok |-> FALSE, s |-> UsedUp(s, c, 1)]
    BY <1>3 DEF LayoutStep
  <2>2. c \in Nat
    OBVIOUS
  <2> HIDE DEF c, s
  <2>3. Extends(UsedUp(s, c, 1), s)
    BY <1>1, <2>2, UsedUpExtends
  <2>4. Extends(UsedUp(s, c, 1), x)
    BY <1>1, <2>3, ExtendsOn
  <2> QED
    BY <2>1, <2>4 DEF Reached
<1>4. CASE y.ok /\ Room(s)
  <2> DEFINE value == Pane(s.nextTerminal, 0)
             mid == WithTerminal(s)
             t == Max(s.spaces[sp])
             pane == Max(DOMAIN s.tabs[t].panes)
  <2>1. mid.spaces = s.spaces /\ mid.tabs = s.tabs
    <3>1. Awaits(mid, s, value)
      BY <1>1, <1>4, AwaitsTerminal
    <3> QED
      BY <3>1 DEF Awaits
  <2>2. new = [ok |-> TRUE, s |-> IF step = "tab" THEN AddTab(mid, sp, value)
                                  ELSE AddPane(mid, t, pane, value)]
    BY <1>4, <2>1 DEF LayoutStep
  <2>3. CASE step = "tab"
    <3>1. /\ Extends(AddTab(mid, sp, value), s)
          /\ Newest(AddTab(mid, sp, value), sp, a + 1, 0)
      <4>1. a + 1 < MaxTabs
        BY <2>3
      <4> QED
        BY <1>1, <1>4, <4>1, LayoutTab
    <3> HIDE DEF mid, value, s
    <3>2. Extends(AddTab(mid, sp, value), x)
      BY <1>1, <3>1, ExtendsOn
    <3> QED
      BY <2>2, <2>3, <3>1, <3>2 DEF Reached
  <2>4. CASE step # "tab"
    <3>1. /\ Extends(AddPane(mid, t, pane, value), s)
          /\ Newest(AddPane(mid, t, pane, value), sp, a, b + 1)
      <4>1. b + 1 < MaxPanes /\ b < MaxDepth
        BY <2>4
      <4>2. Newest(s, sp, a, b) /\ SessionOK(s) /\ Room(s)
        BY <1>1, <1>4
      <4> QED
        BY <4>1, <4>2, LayoutSplit
    <3> HIDE DEF mid, value, s, t, pane
    <3>2. Extends(AddPane(mid, t, pane, value), x)
      BY <1>1, <3>1, ExtendsOn
    <3> QED
      BY <2>2, <2>4, <3>1, <3>2 DEF Reached
  <2> QED
    BY <2>3, <2>4
<1> QED
  BY <1>1, <1>2, <1>3, <1>4

(* The steps of a layout, one after the other.                              *)
LayoutTurn(sp, base, plan, sofar, i) ==
    IF i = 0 THEN base ELSE LayoutStep(sp, sofar[i - 1], plan[i])

Lays(a, sp, base, plan, n) ==
    a = [i \in 0..n |-> LayoutTurn(sp, base, plan, a, i)]

LayoutOf(sp, base, plan) == CHOOSE a : Lays(a, sp, base, plan, Len(plan))

LaysOn(a, sp, base, plan, n) ==
    /\ a = [i \in 0..n |-> a[i]] /\ a[0] = base
    /\ \A i \in 1..n : a[i] = LayoutStep(sp, a[i - 1], plan[i])

(* The steps of a layout, one by one.                                       *)
LEMMA LaysAre ==
    ASSUME NEW sp, NEW base, NEW plan, NEW n \in Nat, NEW a
    PROVE  Lays(a, sp, base, plan, n) <=> LaysOn(a, sp, base, plan, n)
<1>1. /\ 0 \in 0..n /\ \A i \in 1..n : i \in 0..n /\ i # 0
      /\ \A i \in 0..n : i # 0 => i \in 1..n
  OBVIOUS
<1>2. ASSUME Lays(a, sp, base, plan, n)
      PROVE  /\ a = [i \in 0..n |-> a[i]] /\ a[0] = base
             /\ \A i \in 1..n : a[i] = LayoutStep(sp, a[i - 1], plan[i])
  <2>1. a = [i \in 0..n |-> LayoutTurn(sp, base, plan, a, i)]
    BY <1>2 DEF Lays
  <2>2. \A i \in 0..n : a[i] = LayoutTurn(sp, base, plan, a, i)
    BY <2>1
  <2> QED
    BY <1>1, <2>1, <2>2 DEF LayoutTurn
<1>3. ASSUME a = [i \in 0..n |-> a[i]], a[0] = base,
             \A i \in 1..n : a[i] = LayoutStep(sp, a[i - 1], plan[i])
      PROVE  Lays(a, sp, base, plan, n)
  <2>1. \A i \in 0..n : a[i] = LayoutTurn(sp, base, plan, a, i)
    BY <1>1, <1>3 DEF LayoutTurn
  <2>2. [i \in 0..n |-> a[i]]
           = [i \in 0..n |-> LayoutTurn(sp, base, plan, a, i)]
    BY <2>1
  <2> QED
    BY <1>3, <2>2 DEF Lays
<1> QED
  BY <1>2, <1>3 DEF LaysOn

(* The recursion over the steps has a solution.                             *)
LEMMA LayoutExists ==
    ASSUME NEW sp, NEW base, NEW plan, NEW n \in Nat
    PROVE  \E a : Lays(a, sp, base, plan, n)
<1> DEFINE Step(x, i) == LayoutStep(sp, x, plan[i])
           Upto(a, k) == /\ a = [i \in 0..k |-> a[i]] /\ a[0] = base
                         /\ \A i \in 1..k : a[i] = Step(a[i - 1], i)
           T == {k \in 0..n : \E a : Upto(a, k)}
<1> HIDE DEF Step
<1>1. 0 \in T
  <2> DEFINE a == [i \in 0..0 |-> base]
  <2>1. Upto(a, 0)
    OBVIOUS
  <2>2. 0 \in 0..n
    OBVIOUS
  <2> HIDE DEF a
  <2> QED
    BY <2>1, <2>2
<1>2. ASSUME NEW k \in Nat, k < n /\ k \in T PROVE k + 1 \in T
  <2>1. PICK a : Upto(a, k)
    BY <1>2
  <2> DEFINE b == [i \in 0..(k + 1) |-> IF i = k + 1 THEN Step(a[k], k + 1)
                                       ELSE a[i]]
  <2>2. /\ 0 \in 0..(k + 1) /\ 0 # k + 1 /\ k + 1 \in 0..n
        /\ \A i \in 1..(k + 1) :
              /\ i \in 0..(k + 1) /\ i - 1 \in 0..(k + 1) /\ i - 1 # k + 1
              /\ i # k + 1 => i \in 1..k
        /\ (k + 1) - 1 = k
    BY <1>2
  <2>3. /\ b[0] = a[0]
        /\ \A i \in 1..(k + 1) : b[i - 1] = a[i - 1]
        /\ \A i \in 1..(k + 1) :
              b[i] = IF i = k + 1 THEN Step(a[k], k + 1) ELSE a[i]
    BY <2>2
  <2>4. b = [i \in 0..(k + 1) |-> b[i]]
    OBVIOUS
  <2> HIDE DEF b
  <2>5. \A i \in 1..(k + 1) : b[i] = Step(b[i - 1], i)
    BY <2>1, <2>2, <2>3
  <2>6. Upto(b, k + 1)
    BY <2>1, <2>3, <2>4, <2>5
  <2> QED
    BY <2>2, <2>6
<1>3. n \in T
  <2> HIDE DEF T
  <2>1. 0..n \subseteq T
    BY <1>1, <1>2, Induction
  <2> QED
    BY <2>1
<1>4. PICK a : Upto(a, n)
  BY <1>3
<1>5. Lays(a, sp, base, plan, n)
  BY <1>4, LaysAre DEF Step, LaysOn
<1> QED
  BY <1>5

(* A layout that fails is undone.                                           *)
LEMMA RollbackFine ==
    ASSUME NEW s, SessionOK(s), NEW x, Extends(x, s),
           NEW new, new = Rollback(s, x)
    PROVE  Fine(new, s)
<1> DEFINE D == DOMAIN x.terminals \ (TerminalsOf(x.tabs) \ TerminalsOf(s.tabs))
<1>1. /\ Fields(s) /\ s.rev \in Nat \ {0} /\ s.serial \in Nat
      /\ s.nextTerminal \in Nat \ {0} /\ TabsOK(s.tabs, s.serial, s.nextTerminal)
      /\ SpacesOK(s.spaces, DOMAIN s.tabs, s.serial)
      /\ DOMAIN s.terminals = TerminalsOf(s.tabs) /\ Kept(s)
  BY DEF SessionOK, Laid
<1>2. /\ x.serial \in Nat /\ x.nextTerminal \in Nat \ {0}
      /\ s.serial <= x.serial /\ s.nextTerminal <= x.nextTerminal
      /\ TerminalsOf(s.tabs) \subseteq TerminalsOf(x.tabs)
      /\ DOMAIN x.terminals = TerminalsOf(x.tabs) /\ Kept(x)
  BY DEF Extends, SessionOK, Laid
<1>3. /\ Fields(new) /\ new.rev = s.rev /\ new.spaces = s.spaces
      /\ new.tabs = s.tabs /\ new.serial = x.serial
      /\ new.nextTerminal = x.nextTerminal
      /\ new.terminals = Restrict(x.terminals, D)
  BY <1>1 DEF Rollback, Fields
<1>4. D = TerminalsOf(s.tabs) /\ D \subseteq DOMAIN x.terminals
  BY <1>2
<1> HIDE DEF D
<1>5. /\ DOMAIN new.terminals = TerminalsOf(s.tabs)
      /\ \A t \in DOMAIN new.terminals :
            t \in DOMAIN x.terminals /\ new.terminals[t] = x.terminals[t]
  BY <1>3, <1>4, RestrictIs
<1>6. Laid(new)
  <2>1. TabsOK(s.tabs, x.serial, x.nextTerminal)
    BY <1>1, <1>2, TabsMore
  <2>2. SpacesOK(s.spaces, DOMAIN s.tabs, x.serial)
    BY <1>1, <1>2, SpacesMore
  <2> QED
    BY <1>1, <1>2, <1>3, <2>1, <2>2 DEF Laid
<1>7. Kept(new)
  <2>1. /\ IsFiniteSet(DOMAIN s.terminals)
        /\ Cardinality(DOMAIN s.terminals) <= MaxTerminals
        /\ \A t \in DOMAIN x.terminals : x.terminals[t] \in TerminalType
    BY <1>1, <1>2 DEF Kept
  <2> QED
    BY <1>1, <1>5, <2>1 DEF Kept
<1>8. SessionOK(new)
  BY <1>3, <1>5, <1>6, <1>7 DEF SessionOK
<1>9. Grown(new, s)
  BY <1>1, <1>3 DEF Grown
<1> QED
  BY <1>8, <1>9 DEF Fine

(* The tabs among the first steps of a layout, and the splits they end with.*)
TabsUpTo(plan, k) == {i \in 1..k : plan[i] = "tab"}

Run(plan, k, b) == b \in 0..k /\ \A i \in (k - b + 1)..k : plan[i] = "split"

(* A layout has a number of steps.                                          *)
LEMMA PlanIs ==
    ASSUME NEW plan \in Layouts
    PROVE  /\ plan \in Seq({"tab", "split"}) /\ Len(plan) \in Nat
           /\ \A i \in 1..Len(plan) : plan[i] \in {"tab", "split"}
           /\ ValidLayout(plan) /\ DOMAIN plan = 1..Len(plan)
<1>1. ValidLayout(plan)
  BY SessionTreeAssumption
<1>2. plan \in Seq({"tab", "split"})
  BY <1>1 DEF ValidLayout
<1> QED
  BY <1>1, <1>2

(* The tabs so far are finitely many.                                       *)
LEMMA TabsCount ==
    ASSUME NEW plan, NEW k \in Nat
    PROVE  /\ IsFiniteSet(TabsUpTo(plan, k))
           /\ Cardinality(TabsUpTo(plan, k)) \in Nat
<1>1. IsFiniteSet(1..k)
  BY FS_Interval
<1>2. TabsUpTo(plan, k) \subseteq 1..k
  BY DEF TabsUpTo
<1> QED
  BY <1>1, <1>2, FS_Subset, FS_CardinalityType

(* A step that adds a tab: there is room for it, and no split yet.          *)
LEMMA TabStep ==
    ASSUME NEW plan \in Layouts, NEW k \in Nat, k < Len(plan),
           plan[k + 1] = "tab"
    PROVE  /\ Cardinality(TabsUpTo(plan, k + 1))
                  = Cardinality(TabsUpTo(plan, k)) + 1
           /\ Cardinality(TabsUpTo(plan, k)) + 1 < MaxTabs
           /\ Run(plan, k + 1, 0)
<1>1. /\ ValidLayout(plan) /\ DOMAIN plan = 1..Len(plan) /\ Len(plan) \in Nat
  BY PlanIs
<1>2. /\ k + 1 \in 1..Len(plan) /\ k + 1 \notin 1..k /\ k + 1 \in Nat
      /\ \A i : i \in 1..(k + 1) <=> i \in 1..k \/ i = k + 1
      /\ \A i \in 1..k : i \in 1..Len(plan)
  BY <1>1
<1> DEFINE S == TabsUpTo(plan, k)
           R == TabsUpTo(plan, k + 1)
<1>3. R = S \cup {k + 1} /\ k + 1 \notin S
  BY <1>2 DEF TabsUpTo
<1>4. R \subseteq TabsIn(plan)
  BY <1>1, <1>2 DEF TabsUpTo, TabsIn
<1>5. IsFiniteSet(S) /\ Cardinality(S) \in Nat
  BY TabsCount
<1>6. IsFiniteSet(TabsIn(plan))
  <2>1. IsFiniteSet(1..Len(plan))
    BY <1>1, FS_Interval
  <2>2. TabsIn(plan) \subseteq 1..Len(plan)
    BY <1>1 DEF TabsIn
  <2> QED
    BY <2>1, <2>2, FS_Subset
<1> HIDE DEF S, R
<1>7. Cardinality(R) = Cardinality(S) + 1
  BY <1>3, <1>5, FS_AddElement
<1>8. Cardinality(R) <= Cardinality(TabsIn(plan))
  BY <1>4, <1>6, FS_Subset
<1>9. Cardinality(R) < MaxTabs
  <2>1. Cardinality(TabsIn(plan)) \in Nat /\ Cardinality(TabsIn(plan)) < MaxTabs
    BY <1>1, <1>6, FS_CardinalityType DEF ValidLayout
  <2> QED
    BY <1>5, <1>7, <1>8, <2>1, SessionTreeAssumption
<1>10. Run(plan, k + 1, 0)
  BY <1>2 DEF Run
<1> QED
  BY <1>7, <1>9, <1>10 DEF S, R

(* A step that splits: the splits so far leave room for one more.           *)
LEMMA SplitStep ==
    ASSUME NEW plan \in Layouts, NEW k \in Nat, k < Len(plan),
           plan[k + 1] = "split", NEW b, Run(plan, k, b)
    PROVE  /\ TabsUpTo(plan, k + 1) = TabsUpTo(plan, k)
           /\ b \in Nat /\ b + 1 < MaxPanes /\ b < MaxDepth
           /\ Run(plan, k + 1, b + 1)
<1>1. /\ ValidLayout(plan) /\ DOMAIN plan = 1..Len(plan) /\ Len(plan) \in Nat
  BY PlanIs
<1>2. /\ b \in 0..k /\ b \in Nat /\ b <= k
      /\ \A i \in (k - b + 1)..k : plan[i] = "split"
  BY DEF Run
<1> DEFINE from == k - b + 1
<1>3. /\ from \in 1..Len(plan) /\ k + 1 \in 1..Len(plan) /\ from <= k + 1
      /\ (k + 1) - from + 1 = b + 1 /\ b + 1 \in 0..(k + 1)
      /\ (k + 1) - (b + 1) + 1 = from
      /\ \A i \in from..(k + 1) : i \in from..k \/ i = k + 1
  BY <1>1, <1>2
<1>4. \A i \in from..(k + 1) : plan[i] = "split"
  BY <1>2, <1>3
<1> HIDE DEF from
<1>5. b + 1 < MaxPanes /\ b + 1 <= MaxDepth
  <2>1. /\ (k + 1) - from + 1 < MaxPanes
        /\ (k + 1) - from + 1 <= MaxDepth
    BY <1>1, <1>3, <1>4 DEF ValidLayout
  <2> QED
    BY <1>3, <2>1
<1>6. b < MaxDepth
  BY <1>2, <1>5, SessionTreeAssumption
<1>7. Run(plan, k + 1, b + 1)
  BY <1>3, <1>4 DEF Run
<1>8. TabsUpTo(plan, k + 1) = TabsUpTo(plan, k)
  <2>1. \A i : i \in 1..(k + 1) <=> i \in 1..k \/ i = k + 1
    OBVIOUS
  <2> QED
    BY <2>1 DEF TabsUpTo
<1> QED
  BY <1>2, <1>5, <1>6, <1>7, <1>8

(* What the first k steps of a layout reach.                                *)
Halfway(plan, s, y, sp, k) ==
    \E b : /\ Run(plan, k, b)
           /\ Reached(s, y, sp, Cardinality(TabsUpTo(plan, k)), b)

(* It is reached one step after the other.                                  *)
LEMMA HalfwayOn ==
    ASSUME NEW plan \in Layouts, NEW s, SessionOK(s), NEW sp, NEW k \in Nat,
           k < Len(plan), NEW y, Halfway(plan, s, y, sp, k),
           NEW new, new = LayoutStep(sp, y, plan[k + 1])
    PROVE  Halfway(plan, s, new, sp, k + 1)
<1>1. PICK b : /\ Run(plan, k, b)
               /\ Reached(s, y, sp, Cardinality(TabsUpTo(plan, k)), b)
  BY DEF Halfway
<1>2. b \in Nat /\ k + 1 \in Nat
  BY <1>1 DEF Run
<1> DEFINE a == Cardinality(TabsUpTo(plan, k))
           c == Cardinality(TabsUpTo(plan, k + 1))
<1>3. a \in Nat
  BY TabsCount
<1>4. plan[k + 1] \in {"tab", "split"}
  <2>1. Len(plan) \in Nat /\ \A i \in 1..Len(plan) : plan[i] \in {"tab", "split"}
    BY PlanIs
  <2>2. k + 1 \in 1..Len(plan)
    BY <2>1
  <2> QED
    BY <2>1, <2>2
<1>5. CASE plan[k + 1] = "tab"
  <2>1. c = a + 1 /\ a + 1 < MaxTabs /\ Run(plan, k + 1, 0)
    BY <1>5, TabStep
  <2> HIDE DEF a, c
  <2>2. Reached(s, new, sp, a + 1, 0)
    <3>1. "tab" # "split"
      OBVIOUS
    <3>2. Reached(s, y, sp, a, b)
      BY <1>1 DEF a
    <3> QED
      BY <1>2, <1>3, <1>5, <2>1, <3>1, <3>2, LayoutStepIs
  <2> QED
    BY <2>1, <2>2 DEF Halfway, c
<1>6. CASE plan[k + 1] = "split"
  <2>1. c = a /\ b + 1 < MaxPanes /\ b < MaxDepth /\ Run(plan, k + 1, b + 1)
    BY <1>1, <1>6, SplitStep
  <2> HIDE DEF a, c
  <2>2. Reached(s, new, sp, a, b + 1)
    <3>1. "split" # "tab"
      OBVIOUS
    <3>2. Reached(s, y, sp, a, b)
      BY <1>1 DEF a
    <3> QED
      BY <1>2, <1>3, <1>6, <2>1, <3>1, <3>2, LayoutStepIs
  <2> QED
    BY <2>1, <2>2 DEF Halfway, c
<1> QED
  BY <1>4, <1>5, <1>6

(* A layout is applied as a whole, or rolled back: no terminal of it is     *)
(* left and the topology is the one before.                                 *)
LEMMA LayoutIs ==
    ASSUME NEW s, SessionOK(s), Room(s),
           Cardinality(DOMAIN s.spaces) < MaxSpaces, NEW plan \in Layouts,
           NEW start, start = AddSpace(Supplied(s, "server"),
                                       NewPane(s, "server")),
           NEW done, done = LayoutOf(s.serial, [ok |-> TRUE, s |-> start],
                                     plan)[Len(plan)],
           NEW new, new = IF done.ok THEN Bump(done.s)
                          ELSE Rollback(s, done.s)
    PROVE  Fine(new, s)
<1> DEFINE sp == s.serial
           base == [ok |-> TRUE, s |-> start]
           n == Len(plan)
           a == LayoutOf(sp, base, plan)
<1>1. Halfway(plan, s, base, sp, 0)
  <2>1. Extends(start, s) /\ Newest(start, sp, 0, 0)
    BY LayoutStarts
  <2>2. Reached(s, base, sp, 0, 0)
    BY <2>1 DEF Reached
  <2>3. TabsUpTo(plan, 0) = {} /\ Run(plan, 0, 0)
    BY DEF TabsUpTo, Run
  <2>4. Cardinality(TabsUpTo(plan, 0)) = 0
    BY <2>3, FS_EmptySet
  <2> HIDE DEF base, sp
  <2> QED
    BY <2>2, <2>3, <2>4 DEF Halfway
<1>2. n \in Nat
  BY PlanIs
<1> HIDE DEF base, n
<1>3. Lays(a, sp, base, plan, n)
  <2>1. \E b : Lays(b, sp, base, plan, n)
    BY <1>2, LayoutExists
  <2> QED
    BY <2>1 DEF LayoutOf, n
<1> HIDE DEF a
<1>4. /\ a[0] = base
      /\ \A i \in 1..n : a[i] = LayoutStep(sp, a[i - 1], plan[i])
  <2>1. LaysOn(a, sp, base, plan, n)
    BY <1>2, <1>3, LaysAre
  <2> QED
    BY <2>1 DEF LaysOn
<1> DEFINE T == {k \in 0..n : Halfway(plan, s, a[k], sp, k)}
<1>5. 0 \in T
  BY <1>1, <1>2, <1>4
<1>6. ASSUME NEW k \in Nat, k < n /\ k \in T PROVE k + 1 \in T
  <2>1. /\ k + 1 \in 1..n /\ k + 1 \in 0..n /\ (k + 1) - 1 = k
    BY <1>2, <1>6
  <2>2. k < Len(plan)
    BY <1>6 DEF n
  <2>3. a[k + 1] = LayoutStep(sp, a[k], plan[k + 1])
    BY <1>4, <2>1
  <2>4. Halfway(plan, s, a[k], sp, k)
    BY <1>6
  <2>5. Halfway(plan, s, a[k + 1], sp, k + 1)
    BY <2>2, <2>3, <2>4, HalfwayOn
  <2> QED
    BY <2>1, <2>5
<1>7. n \in T
  <2> HIDE DEF T
  <2>1. 0..n \subseteq T
    BY <1>2, <1>5, <1>6, Induction
  <2> QED
    BY <1>2, <2>1
<1>8. done = a[n]
  BY DEF a, base, n
<1>9. \E k, b : Reached(s, done, sp, k, b)
  BY <1>7, <1>8 DEF Halfway
<1>10. Extends(done.s, s) /\ SessionOK(done.s) /\ done.s.rev = s.rev
  BY <1>9 DEF Reached, Extends
<1>11. CASE done.ok
  BY <1>10, <1>11, Bumped
<1>12. CASE ~done.ok
  BY <1>10, <1>12, RollbackFine
<1> QED
  BY <1>11, <1>12

-----------------------------------------------------------------------------
(* Every action that changes the Session.                                   *)
LEMMA UsedUpFine ==
    ASSUME NEW s, SessionOK(s), NEW a \in Nat, NEW b \in Nat
    PROVE  Fine(UsedUp(s, a, b), s)
BY UsedUpOK DEF Fine

(* Creating a Space, also when there is no room for its terminal.           *)
LEMMA CreateSpaceFine ==
    ASSUME SessionOK(session), NEW domain \in Domains, CreateSpace(domain)
    PROVE  Fine(session', session)
<1>1. CASE domain = "server" /\ ~Room(session)
  <2>1. session' = UsedUp(session, 4, 1)
    BY <1>1 DEF CreateSpace
  <2> QED
    BY <2>1, UsedUpFine
<1>2. CASE ~(domain = "server" /\ ~Room(session))
  <2>1. /\ session' = Bump(AddSpace(Supplied(session, domain),
                                    NewPane(session, domain)))
        /\ Cardinality(DOMAIN session.spaces) < MaxSpaces
    BY <1>2 DEF CreateSpace
  <2>2. Awaits(Supplied(session, domain), session, NewPane(session, domain))
    BY <1>2, SuppliedAwaits
  <2> QED
    BY <2>1, <2>2, AddSpaceFine
<1> QED
  BY <1>1, <1>2

(* Creating a tab, also when there is no room for its terminal.             *)
LEMMA CreateTabFine ==
    ASSUME SessionOK(session), NEW space \in DOMAIN session.spaces,
           NEW domain \in Domains, CreateTab(space, domain)
    PROVE  Fine(session', session)
<1>1. CASE domain = "server" /\ ~Room(session)
  <2>1. session' = UsedUp(session, 3, 1)
    BY <1>1 DEF CreateTab
  <2> QED
    BY <2>1, UsedUpFine
<1>2. CASE ~(domain = "server" /\ ~Room(session))
  <2>1. /\ session' = Bump(AddTab(Supplied(session, domain), space,
                                  NewPane(session, domain)))
        /\ Cardinality(session.spaces[space]) < MaxTabs
    BY <1>2 DEF CreateTab
  <2>2. Awaits(Supplied(session, domain), session, NewPane(session, domain))
    BY <1>2, SuppliedAwaits
  <2> QED
    BY <2>1, <2>2, AddTabFine
<1> QED
  BY <1>1, <1>2

(* Splitting a pane, also when there is no room for its terminal.           *)
LEMMA SplitPaneFine ==
    ASSUME SessionOK(session), NEW t \in DOMAIN session.tabs,
           NEW pane \in DOMAIN session.tabs[t].panes, NEW domain,
           NEW owner \in Nat, SplitPane(t, pane, domain, owner)
    PROVE  Fine(session', session)
<1>1. /\ Cardinality(DOMAIN session.tabs[t].panes) < MaxPanes
      /\ CanSplit(session.tabs[t], pane)
  BY DEF SplitPane
<1>2. CASE domain = "local"
  <2>1. session' = Bump(AddPane(session, t, pane, Pane(0, owner)))
    BY <1>2 DEF SplitPane
  <2>2. Awaits(session, session, Pane(0, owner))
    BY AwaitsNone
  <2> QED
    BY <1>1, <2>1, <2>2, AddPaneFine
<1>3. CASE domain # "local" /\ Room(session)
  <2>1. session' = Bump(AddPane(WithTerminal(session), t, pane,
                                Pane(session.nextTerminal, 0)))
    BY <1>3 DEF SplitPane
  <2>2. Awaits(WithTerminal(session), session, Pane(session.nextTerminal, 0))
    BY <1>3, AwaitsTerminal
  <2> QED
    BY <1>1, <2>1, <2>2, AddPaneFine
<1>4. CASE domain # "local" /\ ~Room(session)
  <2>1. session' = UsedUp(session, 1, 1)
    BY <1>4 DEF SplitPane
  <2> QED
    BY <2>1, UsedUpFine
<1> QED
  BY <1>2, <1>3, <1>4

(* Closing a pane.                                                          *)
LEMMA ClosePaneFine ==
    ASSUME SessionOK(session), NEW t \in DOMAIN session.tabs,
           NEW pane \in DOMAIN session.tabs[t].panes, ClosePane(t, pane)
    PROVE  Fine(session', session)
<1>1. /\ Cardinality(DOMAIN session.tabs[t].panes) > 1
      /\ session' = Bump(ClosedPane(session, t, pane))
  BY DEF ClosePane
<1>2. /\ SessionOK(ClosedPane(session, t, pane))
      /\ ClosedPane(session, t, pane).rev = session.rev
  BY <1>1, ClosedPaneFine
<1> QED
  BY <1>1, <1>2, Bumped

(* Closing a tab.                                                           *)
LEMMA CloseTabFine ==
    ASSUME SessionOK(session), NEW t \in DOMAIN session.tabs, CloseTab(t)
    PROVE  Fine(session', session)
<1>1. /\ Cardinality(session.spaces[SpaceOf(session, t)]) > 1
      /\ session' = Bump(ClosedTab(session, t))
  BY DEF CloseTab
<1>2. /\ SessionOK(ClosedTab(session, t))
      /\ ClosedTab(session, t).rev = session.rev
  BY <1>1, ClosedTabFine
<1> QED
  BY <1>1, <1>2, Bumped

(* Closing a Space.                                                         *)
LEMMA CloseSpaceFine ==
    ASSUME SessionOK(session), NEW space \in DOMAIN session.spaces,
           CloseSpace(space)
    PROVE  Fine(session', session)
<1>1. /\ Cardinality(DOMAIN session.spaces) > 1
      /\ session' = Bump(ClosedSpace(session, space))
  BY DEF CloseSpace
<1>2. /\ SessionOK(ClosedSpace(session, space))
      /\ ClosedSpace(session, space).rev = session.rev
  BY <1>1, ClosedSpaceFine
<1> QED
  BY <1>1, <1>2, Bumped

(* Moving a pane within its tab.                                            *)
LEMMA MoveInTabFine ==
    ASSUME SessionOK(session), NEW t \in DOMAIN session.tabs,
           NEW pane \in DOMAIN session.tabs[t].panes,
           NEW target \in DOMAIN session.tabs[t].panes,
           MoveInTab(t, pane, target)
    PROVE  Fine(session', session)
<1> DEFINE mid == MoveIn(session, t, pane, target)
<1>1. /\ pane # target /\ CanSplit(Detach(session.tabs[t], pane), target)
      /\ session' = Bump(mid)
  BY DEF MoveInTab, MoveIn
<1>2. Laid(session)
  BY DEF SessionOK
<1>3. Laid(mid) /\ Loses(mid, session, {})
  BY <1>1, <1>2, MoveInLaid
<1> HIDE DEF mid
<1>4. SessionOK(mid) /\ mid.rev = session.rev
  BY <1>3, NothingLost
<1> QED
  BY <1>1, <1>4, Bumped

(* Moving a pane to another tab.                                            *)
LEMMA MoveAcrossFine ==
    ASSUME SessionOK(session), NEW t \in DOMAIN session.tabs,
           NEW pane \in DOMAIN session.tabs[t].panes,
           NEW other \in DOMAIN session.tabs,
           NEW target \in DOMAIN session.tabs[other].panes,
           MoveAcross(t, pane, other, target)
    PROVE  Fine(session', session)
<1> DEFINE mid == Across(session, t, pane, other, target)
<1>1. /\ t # other /\ session.tabs[t].panes[pane].terminal # 0
      /\ Cardinality(DOMAIN session.tabs[other].panes) < MaxPanes
      /\ \/ Cardinality(DOMAIN session.tabs[t].panes) > 1
         \/ Cardinality(session.spaces[SpaceOf(session, t)]) > 1
      /\ CanSplit(session.tabs[other], target)
      /\ session' = Bump(mid)
  BY DEF MoveAcross, Across
<1>2. Laid(session)
  BY DEF SessionOK
<1>3. Laid(mid) /\ Loses(mid, session, {})
  BY <1>1, <1>2, MoveAcrossLaid
<1> HIDE DEF mid
<1>4. SessionOK(mid) /\ mid.rev = session.rev
  BY <1>3, NothingLost
<1> QED
  BY <1>1, <1>4, Bumped

(* Swapping two panes.                                                      *)
LEMMA SwapPaneFine ==
    ASSUME SessionOK(session), NEW t \in DOMAIN session.tabs,
           NEW pane \in DOMAIN session.tabs[t].panes,
           NEW target \in DOMAIN session.tabs[t].panes,
           SwapPane(t, pane, target)
    PROVE  Fine(session', session)
<1> DEFINE mid == SwapIn(session, t, pane, target)
<1>1. pane < target /\ session' = Bump(mid)
  BY DEF SwapPane, SwapIn
<1>2. Laid(session) /\ DOMAIN session.tabs[t].panes \in SUBSET Nat
  <2>1. TabOK(session.tabs[t], session.serial, session.nextTerminal)
    BY TabOf
  <2> QED
    BY <2>1, PanesType DEF SessionOK
<1>3. pane # target
  BY <1>1, <1>2
<1>4. Laid(mid) /\ Loses(mid, session, {})
  BY <1>2, <1>3, SwapLaid
<1> HIDE DEF mid
<1>5. SessionOK(mid) /\ mid.rev = session.rev
  BY <1>4, NothingLost
<1> QED
  BY <1>1, <1>5, Bumped

(* A terminal changes, and nothing else.                                    *)
Retold(s, x, value) == [s EXCEPT !.terminals[x] = value]

(* A terminal changes its state, and nothing else of the Session.           *)
LEMMA RetoldIs ==
    ASSUME NEW s, SessionOK(s), NEW x \in DOMAIN s.terminals,
           NEW value \in TerminalType, NEW new, new = Retold(s, x, value)
    PROVE  /\ SessionOK(new) /\ new.rev = s.rev
           /\ Fine(new, s)
<1> DEFINE terminals == [s.terminals EXCEPT ![x] = value]
<1>1. /\ Fields(s) /\ Laid(s) /\ Kept(s)
      /\ DOMAIN s.terminals = TerminalsOf(s.tabs)
  BY DEF SessionOK, Laid
<1>2. /\ Fields(new) /\ new.rev = s.rev /\ new.spaces = s.spaces
      /\ new.tabs = s.tabs /\ new.terminals = terminals
      /\ new.serial = s.serial /\ new.nextTerminal = s.nextTerminal
  BY <1>1 DEF Fields, Retold
<1>3. /\ DOMAIN terminals = DOMAIN s.terminals
      /\ terminals[x] \in TerminalType
      /\ \A u \in DOMAIN s.terminals : u # x => terminals[u] = s.terminals[u]
  OBVIOUS
<1> HIDE DEF terminals
<1>4. Laid(new)
  BY <1>1, <1>2 DEF Laid
<1>5. Kept(new)
  BY <1>1, <1>2, <1>3 DEF Kept
<1>6. SessionOK(new)
  BY <1>1, <1>2, <1>3, <1>4, <1>5 DEF SessionOK
<1>7. Grown(new, s)
  BY <1>1, <1>2 DEF Grown, Laid
<1> QED
  BY <1>2, <1>6, <1>7 DEF Fine

(* What the Session keeps for a terminal is a terminal.                     *)
LEMMA TerminalIs ==
    ASSUME NEW s, SessionOK(s), NEW x \in DOMAIN s.terminals
    PROVE  s.terminals[x] \in TerminalType
BY DEF SessionOK, Kept

(* Restarting the shell of a pane.                                          *)
LEMMA RestartPaneFine ==
    ASSUME SessionOK(session), NEW t \in DOMAIN session.tabs,
           NEW pane \in DOMAIN session.tabs[t].panes, RestartPane(t, pane)
    PROVE  Fine(session', session)
<1> DEFINE x == session.tabs[t].panes[pane].terminal
           old == session.terminals[x]
           value == [old EXCEPT !.state = "running", !.generation = @ + 1]
           mid == Retold(session, x, value)
<1>1. x # 0 /\ session' = Bump(mid)
  BY DEF RestartPane, Retold
<1>2. x \in DOMAIN session.terminals
  <2>1. x \in TerminalsOf(session.tabs)
    BY <1>1, TermIn
  <2> QED
    BY <2>1 DEF SessionOK
<1>3. old \in TerminalType
  BY <1>2, TerminalIs
<1>4. value \in TerminalType
  <2> HIDE DEF old
  <2>1. PICK a \in States, n \in Nat, b \in Seq(Nat) :
            old = [state |-> a, generation |-> n, tried |-> b]
    BY <1>3 DEF TerminalType
  <2> DEFINE again == [old EXCEPT !.state = "running"]
  <2>2. value = [state |-> "running", generation |-> n + 1, tried |-> b]
    <3>1. again = [state |-> "running", generation |-> n, tried |-> b]
      BY <2>1
    <3>2. value = [again EXCEPT !.generation = @ + 1]
      OBVIOUS
    <3> HIDE DEF again, value
    <3> QED
      BY <3>1, <3>2
  <2>3. n + 1 \in Nat /\ "running" \in States
    BY DEF States
  <2> HIDE DEF value
  <2> QED
    BY <2>1, <2>2, <2>3 DEF TerminalType
<1> HIDE DEF value, old, x
<1>5. SessionOK(mid) /\ mid.rev = session.rev
  BY <1>2, <1>4, RetoldIs
<1> HIDE DEF mid
<1> QED
  BY <1>1, <1>5, Bumped

(* A shell ends.                                                            *)
LEMMA EndsFine ==
    ASSUME SessionOK(session), NEW x \in DOMAIN session.terminals,
           NEW state \in States, Ends(x, state)
    PROVE  Fine(session', session)
<1> DEFINE old == session.terminals[x]
           value == [old EXCEPT !.state = state]
<1>1. session' = Retold(session, x, value)
  BY DEF Ends, Retold
<1>2. old \in TerminalType
  BY TerminalIs
<1>3. value \in TerminalType
  BY <1>2 DEF TerminalType
<1> HIDE DEF value, old
<1> QED
  BY <1>1, <1>3, RetoldIs

(* A new revision without a change.                                         *)
LEMMA TouchFine ==
    ASSUME SessionOK(session), Touch
    PROVE  Fine(session', session)
BY Bumped DEF Touch

(* An agent in place of the terminal of a pane, also when it fails to start *)
(* ...                                                                      *)
LEMMA ReplaceByAgentFine ==
    ASSUME SessionOK(session), NEW t \in DOMAIN session.tabs,
           NEW pane \in DOMAIN session.tabs[t].panes, ReplaceByAgent(t, pane)
    PROVE  Fine(session', session)
<1> DEFINE old == session.tabs[t].panes[pane].terminal
           mid == Destroy(Agent(WithTerminal(session), t, pane,
                                session.nextTerminal), {old})
<1>1. /\ old # 0
      /\ session' \in {UsedUp(session, 0, 1)} \cup
                      (IF Room(session) THEN {Bump(mid)} ELSE {})
  BY DEF ReplaceByAgent, Agent
<1>2. CASE session' = UsedUp(session, 0, 1)
  BY <1>2, UsedUpFine
<1>3. CASE Room(session) /\ session' = Bump(mid)
  <2>1. SessionOK(mid) /\ mid.rev = session.rev
    BY <1>1, <1>3, AgentFine
  <2> QED
    BY <1>3, <2>1, Bumped
<1> HIDE DEF mid
<1> QED
  BY <1>1, <1>2, <1>3

(* ... in a pane of its own ...                                             *)
LEMMA AgentBesideFine ==
    ASSUME SessionOK(session), NEW t \in DOMAIN session.tabs,
           NEW pane \in DOMAIN session.tabs[t].panes, AgentBeside(t, pane)
    PROVE  Fine(session', session)
<1> DEFINE new == Bump(AddPane(WithTerminal(session), t, pane,
                               Pane(session.nextTerminal, 0)))
<1>1. /\ Cardinality(DOMAIN session.tabs[t].panes) < MaxPanes
      /\ CanSplit(session.tabs[t], pane)
      /\ session' \in {UsedUp(session, 1, 1)} \cup
                      (IF Room(session) THEN {new} ELSE {})
  BY DEF AgentBeside
<1>2. CASE session' = UsedUp(session, 1, 1)
  BY <1>2, UsedUpFine
<1>3. CASE Room(session) /\ session' = new
  <2>1. Awaits(WithTerminal(session), session, Pane(session.nextTerminal, 0))
    BY <1>3, AwaitsTerminal
  <2> QED
    BY <1>1, <1>3, <2>1, AddPaneFine
<1> HIDE DEF new
<1> QED
  BY <1>1, <1>2, <1>3

(* ... or in a tab of its own.                                              *)
LEMMA PersonalAgentFine ==
    ASSUME SessionOK(session), NEW space \in DOMAIN session.spaces,
           PersonalAgent(space)
    PROVE  Fine(session', session)
<1> DEFINE new == Bump(AddTab(WithTerminal(session), space,
                              Pane(session.nextTerminal, 0)))
<1>1. /\ Cardinality(session.spaces[space]) < MaxTabs
      /\ session' \in {UsedUp(session, 3, 1)} \cup
                      (IF Room(session) THEN {new} ELSE {})
  BY DEF PersonalAgent
<1>2. CASE session' = UsedUp(session, 3, 1)
  BY <1>2, UsedUpFine
<1>3. CASE Room(session) /\ session' = new
  <2>1. Awaits(WithTerminal(session), session, Pane(session.nextTerminal, 0))
    BY <1>3, AwaitsTerminal
  <2> QED
    BY <1>1, <1>3, <2>1, AddTabFine
<1> HIDE DEF new
<1> QED
  BY <1>1, <1>2, <1>3

(* A layout.                                                                *)
LEMMA ApplyLayoutFine ==
    ASSUME SessionOK(session), NEW plan \in Layouts, ApplyLayout(plan)
    PROVE  Fine(session', session)
<1> DEFINE start == AddSpace(Supplied(session, "server"),
                             NewPane(session, "server"))
           done == LayoutOf(session.serial, [ok |-> TRUE, s |-> start],
                            plan)[Len(plan)]
           new == IF done.ok THEN Bump(done.s) ELSE Rollback(session, done.s)
<1>1. /\ Cardinality(DOMAIN session.spaces) < MaxSpaces
      /\ ~Room(session) => session' = UsedUp(session, 4, 1)
      /\ Room(session) => session' = new
  BY DEF ApplyLayout, LayoutOf, Lays, LayoutTurn
<1>2. CASE ~Room(session)
  BY <1>1, <1>2, UsedUpFine
<1>3. CASE Room(session)
  BY <1>1, <1>3, LayoutIs
<1> QED
  BY <1>2, <1>3

(* A round of the loop, in whatever order the exits are closed.             *)
LEMMA PumpFine ==
    ASSUME SessionOK(session), Pump
    PROVE  /\ Fine(session', session)
           /\ \A x \in DOMAIN session.terminals \ DOMAIN session'.terminals :
                 session.terminals[x].state = "clean"
<1>1. PICK order \in SetToSeqs(CleanExits(session)) :
          session' = RoundOf(session, order)[Len(order)]
  BY DEF Pump, RoundOf, Runs, Turn
<1> QED
  BY <1>1, RoundIs

-----------------------------------------------------------------------------
(* The first Session, and one from a checkpoint.                            *)
LEMMA FreshOK ==
    ASSUME NEW s, s = FreshSession
    PROVE  SessionOK(s) /\ s.rev = 1
<1> DEFINE tab == NewTab(1, Pane(1, 0), 2)
<1>1. /\ Fields(s) /\ s.rev = 1 /\ s.spaces = [space \in {1} |-> {3}]
      /\ s.tabs = [t \in {3} |-> tab] /\ s.serial = 4 /\ s.nextTerminal = 2
      /\ s.terminals = [t \in {1} |-> NewTerminal]
  BY DEF FreshSession, Fields
<1>2. /\ TabOK(tab, 4, 2) /\ DOMAIN tab.panes = {1}
      /\ tab.panes[1] = Pane(1, 0) /\ PaneTerms(tab) = {1}
  <2>1. Pane(1, 0) \in PaneType /\ Pane(1, 0).terminal = 1
    BY DEF Pane, PaneType
  <2>2. /\ \A n, next \in Nat : \A value \in PaneType :
              value.terminal < next =>
                LET new == NewTab(n, value, n + 1)
                IN  /\ TabOK(new, n + 3, next) /\ DOMAIN new.panes = {n}
                    /\ new.panes[n] = value
                    /\ PaneTerms(new) = {value.terminal} \ {0}
    BY NewTabIs
  <2>3. tab = NewTab(1, Pane(1, 0), 1 + 1) /\ 1 + 3 = 4
    OBVIOUS
  <2> HIDE DEF tab
  <2> QED
    BY <2>1, <2>2, <2>3
<1> HIDE DEF tab
<1>3. DOMAIN s.tabs = {3} /\ s.tabs[3] = tab
  BY <1>1
<1>4. TerminalsOf(s.tabs) = {1}
  BY <1>2, <1>3, TerminalsAre
<1>5. \A x : IsFiniteSet({x}) /\ Cardinality({x}) = 1
  BY FS_Singleton
<1>6. TabsOK(s.tabs, 4, 2)
  <2>1. Apart(s.tabs)
    BY <1>2, <1>3 DEF Apart
  <2>0. 3 \in Nat /\ 3 < 4
    OBVIOUS
  <2>2. 3 \in Nat /\ 3 < 4 /\ IsFiniteSet({3})
    BY <1>5, <2>0
  <2>3. DOMAIN s.tabs \subseteq Nat /\ IsFiniteSet(DOMAIN s.tabs)
    BY <1>3, <2>2
  <2>4. \A t \in DOMAIN s.tabs : t < 4 /\ TabOK(s.tabs[t], 4, 2)
    BY <1>2, <1>3, <2>2
  <2> QED
    BY <2>1, <2>3, <2>4 DEF TabsOK
<1>7. SpacesOK(s.spaces, {3}, 4)
  <2>1. 1 \in 1..MaxSpaces /\ 1 \in 1..MaxTabs
    BY SessionTreeAssumption
  <2>2. DOMAIN s.spaces = {1} /\ s.spaces[1] = {3}
    BY <1>1
  <2>3. UNION Range(s.spaces) = {3}
    BY <2>2, Gathered
  <2> QED
    BY <1>5, <2>1, <2>2, <2>3 DEF SpacesOK
<1>8. Laid(s)
  BY <1>1, <1>3, <1>6, <1>7 DEF Laid
<1>9. Kept(s)
  <2>1. 1 <= MaxTerminals
    BY SessionTreeAssumption
  <2> QED
    BY <1>1, <1>5, <2>1, NewTerminalType DEF Kept
<1>10. DOMAIN s.terminals = TerminalsOf(s.tabs)
  BY <1>1, <1>4
<1> QED
  BY <1>1, <1>8, <1>9, <1>10 DEF SessionOK

(* What finitely many things are mapped to is finite.                       *)
LEMMA FiniteImage ==
    ASSUME NEW D, IsFiniteSet(D), NEW f
    PROVE  IsFiniteSet({f[d] : d \in D})
<1> DEFINE sets == [d \in D |-> {f[d]}]
<1>1. \A d \in D : IsFiniteSet(sets[d])
  BY FS_Singleton
<1>2. IsFiniteSet(UNION {sets[d] : d \in D})
  <2> HIDE DEF sets
  <2> QED
    BY <1>1, FiniteUnion
<1>3. UNION {sets[d] : d \in D} = {f[d] : d \in D}
  OBVIOUS
<1> QED
  BY <1>2, <1>3

(* The numbers in a tab are finitely many ...                               *)
LEMMA TabSerialsAre ==
    ASSUME NEW t \in Nat, NEW tab, IsTab(tab)
    PROVE  TabSerials(t, tab) \subseteq Nat /\ IsFiniteSet(TabSerials(t, tab))
<1> DEFINE A == {t} \cup DOMAIN tab.panes
           second == [n \in DOMAIN tab.nodes |-> n[2]]
           terminal == [p \in DOMAIN tab.panes |-> tab.panes[p].terminal]
           B == {second[n] : n \in DOMAIN tab.nodes}
           C == {terminal[p] : p \in DOMAIN tab.panes}
<1>1. /\ DOMAIN tab.panes \subseteq Nat /\ IsFiniteSet(DOMAIN tab.panes)
      /\ IsFiniteSet(DOMAIN tab.nodes) /\ DOMAIN tab.nodes \subseteq NodeIds
      /\ \A p \in DOMAIN tab.panes : tab.panes[p] \in PaneType
  BY DEF IsTab, IsTree
<1>2. TabSerials(t, tab) = A \cup B \cup C
  BY DEF TabSerials
<1>3. A \subseteq Nat /\ IsFiniteSet(A)
  <2>1. IsFiniteSet({t})
    BY FS_Singleton
  <2> QED
    BY <1>1, <2>1, FS_Union
<1>4. B \subseteq Nat /\ IsFiniteSet(B)
  <2>1. B \subseteq Nat
    BY <1>1, NodeIdIs
  <2> HIDE DEF second
  <2> QED
    BY <1>1, <2>1, FiniteImage
<1>5. C \subseteq Nat /\ IsFiniteSet(C)
  <2>1. C \subseteq Nat
    BY <1>1 DEF PaneType
  <2> HIDE DEF terminal
  <2> QED
    BY <1>1, <2>1, FiniteImage
<1> HIDE DEF A, B, C
<1> QED
  BY <1>2, <1>3, <1>4, <1>5, FS_Union

(* What next_serial_for() looks at, and what it gives, is past all of it.   *)
Serials(spaces, tabs) ==
    DOMAIN spaces \cup UNION {TabSerials(t, tabs[t]) : t \in DOMAIN tabs}

(* ... so that next_serial_for() finds one that is past all of them.        *)
LEMMA NextSerialIs ==
    ASSUME NEW spaces, DOMAIN spaces \subseteq Nat, IsFiniteSet(DOMAIN spaces),
           DOMAIN spaces # {}, NEW tabs, DOMAIN tabs \subseteq Nat,
           IsFiniteSet(DOMAIN tabs), \A t \in DOMAIN tabs : IsTab(tabs[t])
    PROVE  /\ Serials(spaces, tabs) \in SUBSET Nat
           /\ IsFiniteSet(Serials(spaces, tabs))
           /\ NextSerialFor(spaces, tabs) \in Nat
           /\ \A n \in Serials(spaces, tabs) : n < NextSerialFor(spaces, tabs)
<1> DEFINE S == Serials(spaces, tabs)
           sets == [t \in DOMAIN tabs |-> TabSerials(t, tabs[t])]
           U == UNION {sets[t] : t \in DOMAIN tabs}
<1>1. \A t \in DOMAIN tabs : sets[t] \subseteq Nat /\ IsFiniteSet(sets[t])
  BY TabSerialsAre
<1>2. S = DOMAIN spaces \cup U
  BY DEF Serials
<1>3. U \subseteq Nat /\ IsFiniteSet(U)
  <2> HIDE DEF sets
  <2> QED
    BY <1>1, FiniteUnion
<1> HIDE DEF U
<1>4. S \in SUBSET Nat /\ IsFiniteSet(S) /\ S # {}
  BY <1>2, <1>3, FS_Union
<1>5. NextSerialFor(spaces, tabs) = Max(S) + 1
  BY DEF NextSerialFor, Serials
<1> HIDE DEF S
<1>6. Max(S) \in Nat /\ \A n \in S : n <= Max(S)
  BY <1>4, MaxIs
<1>7. \A n \in S : n < Max(S) + 1
  BY <1>4, <1>6
<1> QED
  BY <1>4, <1>5, <1>6, <1>7 DEF S

(* A checkpoint shows a Session if it has its Spaces, its panes and the     *)
(* shapes of its trees.                                                     *)
SameTopology(content, s) ==
    /\ content.spaces = s.spaces /\ DOMAIN content.tabs = DOMAIN s.tabs
    /\ \A t \in DOMAIN s.tabs :
          /\ Shape(content.tabs[t]) = Shape(s.tabs[t])
          /\ content.tabs[t].panes = s.tabs[t].panes

Restores(tabs, old) ==
    /\ DOMAIN tabs = DOMAIN old
    /\ \A t \in DOMAIN old :
          /\ IsTab(tabs[t]) /\ tabs[t].panes = old[t].panes
          /\ Shape(tabs[t]) = Shape(old[t])

(* The restored tabs are tabs that show the same.                           *)
LEMMA RestoresTabs ==
    ASSUME NEW content, Restorable(content), NEW tabs,
           tabs = [t \in DOMAIN content.tabs |-> RestoredTab(content.tabs[t])]
    PROVE  Restores(tabs, content.tabs)
<1>1. \A t \in DOMAIN content.tabs :
          IsTab(content.tabs[t]) /\ LeavesApart(content.tabs[t])
  BY DEF Restorable, IsSession, LeavesApart
<1>2. \A tab : IsTab(tab) /\ LeavesApart(tab) =>
          /\ IsTab(RestoredTab(tab)) /\ RestoredTab(tab).panes = tab.panes
          /\ Shape(RestoredTab(tab)) = Shape(tab)
  BY RestoredIs
<1>3. \A t \in DOMAIN content.tabs : tabs[t] = RestoredTab(content.tabs[t])
  OBVIOUS
<1>4. DOMAIN tabs = DOMAIN content.tabs
  OBVIOUS
<1> QED
  BY <1>1, <1>2, <1>3, <1>4 DEF Restores

(* The tabs a checkpoint shows and those restored from it have the same     *)
(* panes and terminals.                                                     *)
LEMMA RestoresTerminals ==
    ASSUME NEW tabs, NEW old, Restores(tabs, old)
    PROVE  TerminalsOf(tabs) = TerminalsOf(old) /\ (Apart(old) => Apart(tabs))
<1>1. /\ DOMAIN tabs = DOMAIN old
      /\ \A t \in DOMAIN old : tabs[t].panes = old[t].panes
  BY DEF Restores
<1>2. \A t \in DOMAIN old : PaneTerms(tabs[t]) = PaneTerms(old[t])
  BY <1>1 DEF PaneTerms
<1>3. TerminalsOf(tabs) = TerminalsOf(old)
  <2>1. UNION {PaneTerms(tabs[t]) : t \in DOMAIN tabs}
           = UNION {PaneTerms(old[t]) : t \in DOMAIN old}
    BY <1>1, <1>2
  <2> QED
    BY <2>1, TerminalsAre
<1>4. Apart(old) => Apart(tabs)
  BY <1>1 DEF Apart
<1> QED
  BY <1>3, <1>4

(* A Session restored from what the file may hold is one, and shows what    *)
(* was saved.                                                               *)
LEMMA RestoredOK ==
    ASSUME NEW content, Restorable(content), NEW s, s = Restored(content)
    PROVE  SessionOK(s) /\ SameTopology(content, s) /\ s.rev = 1
<1> DEFINE old == content.tabs
           spaces == content.spaces
           tabs == [t \in DOMAIN old |-> RestoredTab(old[t])]
           serial == NextSerialFor(spaces, tabs)
           T == TerminalsOf(tabs)
           next == Max({1} \cup T) + 1
<1>1. /\ Fields(s) /\ s.rev = 1 /\ s.spaces = spaces /\ s.tabs = tabs
      /\ s.serial = serial /\ s.terminals = [x \in T |-> NewTerminal]
      /\ s.nextTerminal = next
  BY DEF Restored, Fields
<1>2. Restores(tabs, old)
  BY RestoresTabs
<1> HIDE DEF tabs
<1>3. /\ DOMAIN spaces \subseteq Nat /\ IsFiniteSet(DOMAIN spaces)
      /\ Cardinality(DOMAIN spaces) \in 1..MaxSpaces
      /\ DOMAIN old \subseteq Nat /\ IsFiniteSet(DOMAIN old)
      /\ UNION Range(spaces) = DOMAIN old
      /\ \A a, b \in DOMAIN spaces : spaces[a] \cap spaces[b] # {} => a = b
      /\ \A sp \in DOMAIN spaces : Cardinality(spaces[sp]) \in 1..MaxTabs
      /\ \A t \in DOMAIN old : Cardinality(DOMAIN old[t].panes) \in 1..MaxPanes
      /\ Apart(old) /\ Cardinality(TerminalsOf(old)) <= MaxTerminals
  BY DEF Restorable, IsSession, Apart
<1>4. /\ DOMAIN tabs = DOMAIN old
      /\ \A t \in DOMAIN tabs :
            IsTab(tabs[t]) /\ Cardinality(DOMAIN tabs[t].panes) \in 1..MaxPanes
  BY <1>2, <1>3 DEF Restores
<1>5. T = TerminalsOf(old) /\ Apart(tabs)
  BY <1>2, <1>3, RestoresTerminals
<1>6. DOMAIN spaces # {}
  <2>1. Cardinality(DOMAIN spaces) # 0
    BY <1>3
  <2> QED
    BY <2>1, FS_EmptySet
<1>7. /\ Serials(spaces, tabs) \in SUBSET Nat
      /\ IsFiniteSet(Serials(spaces, tabs)) /\ serial \in Nat
      /\ \A n \in Serials(spaces, tabs) : n < serial
  BY <1>3, <1>4, <1>6, NextSerialIs
<1> HIDE DEF serial
<1>8. T \subseteq Serials(spaces, tabs)
  BY TerminalsAre DEF Serials, TabSerials, PaneTerms
<1>9. /\ T \subseteq Nat /\ IsFiniteSet(T)
  BY <1>7, <1>8, FS_Subset
<1>10. next \in Nat \ {0} /\ \A x \in T : x < next
  <2> DEFINE B == {1} \cup T
  <2>1. B \in SUBSET Nat /\ IsFiniteSet(B) /\ 1 \in B
    <3>1. IsFiniteSet({1})
      BY FS_Singleton
    <3>2. IsFiniteSet(B)
      BY <1>9, <3>1, FS_Union
    <3>3. 1 \in Nat
      OBVIOUS
    <3> QED
      BY <1>9, <3>2, <3>3
  <2> HIDE DEF B
  <2>2. Max(B) \in Nat /\ \A x \in B : x <= Max(B)
    BY <2>1, MaxIs
  <2>3. /\ Max(B) + 1 \in Nat \ {0} /\ \A x \in Nat : x <= Max(B) => x < Max(B) + 1
    BY <2>2
  <2> QED
    BY <1>9, <2>2, <2>3 DEF B
<1> HIDE DEF next
<1>11. TabsOK(tabs, serial, next)
  <2>1. ASSUME NEW t \in DOMAIN tabs
        PROVE  t < serial /\ Marked(tabs[t], serial, next)
    <3>1. TabSerials(t, tabs[t]) \subseteq Serials(spaces, tabs)
      BY DEF Serials
    <3>2. \A n \in TabSerials(t, tabs[t]) : n < serial
      BY <1>7, <3>1
    <3>3. t < serial /\ \A p \in DOMAIN tabs[t].panes : p < serial
      BY <3>2 DEF TabSerials
    <3>4. \A n \in DOMAIN tabs[t].nodes : n[2] < serial
      BY <3>2 DEF TabSerials
    <3>5. ASSUME NEW p \in DOMAIN tabs[t].panes
          PROVE  tabs[t].panes[p].terminal < next
      <4>1. CASE tabs[t].panes[p].terminal # 0
        BY <1>10, <4>1, TermIn
      <4>2. CASE tabs[t].panes[p].terminal = 0
        BY <1>10, <4>2
      <4> QED
        BY <4>1, <4>2
    <3> QED
      BY <3>3, <3>4, <3>5 DEF Marked
  <2>2. \A t \in DOMAIN tabs : t < serial /\ TabOK(tabs[t], serial, next)
    BY <1>4, <2>1 DEF TabOK
  <2> QED
    BY <1>3, <1>4, <1>5, <2>2 DEF TabsOK
<1>12. SpacesOK(spaces, DOMAIN tabs, serial)
  <2>1. \A sp \in DOMAIN spaces : sp < serial
    BY <1>7 DEF Serials
  <2> QED
    BY <1>3, <1>4, <2>1 DEF SpacesOK
<1>13. Laid(s)
  BY <1>1, <1>7, <1>10, <1>11, <1>12 DEF Laid
<1>14. DOMAIN s.terminals = T
  BY <1>1
<1>15. Kept(s)
  BY <1>1, <1>3, <1>5, <1>9, <1>14, NewTerminalType DEF Kept
<1>16. SessionOK(s)
  BY <1>1, <1>13, <1>14, <1>15 DEF SessionOK
<1>17. SameTopology(content, s)
  BY <1>1, <1>2 DEF SameTopology, Restores
<1> QED
  BY <1>1, <1>16, <1>17

(* What is captured can be restored.                                        *)
LEMMA CapturedIs ==
    ASSUME NEW s, SessionOK(s), Capturable(s), NEW n
    PROVE  Restorable(Content(s, n)) /\ SameTopology(Content(s, n), s)
<1> DEFINE content == Content(s, n)
<1>1. /\ content.rev = s.rev /\ content.spaces = s.spaces
      /\ content.tabs = s.tabs
  BY DEF Content
<1> HIDE DEF content
<1>2. /\ s.rev \in Nat \ {0} /\ SpacesOK(s.spaces, DOMAIN s.tabs, s.serial)
      /\ TabsOK(s.tabs, s.serial, s.nextTerminal)
      /\ DOMAIN s.terminals = TerminalsOf(s.tabs) /\ Kept(s)
  BY DEF SessionOK, Laid
<1>3. IsSession(s.spaces, s.tabs)
  <2>1. \A t \in DOMAIN s.tabs :
            IsTab(s.tabs[t])
            /\ Cardinality(DOMAIN s.tabs[t].panes) \in 1..MaxPanes
    BY <1>2 DEF TabsOK, TabOK
  <2>2. /\ DOMAIN s.tabs \subseteq Nat /\ IsFiniteSet(DOMAIN s.tabs)
        /\ Apart(s.tabs)
    BY <1>2 DEF TabsOK
  <2>3. /\ DOMAIN s.spaces \subseteq Nat /\ IsFiniteSet(DOMAIN s.spaces)
        /\ Cardinality(DOMAIN s.spaces) \in 1..MaxSpaces
        /\ UNION Range(s.spaces) = DOMAIN s.tabs
        /\ \A a, b \in DOMAIN s.spaces :
              s.spaces[a] \cap s.spaces[b] # {} => a = b
        /\ \A sp \in DOMAIN s.spaces :
              Cardinality(s.spaces[sp]) \in 1..MaxTabs
    BY <1>2 DEF SpacesOK
  <2> QED
    BY <2>1, <2>2, <2>3 DEF IsSession, Apart
<1>4. \A t \in DOMAIN s.tabs : LeavesApart(s.tabs[t])
  <2>1. SUFFICES ASSUME NEW t \in DOMAIN s.tabs, NEW m \in Leaves(s.tabs[t]),
                        NEW k \in Leaves(s.tabs[t]), m[2] = k[2]
                 PROVE  m = k
    BY DEF LeavesApart
  <2>2. IsInjective([j \in Leaves(s.tabs[t]) |-> j[2]])
    BY DEF Capturable
  <2> QED
    BY <2>1, <2>2 DEF IsInjective
<1>5. Cardinality(TerminalsOf(s.tabs)) <= MaxTerminals
  BY <1>2 DEF Kept
<1>6. Restorable(content)
  BY <1>1, <1>2, <1>3, <1>4, <1>5 DEF Restorable, LeavesApart
<1>7. SameTopology(content, s)
  BY <1>1 DEF SameTopology
<1> QED
  BY <1>6, <1>7 DEF content

-----------------------------------------------------------------------------
(* The inductive invariant: the Session is one, what the file and the task  *)
(* hold can be restored, and what is thought to be saved is what the        *)
(* Session shows unless its revision went on.                               *)
ContentOK(content) == content = NoFile \/ Restorable(content)

TaskAs(t, s, n) ==
    \/ t = NoTask
    \/ /\ t = [state |-> t.state, content |-> t.content]
       /\ t.state \in {"writing", "written", "failed"}
       /\ Restorable(t.content) /\ t.content.rev <= s.rev
       /\ t.content.name \in 0..n
       /\ t.content.rev = s.rev => SameTopology(t.content, s)

SavedAs(v, s, f) ==
    /\ v.present \in BOOLEAN /\ v.rev \in Nat
    /\ v.present <=> f # NoFile
    /\ v.rev <= s.rev
    /\ v.present /\ v.rev = s.rev => SameTopology(f, s)

NamesOK == commands \in Nat /\ name \in 0..commands /\ file.name \in 0..name

Inv ==
    /\ SessionOK(session) /\ ContentOK(file)
    /\ TaskAs(task, session, name) /\ SavedAs(saved, session, file)
    /\ NamesOK

(* What can be restored has a revision, and is something.                   *)
LEMMA RestorableIs ==
    ASSUME NEW content, Restorable(content)
    PROVE  content.rev \in Nat \ {0} /\ content # NoFile
<1>1. content.rev \in Nat \ {0}
  BY DEF Restorable
<1>2. NoFile.rev = 0
  BY DEF NoFile
<1> QED
  BY <1>1, <1>2

(* The server starts with a Session, with or without a file.                *)
LEMMA StartedOK ==
    ASSUME NEW content, ContentOK(content)
    PROVE  /\ SessionOK(Started(content))
           /\ SavedAs(SavedAtStart(content), Started(content), content)
<1> DEFINE s == Started(content)
           v == SavedAtStart(content)
<1>0. 0 <= 1 /\ 1 <= 1 /\ 0 \in Nat /\ 1 \in Nat
  OBVIOUS
<1>1. CASE content = NoFile
  <2>1. s = FreshSession /\ v = [present |-> FALSE, rev |-> 0]
    BY <1>1 DEF Started, SavedAtStart
  <2>2. SessionOK(s) /\ s.rev = 1
    BY <2>1, FreshOK
  <2> HIDE DEF s, v
  <2>3. v.present = FALSE /\ v.rev = 0
    BY <2>1
  <2>4. SavedAs(v, s, content)
    BY <1>0, <1>1, <2>2, <2>3 DEF SavedAs
  <2> QED
    BY <2>2, <2>4 DEF s, v
<1>2. CASE content # NoFile
  <2>1. s = Restored(content) /\ v = [present |-> TRUE, rev |-> 1]
    BY <1>2 DEF Started, SavedAtStart
  <2>2. Restorable(content)
    BY <1>2 DEF ContentOK
  <2>3. SessionOK(s) /\ SameTopology(content, s) /\ s.rev = 1
    BY <2>1, <2>2, RestoredOK
  <2> HIDE DEF s, v
  <2>4. v.present = TRUE /\ v.rev = 1
    BY <2>1
  <2>5. SavedAs(v, s, content)
    BY <1>0, <1>2, <2>3, <2>4 DEF SavedAs
  <2> QED
    BY <2>3, <2>5 DEF s, v
<1> QED
  BY <1>1, <1>2

(* The invariant holds at the start.                                        *)
LEMMA InitInv == Init => Inv
<1> SUFFICES ASSUME Init PROVE Inv
  OBVIOUS
<1>1. /\ file \in FirstFiles /\ session = Started(file) /\ name = file.name
      /\ saved = SavedAtStart(file) /\ task = NoTask /\ commands = 0
  BY DEF Init
<1>2. ContentOK(file) /\ file.name = 0
  BY <1>1, FilesAssumption DEF ContentOK
<1>3. SessionOK(session) /\ SavedAs(saved, session, file)
  BY <1>1, <1>2, StartedOK
<1>4. NamesOK
  <2>1. 0 \in Nat /\ 0 \in 0..0
    OBVIOUS
  <2> QED
    BY <1>1, <1>2, <2>1 DEF NamesOK
<1>5. TaskAs(task, session, name)
  BY <1>1 DEF TaskAs
<1> QED
  BY <1>2, <1>3, <1>4, <1>5 DEF Inv

(* The Session goes on: what was saved or is being saved is of a revision   *)
(* that it has left, unless it looks the same.                              *)
LEMMA SameShown ==
    ASSUME NEW content, NEW s, NEW new, SameTopology(content, s),
           new.spaces = s.spaces, new.tabs = s.tabs
    PROVE  SameTopology(content, new)
BY DEF SameTopology

(* While the Session goes on, the checkpoint being written stays what it    *)
(* was of the revision it was taken at ...                                  *)
LEMMA TaskStays ==
    ASSUME NEW t, NEW s, NEW n, TaskAs(t, s, n), NEW new, Grown(new, s)
    PROVE  TaskAs(t, new, n)
<1>1. CASE t = NoTask
  BY <1>1 DEF TaskAs
<1>2. CASE t # NoTask
  <2>1. /\ t = [state |-> t.state, content |-> t.content]
        /\ t.state \in {"writing", "written", "failed"}
        /\ Restorable(t.content) /\ t.content.rev <= s.rev
        /\ t.content.name \in 0..n
        /\ t.content.rev = s.rev => SameTopology(t.content, s)
    BY <1>2 DEF TaskAs
  <2>2. /\ new.rev \in Nat /\ s.rev \in Nat /\ s.rev <= new.rev
        /\ new.rev = s.rev => new.spaces = s.spaces /\ new.tabs = s.tabs
    BY DEF Grown
  <2>3. t.content.rev \in Nat
    BY <2>1, RestorableIs
  <2>4. \A a, b, c \in Nat : a <= b /\ b <= c =>
            a <= c /\ (a = c => a = b /\ c = b)
    OBVIOUS
  <2>5. t.content.rev <= new.rev
    BY <2>1, <2>2, <2>3, <2>4
  <2>6. t.content.rev = new.rev => SameTopology(t.content, new)
    BY <2>1, <2>2, <2>3, <2>4, SameShown
  <2> QED
    BY <2>1, <2>5, <2>6 DEF TaskAs
<1> QED
  BY <1>1, <1>2

(* ... and so does the one that was saved.                                  *)
LEMMA SavedStays ==
    ASSUME NEW v, NEW s, NEW f, SavedAs(v, s, f), NEW new, Grown(new, s)
    PROVE  SavedAs(v, new, f)
<1>1. /\ v.present \in BOOLEAN /\ v.rev \in Nat
      /\ v.present <=> f # NoFile
      /\ v.rev <= s.rev
      /\ v.present /\ v.rev = s.rev => SameTopology(f, s)
  BY DEF SavedAs
<1>2. /\ new.rev \in Nat /\ s.rev \in Nat /\ s.rev <= new.rev
      /\ new.rev = s.rev => new.spaces = s.spaces /\ new.tabs = s.tabs
  BY DEF Grown
<1>3. \A a, b, c \in Nat : a <= b /\ b <= c =>
          a <= c /\ (a = c => a = b /\ c = b)
  OBVIOUS
<1>4. v.rev <= new.rev /\ (v.rev = new.rev => v.rev = s.rev /\ new.rev = s.rev)
  BY <1>1, <1>2, <1>3
<1>5. v.present /\ v.rev = new.rev => SameTopology(f, new)
  BY <1>1, <1>2, <1>4, SameShown
<1> QED
  BY <1>1, <1>4, <1>5 DEF SavedAs

(* A step that only takes the Session on preserves the invariant.           *)
LEMMA SessionGoesOn ==
    ASSUME Inv, Fine(session', session), UNCHANGED saving,
           commands' \in {commands, commands + 1}
    PROVE  Inv'
<1>1. name' = name /\ file' = file /\ task' = task /\ saved' = saved
  BY DEF saving
<1>2. SessionOK(session') /\ Grown(session', session)
  BY DEF Fine
<1>3. TaskAs(task, session', name) /\ SavedAs(saved, session', file)
  BY <1>2, TaskStays, SavedStays DEF Inv
<1>4. NamesOK'
  <2>1. commands \in Nat /\ name \in 0..commands /\ file.name \in 0..name
    BY DEF Inv, NamesOK
  <2>2. commands' \in Nat /\ name \in 0..commands'
    BY <2>1
  <2> QED
    BY <1>1, <2>1, <2>2 DEF NamesOK
<1>5. ContentOK(file)
  BY DEF Inv
<1> QED
  BY <1>1, <1>2, <1>3, <1>4, <1>5 DEF Inv

(* Checkpoints.                                                             *)
LEMMA StartsTaskIs ==
    ASSUME SessionOK(session), NEW n \in Nat, StartsTask(n)
    PROVE  TaskAs(task', session, n)
<1>1. CASE Capturable(session)
  <2> DEFINE content == Content(session, n)
  <2>1. task' = [state |-> "writing", content |-> content]
    BY <1>1 DEF StartsTask
  <2>2. Restorable(content) /\ SameTopology(content, session)
    BY <1>1, CapturedIs
  <2>3. content.rev = session.rev /\ content.name = n
    BY DEF Content
  <2> HIDE DEF content
  <2>4. session.rev \in Nat /\ session.rev <= session.rev
    BY DEF SessionOK, Laid
  <2>5. n \in 0..n
    OBVIOUS
  <2>6. /\ task' = [state |-> (task').state, content |-> (task').content]
        /\ (task').state = "writing" /\ (task').content = content
    BY <2>1
  <2> QED
    BY <2>2, <2>3, <2>4, <2>5, <2>6 DEF TaskAs
<1>2. CASE ~Capturable(session)
  BY <1>2 DEF StartsTask, TaskAs
<1> QED
  BY <1>1, <1>2

(* The invariant, part by part.                                             *)
LEMMA InvIs ==
    ASSUME Inv
    PROVE  /\ SessionOK(session) /\ ContentOK(file)
           /\ TaskAs(task, session, name) /\ SavedAs(saved, session, file)
           /\ commands \in Nat /\ name \in 0..commands
           /\ file.name \in 0..name /\ name \in Nat
BY DEF Inv, NamesOK

(* The periodic checkpoint takes a content that can be restored and shows   *)
(* the Session.                                                             *)
LEMMA TickInv ==
    ASSUME Inv, Tick
    PROVE  Inv'
<1>1. /\ StartsTask(name)
      /\ UNCHANGED <<session, name, file, saved, commands>>
  BY DEF Tick
<1>2. TaskAs(task', session, name)
  BY <1>1, InvIs, StartsTaskIs
<1> QED
  BY <1>1, <1>2 DEF Inv, NamesOK

(* A rename leaves the topology.                                            *)
LEMMA RenameInv ==
    ASSUME Inv, Rename
    PROVE  Inv'
<1>1. /\ StartsTask(name') /\ name' = name + 1 /\ commands' = commands + 1
      /\ session' = session /\ file' = file /\ saved' = saved
  BY DEF Rename
<1>2. name' \in Nat
  BY <1>1, InvIs
<1>3. TaskAs(task', session, name')
  <2>1. SessionOK(session)
    BY InvIs
  <2> QED
    BY <1>1, <1>2, <2>1, StartsTaskIs
<1>4. NamesOK'
  <2>1. \A a, b, c \in Nat : a \in 0..b /\ b \in 0..c =>
            a \in 0..(b + 1) /\ b + 1 \in 0..(c + 1) /\ c + 1 \in Nat
    OBVIOUS
  <2>2. /\ commands \in Nat /\ name \in 0..commands /\ name \in Nat
        /\ file.name \in 0..name /\ file.name \in Nat
    BY InvIs
  <2> QED
    BY <1>1, <2>1, <2>2 DEF NamesOK
<1> QED
  BY <1>1, <1>3, <1>4 DEF Inv

(* A task that is there holds what can be restored.                         *)
LEMMA TaskOf ==
    ASSUME NEW t, NEW s, NEW n, TaskAs(t, s, n), t.state # "none"
    PROVE  /\ t = [state |-> t.state, content |-> t.content]
           /\ t.state \in {"writing", "written", "failed"}
           /\ Restorable(t.content) /\ t.content.rev <= s.rev
           /\ t.content.name \in 0..n
           /\ t.content.rev = s.rev => SameTopology(t.content, s)
<1>1. t # NoTask
  BY DEF NoTask
<1> QED
  BY <1>1 DEF TaskAs

(* The writer replaces the file by what the task holds, or fails.           *)
LEMMA WriterEndsInv ==
    ASSUME Inv, WriterEnds
    PROVE  Inv'
<1>1. /\ task.state = "writing"
      /\ \/ task' = [task EXCEPT !.state = "written"]
         \/ task' = [task EXCEPT !.state = "failed"]
      /\ UNCHANGED <<session, name, file, saved, commands>>
  BY DEF WriterEnds
<1>2. /\ task = [state |-> task.state, content |-> task.content]
      /\ Restorable(task.content) /\ task.content.rev <= session.rev
      /\ task.content.name \in 0..name
      /\ task.content.rev = session.rev => SameTopology(task.content, session)
  BY <1>1, InvIs, TaskOf
<1>3. /\ task' = [state |-> (task').state, content |-> (task').content]
      /\ (task').state \in {"writing", "written", "failed"}
      /\ (task').content = task.content
  BY <1>1, <1>2
<1>4. TaskAs(task', session, name)
  BY <1>2, <1>3 DEF TaskAs
<1> QED
  BY <1>1, <1>4 DEF Inv, NamesOK

(* Collecting the task tells what is saved, if the write succeeded.         *)
LEMMA CollectInv ==
    ASSUME Inv, Collect
    PROVE  Inv'
<1>1. TaskAs(NoTask, session, name)
  BY DEF TaskAs
<1>2. CASE /\ task.state = "written" /\ file' = task.content
           /\ saved' = SavedRevision(task.content) /\ task' = NoTask
           /\ UNCHANGED <<session, name, commands, exits, restarts, faults>>
  <2> DEFINE content == task.content
  <2>1. /\ Restorable(content) /\ content.rev <= session.rev
        /\ content.name \in 0..name
        /\ content.rev = session.rev => SameTopology(content, session)
    BY <1>2, InvIs, TaskOf
  <2>2. content.rev \in Nat /\ content # NoFile
    BY <2>1, RestorableIs
  <2>3. (saved').present = TRUE /\ (saved').rev = content.rev
    BY <1>2 DEF SavedRevision
  <2> HIDE DEF content
  <2>4. SavedAs(saved', session, content)
    BY <2>1, <2>2, <2>3 DEF SavedAs
  <2>5. ContentOK(content)
    BY <2>1 DEF ContentOK
  <2>6. NamesOK'
    BY <1>2, <2>1, InvIs DEF NamesOK, content
  <2> QED
    BY <1>1, <1>2, <2>4, <2>5, <2>6, InvIs DEF Inv, content
<1>3. CASE /\ task.state = "failed" /\ task' = FailureDropped
           /\ UNCHANGED <<session, name, file, saved, commands, exits,
                          restarts, faults>>
  <2>1. task' = NoTask
    BY <1>3 DEF FailureDropped
  <2> QED
    BY <1>1, <1>3, <2>1 DEF Inv, NamesOK
<1> QED
  BY <1>2, <1>3 DEF Collect

(* After a restart the Session is the one of the file.                      *)
LEMMA RestartInv ==
    ASSUME Inv, Restart
    PROVE  Inv'
<1>1. PICK last \in LastContents :
          /\ session' = Started(last) /\ name' = last.name
          /\ saved' = SavedAtStart(last) /\ file' = last
  BY DEF Restart
<1>2. task' = NoTask /\ commands' = commands
  BY DEF Restart
<1>3. ContentOK(last) /\ last.name \in 0..name
  <2>1. CASE last = file
    BY <2>1, InvIs
  <2>2. CASE task.state = "written" /\ last = task.content
    BY <2>2, InvIs, TaskOf DEF ContentOK
  <2>3. CASE Capturable(session) /\ last = Content(session, name)
    <3>1. Restorable(last)
      BY <2>3, InvIs, CapturedIs
    <3>2. last.name = name
      BY <2>3 DEF Content
    <3>3. name \in 0..name
      BY InvIs
    <3> QED
      BY <3>1, <3>2, <3>3 DEF ContentOK
  <2> QED
    BY <2>1, <2>2, <2>3 DEF LastContents
<1>4. SessionOK(session') /\ SavedAs(saved', session', file')
  BY <1>1, <1>3, StartedOK
<1>5. TaskAs(task', session', name')
  BY <1>2 DEF TaskAs
<1>6. NamesOK'
  <2>1. \A a, b, c \in Nat : a \in 0..b /\ b \in 0..c => a \in 0..c /\ a \in 0..a
    OBVIOUS
  <2>2. /\ commands \in Nat /\ name \in 0..commands /\ name \in Nat
        /\ last.name \in 0..name /\ last.name \in Nat
    BY <1>3, InvIs
  <2>3. last.name \in 0..commands /\ last.name \in 0..(last.name)
    BY <2>1, <2>2
  <2> QED
    BY <1>1, <1>2, <2>2, <2>3 DEF NamesOK
<1> QED
  BY <1>1, <1>3, <1>4, <1>5, <1>6 DEF Inv

(* Every command and every shell that ends.                                 *)
LEMMA CommandFine ==
    ASSUME SessionOK(session), ClientCommand
    PROVE  Fine(session', session)
<1>1. CASE \E domain \in Domains : CreateSpace(domain)
  BY <1>1, CreateSpaceFine
<1>2. CASE \E space \in DOMAIN session.spaces :
               \/ CloseSpace(space) \/ PersonalAgent(space)
               \/ \E domain \in Domains : CreateTab(space, domain)
  BY <1>2, CloseSpaceFine, PersonalAgentFine, CreateTabFine
<1>3. ASSUME NEW tab \in DOMAIN session.tabs, CommandOn(tab)
      PROVE  Fine(session', session)
  <2>1. CASE CloseTab(tab)
    BY <2>1, CloseTabFine
  <2>2. ASSUME NEW pane \in DOMAIN session.tabs[tab].panes,
               NEW domain \in Domains,
               NEW owner \in {0} \cup (IF domain = "local"
                                       THEN DOMAIN session.tabs[tab].panes
                                       ELSE {}),
               SplitPane(tab, pane, domain, owner)
        PROVE  Fine(session', session)
    <3>1. DOMAIN session.tabs[tab].panes \subseteq Nat
      BY TabOf, PanesType
    <3>2. owner \in Nat
      BY <3>1
    <3> QED
      BY <2>2, <3>2, SplitPaneFine
  <2>3. ASSUME NEW pane \in DOMAIN session.tabs[tab].panes,
               \/ ClosePane(tab, pane) \/ RestartPane(tab, pane)
               \/ ReplaceByAgent(tab, pane) \/ AgentBeside(tab, pane)
        PROVE  Fine(session', session)
    BY <2>3, ClosePaneFine, RestartPaneFine, ReplaceByAgentFine,
       AgentBesideFine
  <2>4. ASSUME NEW pane \in DOMAIN session.tabs[tab].panes,
               NEW target \in DOMAIN session.tabs[tab].panes,
               MoveInTab(tab, pane, target) \/ SwapPane(tab, pane, target)
        PROVE  Fine(session', session)
    BY <2>4, MoveInTabFine, SwapPaneFine
  <2>5. ASSUME NEW pane \in DOMAIN session.tabs[tab].panes,
               NEW other \in DOMAIN session.tabs,
               NEW target \in DOMAIN session.tabs[other].panes,
               MoveAcross(tab, pane, other, target)
        PROVE  Fine(session', session)
    BY <2>5, MoveAcrossFine
  <2> QED
    BY <1>3, <2>1, <2>2, <2>3, <2>4, <2>5 DEF CommandOn
<1>4. CASE \E plan \in Layouts : ApplyLayout(plan)
  BY <1>4, ApplyLayoutFine
<1>5. CASE Touch
  BY <1>5, TouchFine
<1> QED
  BY <1>1, <1>2, <1>3, <1>4, <1>5 DEF ClientCommand

(* A client's command is counted, and nothing else of the bookkeeping       *)
(* changes.                                                                 *)
LEMMA Counted ==
    ASSUME ClientCommand
    PROVE  commands' = commands + 1 /\ UNCHANGED saving
<1>1. \A domain : CreateSpace(domain) => Command
  BY DEF CreateSpace
<1>2. \A space : /\ CloseSpace(space) => Command
                 /\ PersonalAgent(space) => Command
                 /\ \A domain : CreateTab(space, domain) => Command
  <2>1. \A space : CloseSpace(space) => Command
    BY DEF CloseSpace
  <2>2. \A space : PersonalAgent(space) => Command
    BY DEF PersonalAgent
  <2>3. \A space, domain : CreateTab(space, domain) => Command
    BY DEF CreateTab
  <2> QED
    BY <2>1, <2>2, <2>3
<1>3. \A tab, pane, target :
          /\ CloseTab(tab) => Command
          /\ ClosePane(tab, pane) => Command
          /\ RestartPane(tab, pane) => Command
          /\ ReplaceByAgent(tab, pane) => Command
          /\ AgentBeside(tab, pane) => Command
          /\ MoveInTab(tab, pane, target) => Command
          /\ SwapPane(tab, pane, target) => Command
  <2>1. \A tab : CloseTab(tab) => Command
    BY DEF CloseTab
  <2>2. \A tab, pane : ClosePane(tab, pane) => Command
    BY DEF ClosePane
  <2>3. \A tab, pane : RestartPane(tab, pane) => Command
    BY DEF RestartPane
  <2>4. \A tab, pane : ReplaceByAgent(tab, pane) => Command
    BY DEF ReplaceByAgent
  <2>5. \A tab, pane : AgentBeside(tab, pane) => Command
    BY DEF AgentBeside
  <2>6. \A tab, pane, target : MoveInTab(tab, pane, target) => Command
    BY DEF MoveInTab
  <2>7. \A tab, pane, target : SwapPane(tab, pane, target) => Command
    BY DEF SwapPane
  <2> QED
    BY <2>1, <2>2, <2>3, <2>4, <2>5, <2>6, <2>7
<1>4. \A tab, pane, x, y : /\ SplitPane(tab, pane, x, y) => Command
                           /\ MoveAcross(tab, pane, x, y) => Command
  <2>1. \A tab, pane, x, y : SplitPane(tab, pane, x, y) => Command
    BY DEF SplitPane
  <2>2. \A tab, pane, x, y : MoveAcross(tab, pane, x, y) => Command
    BY DEF MoveAcross
  <2> QED
    BY <2>1, <2>2
<1>5. \A tab : CommandOn(tab) => Command
  BY <1>3, <1>4 DEF CommandOn
<1>6. \A plan : ApplyLayout(plan) => Command
  BY DEF ApplyLayout
<1>7. Touch => Command
  BY DEF Touch
<1>8. Command
  BY <1>1, <1>2, <1>5, <1>6, <1>7 DEF ClientCommand
<1> QED
  BY <1>8 DEF Command

(* What shells and the loop do to the Session is fine.                      *)
LEMMA ShellsFine ==
    ASSUME SessionOK(session), Shells
    PROVE  Fine(session', session) /\ commands' = commands /\ UNCHANGED saving
<1>1. PICK x \in DOMAIN session.terminals, state \in States : Ends(x, state)
  BY DEF Shells, States
<1>2. Fine(session', session)
  BY <1>1, EndsFine
<1> QED
  BY <1>1, <1>2 DEF Ends

(* Every step preserves the invariant.                                      *)
LEMMA NextInv ==
    ASSUME Inv, [Next]_vars
    PROVE  Inv'
<1>1. CASE ClientCommand
  <2>1. Fine(session', session)
    BY <1>1, InvIs, CommandFine
  <2>2. commands' = commands + 1 /\ UNCHANGED saving
    BY <1>1, Counted
  <2> QED
    BY <2>1, <2>2, SessionGoesOn
<1>2. CASE Shells
  <2>1. Fine(session', session) /\ commands' = commands /\ UNCHANGED saving
    BY <1>2, InvIs, ShellsFine
  <2> QED
    BY <2>1, SessionGoesOn
<1>3. CASE Pump
  <2>1. Fine(session', session)
    BY <1>3, InvIs, PumpFine
  <2>2. commands' = commands /\ UNCHANGED saving
    BY <1>3 DEF Pump
  <2> QED
    BY <2>1, <2>2, SessionGoesOn
<1>4. CASE Tick
  BY <1>4, TickInv
<1>5. CASE Rename
  BY <1>5, RenameInv
<1>6. CASE WriterEnds
  BY <1>6, WriterEndsInv
<1>7. CASE Collect
  BY <1>7, CollectInv
<1>8. CASE Restart
  BY <1>8, RestartInv
<1>9. CASE UNCHANGED vars
  BY <1>9 DEF vars, Inv, NamesOK
<1> QED
  BY <1>1, <1>2, <1>3, <1>4, <1>5, <1>6, <1>7, <1>8, <1>9 DEF Next

(* However commands, exits, checkpoints, failures and restarts follow one   *)
(* another, the Session keeps its trees, its tabs, its Spaces and its       *)
(* terminals in order within the limits, and the file holds a Session the   *)
(* server could restore.                                                    *)
THEOREM Invariance == Spec => []Inv
<1>1. Init => Inv
  BY InitInv
<1>2. Inv /\ [Next]_vars => Inv'
  BY NextInv
<1> QED
  BY <1>1, <1>2, PTL DEF Spec

-----------------------------------------------------------------------------
(* What the invariant says of a Session.                                    *)

(* The numbers in use and the counts of a Session stay below its limits and *)
(* its next identities, the task and the names are of their kind, and a     *)
(* checkpoint is thought present just when there is a file.                 *)
THEOREM TypeCorrect == Spec => []SessionTreeTypeOK
<1>1. ASSUME Inv PROVE SessionTreeTypeOK
  <2>1. /\ session.rev \in Nat \ {0}
        /\ SpacesOK(session.spaces, DOMAIN session.tabs, session.serial)
        /\ TabsOK(session.tabs, session.serial, session.nextTerminal)
        /\ session.serial \in Nat /\ session.nextTerminal \in Nat
        /\ DOMAIN session.terminals = TerminalsOf(session.tabs)
        /\ Kept(session)
    BY <1>1 DEF Inv, SessionOK, Laid
  <2>2. \A t \in DOMAIN session.tabs :
            /\ t < session.serial
            /\ TabOK(session.tabs[t], session.serial, session.nextTerminal)
    BY <2>1 DEF TabsOK
  <2>3. /\ \A space \in DOMAIN session.spaces : space < session.serial
        /\ Cardinality(DOMAIN session.spaces) \in 1..MaxSpaces
        /\ \A space \in DOMAIN session.spaces :
              Cardinality(session.spaces[space]) \in 1..MaxTabs
    BY <2>1 DEF SpacesOK
  <2>4. \A n \in InUse : n < session.serial
    BY <2>2, <2>3 DEF InUse, TabOK, Marked
  <2>5. \A t \in DOMAIN session.terminals : t < session.nextTerminal
    BY <2>1, TermsFew
  <2>6. \A t \in DOMAIN session.tabs :
            Cardinality(DOMAIN session.tabs[t].panes) \in 1..MaxPanes
    BY <2>2 DEF TabOK
  <2>7. /\ Cardinality(DOMAIN session.terminals) <= MaxTerminals
        /\ \A t \in DOMAIN session.terminals :
              session.terminals[t].state \in {"running", "clean", "failed"}
    BY <2>1 DEF Kept, TerminalType, States
  <2>8. task.state \in {"none", "writing", "written", "failed"}
    BY <1>1 DEF Inv, TaskAs, NoTask
  <2>9. name \in 0..commands /\ file.name \in 0..name
    BY <1>1 DEF Inv, NamesOK
  <2>10. saved.present \in BOOLEAN /\ (saved.present <=> file # NoFile)
    BY <1>1 DEF Inv, SavedAs
  <2> QED
    BY <2>1, <2>3, <2>4, <2>5, <2>6, <2>7, <2>8, <2>9, <2>10
       DEF SessionTreeTypeOK
<1> QED
  BY <1>1, Invariance, PTL

(* After any sequence of splits, moves, swaps, closes, layouts and restores *)
(* the nodes of every tab are one binary tree under its root, not deeper    *)
(* than the limit, with each pane of the tab at one leaf; every tab is in   *)
(* one Space.                                                               *)
THEOREM AlwaysTrees == Spec => []TreesWellFormed
<1>1. ASSUME Inv PROVE TreesWellFormed
  <2>1. /\ SpacesOK(session.spaces, DOMAIN session.tabs, session.serial)
        /\ TabsOK(session.tabs, session.serial, session.nextTerminal)
    BY <1>1 DEF Inv, SessionOK, Laid
  <2>2. /\ UNION Range(session.spaces) = DOMAIN session.tabs
        /\ \A a, b \in DOMAIN session.spaces :
              a # b => session.spaces[a] \cap session.spaces[b] = {}
    BY <2>1 DEF SpacesOK
  <2>3. ASSUME NEW t \in DOMAIN session.tabs
        PROVE  LET tab == session.tabs[t]
               IN  /\ tab.root \in DOMAIN tab.nodes
                   /\ \A n \in DOMAIN tab.nodes :
                         Children(tab.nodes[n]) \subseteq DOMAIN tab.nodes
                   /\ IsInjective(Preorder(tab))
                   /\ ToSet(Preorder(tab)) = DOMAIN tab.nodes
                   /\ IsInjective([n \in Leaves(tab) |-> tab.nodes[n].pane])
                   /\ {tab.nodes[n].pane : n \in Leaves(tab)}
                         = DOMAIN tab.panes
                   /\ \A n \in Leaves(tab) : Depth(tab, n) <= MaxDepth
    <3> DEFINE tab == session.tabs[t]
    <3>1. Holds(tab, DOMAIN tab.panes)
      <4>1. TabOK(tab, session.serial, session.nextTerminal)
        BY <2>1 DEF TabsOK
      <4> QED
        BY <4>1, PanesType
    <3> HIDE DEF tab
    <3>2. /\ IsTree(tab)
          /\ {tab.nodes[n].pane : n \in Leaves(tab)} = DOMAIN tab.panes
          /\ \A m, n \in Leaves(tab) :
                tab.nodes[m].pane = tab.nodes[n].pane => m = n
      BY <3>1 DEF Holds
    <3>3. /\ tab.root \in DOMAIN tab.nodes
          /\ \A n \in DOMAIN tab.nodes :
                Children(tab.nodes[n]) \subseteq DOMAIN tab.nodes
      BY <3>2, RootIs, KidsAre DEF Kids
    <3>4. /\ IsInjective(Preorder(tab))
          /\ ToSet(Preorder(tab)) = DOMAIN tab.nodes
      BY <3>2, PreorderType
    <3>5. IsInjective([n \in Leaves(tab) |-> tab.nodes[n].pane])
      BY <3>2 DEF IsInjective
    <3>6. \A n \in Leaves(tab) : Depth(tab, n) <= MaxDepth
      <4>1. Within(tab, MaxDepth) /\ MaxDepth \in Nat
        BY <3>2, LevelExists, LimitsType DEF Within
      <4>2. \A n \in Leaves(tab) : n \in DOMAIN tab.nodes
        BY DEF Leaves
      <4>3. \A n \in Leaves(tab) : Depth(tab, n) \in 0..MaxDepth
        BY <3>2, <4>1, <4>2, DepthLeast
      <4> QED
        BY <4>1, <4>3
    <3> QED
      BY <3>2, <3>3, <3>4, <3>5, <3>6 DEF tab
  <2> QED
    BY <2>2, <2>3 DEF TreesWellFormed
<1> QED
  BY <1>1, Invariance, PTL

(* The panes that have a terminal of the Session: one.                      *)
LEMMA OnePane ==
    ASSUME SessionOK(session), NEW x \in DOMAIN session.terminals
    PROVE  Cardinality(PanesWith(x)) = 1
<1>1. /\ TabsOK(session.tabs, session.serial, session.nextTerminal)
  BY DEF SessionOK, Laid
<1> DEFINE t == TabWith(session, x)
           p == PaneWith(session.tabs[t], x)
<1>2. /\ t \in DOMAIN session.tabs /\ p \in DOMAIN session.tabs[t].panes
      /\ session.tabs[t].panes[p].terminal = x /\ x # 0
  BY TabWithIs
<1> HIDE DEF t, p
<1>3. <<t, p>> \in PanesWith(x)
  BY <1>2 DEF PanesWith
<1>4. ASSUME NEW at \in PanesWith(x)
      PROVE  at = <<t, p>>
  <2>1. /\ session.tabs[at[1]].panes[at[2]].terminal = x
        /\ \E tab \in DOMAIN session.tabs :
              at \in {tab} \X DOMAIN session.tabs[tab].panes
    BY DEF PanesWith
  <2>2. PICK tab \in DOMAIN session.tabs :
            at \in {tab} \X DOMAIN session.tabs[tab].panes
    BY <2>1
  <2>3. /\ at = <<at[1], at[2]>> /\ at[1] = tab
        /\ at[2] \in DOMAIN session.tabs[tab].panes
    BY <2>2
  <2>4. Apart(session.tabs)
    BY <1>1 DEF TabsOK
  <2>5. at[1] = t /\ at[2] = p
    BY <1>2, <2>1, <2>3, <2>4 DEF Apart
  <2> QED
    BY <2>3, <2>5
<1>5. PanesWith(x) = {<<t, p>>}
  BY <1>3, <1>4
<1> QED
  BY <1>5, FS_Singleton

(* Every terminal the server keeps is the terminal of one pane, and every   *)
(* server pane has one, however many commands failed half way.              *)
THEOREM TerminalsPaired == Spec => []TerminalsMatch
<1>1. ASSUME Inv PROVE TerminalsMatch
  <2>1. SessionOK(session)
    BY <1>1, InvIs
  <2>2. DOMAIN session.terminals = TerminalsOf(session.tabs)
    BY <2>1 DEF SessionOK
  <2> QED
    BY <2>1, <2>2, OnePane DEF TerminalsMatch
<1> QED
  BY <1>1, Invariance, PTL

(* When the periodic checkpoint has nothing to do, the file shows the       *)
(* Session as it is.                                                        *)
THEOREM FileShows == Spec => []FileCurrent
<1>1. ASSUME Inv PROVE FileCurrent
  <2>1. SavedAs(saved, session, file)
    BY <1>1, InvIs
  <2> QED
    BY <2>1 DEF FileCurrent, Unsaved, SavedAs, SameTopology
<1> QED
  BY <1>1, Invariance, PTL

(* The loop removes the panes of shells that ended cleanly and nothing      *)
(* else.                                                                    *)
THEOREM OthersSpared == Spec => PumpSpares
<1>1. ASSUME Inv, [Next]_vars
      PROVE  [Pump => \A t \in DOMAIN session.terminals
                                 \ DOMAIN session'.terminals :
                         session.terminals[t].state = "clean"]_vars
  BY <1>1, InvIs, PumpFine
<1> QED
  BY <1>1, Invariance, PTL DEF Spec, PumpSpares
=============================================================================
