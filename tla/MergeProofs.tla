----------------------------- MODULE MergeProofs -----------------------------
(***************************************************************************)
(* Theorems about module Merge, proved with TLAPS: the merged game plays   *)
(* in lockstep with the two games it was made of, and its region is the    *)
(* product of theirs, for every pair of solved games.                      *)
(*                                                                         *)
(* The renumberings are ranks: of the states with those that have a        *)
(* counter first, and of the states that can be reached.  A rank numbers a *)
(* set from 0, without a gap and in order (RankNumbers).                   *)
(*                                                                         *)
(* The threshold is never below the number of states with a counter        *)
(* (ThresholdEnough).  It may be above it (Threshold in Merge); this does  *)
(* not change the vectors, as the counters that grow are those which       *)
(* forward_saturation lets grow (Quiet).                                   *)
(***************************************************************************)
EXTENDS Merge, FiniteSetTheorems, TLAPS

Nums == INSTANCE KBoundedGameProofs
          WITH States <- {}, NonBool <- {}, Automata <- {}, TopK <- 1

(***************************************************************************)
(* Induction over the natural numbers, for a set.                          *)
(***************************************************************************)
LEMMA Induct ==
  ASSUME NEW T, 0 \in T, \A n \in Nat : n \in T => n + 1 \in T
  PROVE  Nat \subseteq T
<1>1. Nums!GameAssumption
  BY DEF Nums!GameAssumption
<1> QED BY <1>1, Nums!Induction

(***************************************************************************)
(* Definition by recursion over the natural numbers.                       *)
(***************************************************************************)
Recursion(f, base, step) ==
  f[0] = base /\ \A n \in Nat : f[n + 1] = step[<<n, f[n]>>]

(* A step function that maps S into itself has a recursion from any base. *)
LEMMA Recurse ==
  ASSUME NEW S, NEW base \in S, NEW step \in [Nat \X S -> S]
  PROVE  \E f \in [Nat -> S] : Recursion(f, base, step)
<1>1. Nums!GameAssumption
  BY DEF Nums!GameAssumption
<1>2. \E f \in [Nat -> S] : Nums!StepsFrom(f, base, step)
  BY <1>1, Nums!PrimitiveRecursion
<1> QED BY <1>2 DEF Nums!StepsFrom, Recursion

-----------------------------------------------------------------------------
(***************************************************************************)
(* Numbering the elements of a finite set by how many come before them.    *)
(***************************************************************************)
StrictOrder(S, B) ==
  /\ B \subseteq S \X S
  /\ \A a \in S : <<a, a>> \notin B
  /\ \A a, b, c \in S : <<a, b>> \in B /\ <<b, c>> \in B => <<a, c>> \in B
  /\ \A a, b \in S : a = b \/ <<a, b>> \in B \/ <<b, a>> \in B

Below(S, B, s) == {t \in S : <<t, s>> \in B}

Numbers(rank, S, N) ==
  /\ rank \in [S -> 0 .. N - 1]
  /\ \A a, b \in S : rank[a] = rank[b] => a = b
  /\ \A k \in 0 .. N - 1 : \E s \in S : rank[s] = k

(* The size of an initial segment. *)
LEMMA Segment ==
  ASSUME NEW m \in Int, m >= -1
  PROVE  IsFiniteSet(0 .. m) /\ Cardinality(0 .. m) = m + 1
<1>1. /\ IsFiniteSet(0 .. m)
      /\ Cardinality(0 .. m) = IF 0 > m THEN 0 ELSE m - 0 + 1
  BY FS_Interval
<1> QED BY <1>1

(* An injection into a set of the same size reaches all of it. *)
LEMMA InjectionOnto ==
  ASSUME NEW S, IsFiniteSet(S), NEW N \in Nat, N = Cardinality(S),
         NEW f \in [S -> 0 .. N - 1], \A a, b \in S : f[a] = f[b] => a = b
  PROVE  Numbers(f, S, N)
<1>1. IsFiniteSet(0 .. N - 1) /\ Cardinality(0 .. N - 1) = N
  <2>1. N - 1 \in Int /\ N - 1 >= -1 /\ (N - 1) + 1 = N
    OBVIOUS
  <2> QED BY <2>1, Segment
<1>2. f \in Injection(S, 0 .. N - 1)
  BY DEF Injection, IsInjective
<1>3. f \in Surjection(S, 0 .. N - 1)
  BY <1>1, <1>2, FS_Injection
<1> QED BY <1>3 DEF Surjection, Numbers

(* The rank numbers the set, and keeps its order. *)
LEMMA RankNumbers ==
  ASSUME NEW S, IsFiniteSet(S), NEW B, StrictOrder(S, B),
         NEW rank, rank = [s \in S |-> Cardinality(Below(S, B, s))]
  PROVE  /\ Numbers(rank, S, Cardinality(S))
         /\ \A a, b \in S : <<a, b>> \in B => rank[a] < rank[b]
<1> DEFINE N == Cardinality(S)
<1>1. N \in Nat
  BY FS_CardinalityType
<1>2. ASSUME NEW s \in S
      PROVE  /\ Below(S, B, s) \subseteq S /\ IsFiniteSet(Below(S, B, s))
             /\ Cardinality(Below(S, B, s)) \in 0 .. N - 1
  <2>1. Below(S, B, s) \subseteq S /\ s \notin Below(S, B, s)
    BY DEF Below, StrictOrder
  <2>2. /\ IsFiniteSet(Below(S, B, s))
        /\ Cardinality(Below(S, B, s)) =< N
        /\ N = Cardinality(Below(S, B, s)) => S = Below(S, B, s)
    BY <2>1, FS_Subset
  <2>3. Cardinality(Below(S, B, s)) \in Nat
    BY <2>2, FS_CardinalityType
  <2>4. Cardinality(Below(S, B, s)) # N
    BY <2>1, <2>2
  <2> QED BY <1>1, <2>1, <2>2, <2>3, <2>4
<1>3. rank \in [S -> 0 .. N - 1]
  BY <1>2
<1>4. ASSUME NEW a \in S, NEW b \in S, <<a, b>> \in B PROVE rank[a] < rank[b]
  <2> DEFINE X == Below(S, B, a) \cup {a}
  <2>1. X \subseteq Below(S, B, b) /\ a \notin Below(S, B, a)
    BY <1>4 DEF Below, StrictOrder
  <2>2. Cardinality(X) = Cardinality(Below(S, B, a)) + 1
    BY <2>1, <1>2, FS_AddElement
  <2>3. Cardinality(X) =< Cardinality(Below(S, B, b))
    BY <2>1, <1>2, FS_Subset
  <2>4. rank[a] = Cardinality(Below(S, B, a)) /\ rank[b] = Cardinality(Below(S, B, b))
    OBVIOUS
  <2> HIDE DEF X
  <2> QED BY <1>2, <2>2, <2>3, <2>4
<1>5. ASSUME NEW a \in S, NEW b \in S, rank[a] = rank[b] PROVE a = b
  <2>1. rank[a] \in Int /\ rank[b] \in Int
    BY <1>1, <1>3
  <2>2. ~ (<<a, b>> \in B) /\ ~ (<<b, a>> \in B)
    BY <1>4, <1>5, <2>1
  <2> QED BY <2>2 DEF StrictOrder
<1> HIDE DEF N
<1>6. N = Cardinality(S)
  BY DEF N
<1>7. Numbers(rank, S, N)
  BY <1>1, <1>3, <1>5, <1>6, InjectionOnto
<1> QED BY <1>4, <1>6, <1>7

-----------------------------------------------------------------------------
(***************************************************************************)
(* The states of both games and new_init, before anything is renamed.      *)
(***************************************************************************)
All(d, s) == 0 .. MergedSize(d, s) - 1

Counted(d, s) == d.bool_threshold + s.bool_threshold + 1

Before(d, s, t, u) ==
  IF HasCounter(d, s, t) = HasCounter(d, s, u) THEN t < u ELSE HasCounter(d, s, t)

(* The numbers of a pair of games. *)
LEMMA Sizes ==
  ASSUME NEW d, NEW s, IsGame(d), IsGame(s)
  PROVE  /\ d.size \in Nat \ {0} /\ s.size \in Nat \ {0}
         /\ d.bool_threshold \in 0 .. d.size /\ s.bool_threshold \in 0 .. s.size
         /\ d.init \in 0 .. d.size - 1 /\ s.init \in 0 .. s.size - 1
         /\ NewInit(d) = d.size /\ Offset(d) = d.size + 1
         /\ MergedSize(d, s) = d.size + s.size + 1
         /\ MergedSize(d, s) \in Nat /\ Counted(d, s) \in Nat
         /\ NewInit(d) \in All(d, s)
         /\ IsFiniteSet(All(d, s)) /\ Cardinality(All(d, s)) = MergedSize(d, s)
<1>1. /\ d.size \in Nat \ {0} /\ s.size \in Nat \ {0}
      /\ d.bool_threshold \in 0 .. d.size /\ s.bool_threshold \in 0 .. s.size
      /\ d.init \in 0 .. d.size - 1 /\ s.init \in 0 .. s.size - 1
  BY DEF IsGame, StatesOf
<1>2. /\ NewInit(d) = d.size /\ Offset(d) = d.size + 1
      /\ MergedSize(d, s) = d.size + s.size + 1
      /\ MergedSize(d, s) \in Nat \ {0} /\ Counted(d, s) \in Nat
      /\ NewInit(d) \in All(d, s)
  BY <1>1 DEF NewInit, Offset, MergedSize, Counted, All
<1>3. MergedSize(d, s) - 1 \in Int /\ ~ (0 > MergedSize(d, s) - 1)
  BY <1>2
<1>4. /\ IsFiniteSet(0 .. MergedSize(d, s) - 1)
      /\ Cardinality(0 .. MergedSize(d, s) - 1) =
           IF 0 > MergedSize(d, s) - 1 THEN 0 ELSE (MergedSize(d, s) - 1) - 0 + 1
  BY <1>3, FS_Interval
<1>5. Cardinality(0 .. MergedSize(d, s) - 1) = MergedSize(d, s)
  BY <1>2, <1>3, <1>4
<1> QED BY <1>1, <1>2, <1>4, <1>5 DEF All

(* There are as many states with a counter as both thresholds say, and one. *)
LEMMA CountedStates ==
  ASSUME NEW d, NEW s, IsGame(d), IsGame(s)
  PROVE  LET C == {t \in All(d, s) : HasCounter(d, s, t)}
         IN  IsFiniteSet(C) /\ Cardinality(C) = Counted(d, s)
<1> DEFINE C == {t \in All(d, s) : HasCounter(d, s, t)}
           A == 0 .. d.bool_threshold - 1
           B == d.size .. d.size + s.bool_threshold
<1>1. C = A \cup B /\ A \cap B = {}
  <2>1. /\ d.size \in Nat \ {0} /\ s.size \in Nat \ {0}
        /\ d.bool_threshold \in 0 .. d.size /\ s.bool_threshold \in 0 .. s.size
        /\ All(d, s) = 0 .. d.size + s.size
    BY Sizes DEF All
  <2>2. \A t \in All(d, s) : HasCounter(d, s, t) <=> t \in A \cup B
    BY <2>1 DEF HasCounter, NewInit
  <2>3. A \subseteq All(d, s) /\ B \subseteq All(d, s) /\ A \cap B = {}
    BY <2>1
  <2> HIDE DEF A, B
  <2> QED BY <2>2, <2>3
<1>2. IsFiniteSet(A) /\ Cardinality(A) = d.bool_threshold
  <2>1. d.bool_threshold \in Nat
    BY Sizes
  <2>2. d.bool_threshold - 1 \in Int /\ d.bool_threshold - 1 >= -1
        /\ (d.bool_threshold - 1) + 1 = d.bool_threshold
    BY <2>1
  <2> QED BY <2>2, Segment
<1>3. IsFiniteSet(B) /\ Cardinality(B) = s.bool_threshold + 1
  <2>1. d.size \in Int /\ d.size + s.bool_threshold \in Int /\ s.bool_threshold \in Nat
    BY Sizes
  <2>2. /\ IsFiniteSet(B)
        /\ Cardinality(B) = IF d.size > d.size + s.bool_threshold THEN 0
                            ELSE (d.size + s.bool_threshold) - d.size + 1
    BY <2>1, FS_Interval
  <2> QED BY <2>1, <2>2
<1>4. IsFiniteSet(A \cup B) /\ Cardinality(A \cup B) =
        Cardinality(A) + Cardinality(B) - Cardinality(A \cap B)
  BY <1>2, <1>3, FS_Union
<1>5. Cardinality(A \cap B) = 0
  BY <1>1, FS_EmptySet
<1>6. d.bool_threshold \in Int /\ s.bool_threshold \in Int
  BY Sizes
<1> HIDE DEF A, B, C
<1>7. Cardinality(C) = Counted(d, s) /\ IsFiniteSet(C)
  BY <1>1, <1>2, <1>3, <1>4, <1>5, <1>6 DEF Counted
<1> QED BY <1>7 DEF C

(***************************************************************************)
(* rename numbers all states, those with a counter first.                  *)
(***************************************************************************)
LEMMA RenameNumbers ==
  ASSUME NEW d, NEW s, IsGame(d), IsGame(s)
  PROVE  /\ Numbers(Rename(d, s), All(d, s), MergedSize(d, s))
         /\ \A t \in All(d, s) : HasCounter(d, s, t) => Rename(d, s)[t] < Counted(d, s)
<1> DEFINE S == All(d, s)
           B == {p \in S \X S : Before(d, s, p[1], p[2])}
           C == {t \in S : HasCounter(d, s, t)}
<1>1. S \subseteq Int /\ IsFiniteSet(S) /\ Cardinality(S) = MergedSize(d, s)
  BY Sizes DEF All
<1>2. ASSUME NEW t \in S, NEW u \in S PROVE <<t, u>> \in B <=> Before(d, s, t, u)
  OBVIOUS
<1>3. StrictOrder(S, B)
  <2>1. B \subseteq S \X S
    OBVIOUS
  <2>0. \A t \in S : HasCounter(d, s, t) \in BOOLEAN
    BY DEF HasCounter
  <2>2. \A t \in S : ~ Before(d, s, t, t)
    BY <1>1 DEF Before
  <2>3. \A t, u, w \in S : Before(d, s, t, u) /\ Before(d, s, u, w) => Before(d, s, t, w)
    <3> HIDE DEF S, B
    <3> QED BY <1>1, <2>0 DEF Before
  <2>4. \A t, u \in S : t = u \/ Before(d, s, t, u) \/ Before(d, s, u, t)
    <3> HIDE DEF S, B
    <3> QED BY <1>1, <2>0 DEF Before
  <2> HIDE DEF B, S
  <2> QED BY <2>1, <2>2, <2>3, <2>4, <1>2 DEF StrictOrder
<1>4. ASSUME NEW t \in S PROVE Below(S, B, t) = {u \in S : Before(d, s, u, t)}
  BY <1>2 DEF Below
<1>5. Rename(d, s) = [t \in S |-> Cardinality(Below(S, B, t))]
  <2>1. Rename(d, s) = [t \in S |-> Cardinality({u \in S : Before(d, s, u, t)})]
    BY DEF Rename, Before, All
  <2> HIDE DEF B, S
  <2> QED BY <2>1, <1>4
<1> HIDE DEF B
<1>6. Numbers(Rename(d, s), S, MergedSize(d, s))
  <2> HIDE DEF S
  <2> QED BY <1>1, <1>3, <1>5, RankNumbers
<1>7. ASSUME NEW t \in S, HasCounter(d, s, t) PROVE Rename(d, s)[t] < Counted(d, s)
  <2>1. Below(S, B, t) \subseteq C \ {t} /\ t \in C
    BY <1>4, <1>7, <1>1 DEF Before
  <2>2. IsFiniteSet(C) /\ Cardinality(C) = Counted(d, s)
    BY CountedStates
  <2> HIDE DEF C, S
  <2>3. IsFiniteSet(C \ {t}) /\ Cardinality(C \ {t}) = Counted(d, s) - 1
    BY <2>1, <2>2, FS_RemoveElement
  <2>4. Cardinality(Below(S, B, t)) =< Counted(d, s) - 1 /\ IsFiniteSet(Below(S, B, t))
    BY <2>1, <2>3, FS_Subset
  <2>5. Cardinality(Below(S, B, t)) \in Nat /\ Counted(d, s) \in Nat
    BY <2>4, FS_CardinalityType, Sizes
  <2>6. Rename(d, s)[t] = Cardinality(Below(S, B, t))
    BY <1>5
  <2> QED BY <2>4, <2>5, <2>6
<1> QED BY <1>6, <1>7

-----------------------------------------------------------------------------
(***************************************************************************)
(* purge_unreachable_states follows edges as often as there are states,    *)
(* and by then finds nothing new: what is left is closed under edges.      *)
(***************************************************************************)
Follow(edges, W) == W \cup {e[4] : e \in {e \in edges : e[1] \in W}}

Rounds(W, edges, init) ==
  W[0] = {init} /\ \A n \in Nat : W[n + 1] = Follow(edges, W[n])

(* The states within n edges, for every n. *)
LEMMA WithinFacts ==
  ASSUME NEW edges, NEW init, NEW size \in Nat,
         NEW A, init \in A, \A e \in edges : e[4] \in A
  PROVE  \E W \in [Nat -> SUBSET A] :
           /\ Rounds(W, edges, init)
           /\ Reachable(edges, init, size) = W[size]
<1> DEFINE P == SUBSET A
           step == [p \in Nat \X P |-> Follow(edges, p[2])]
           Eq(g) == g = [n \in Nat |->
                           IF n = 0 THEN {init}
                           ELSE LET W == g[n - 1] IN W \cup {e[4] : e \in {e \in edges : e[1] \in W}}]
           within == CHOOSE g : Eq(g)
<1>1. step \in [Nat \X P -> P] /\ {init} \in P
  BY DEF Follow
<1>2. PICK f \in [Nat -> P] : Recursion(f, {init}, step)
  <2> HIDE DEF P, step
  <2> QED BY <1>1, Recurse
<1>3. f[0] = {init} /\ \A n \in Nat : f[n + 1] = Follow(edges, f[n])
  BY <1>2 DEF Recursion
<1>4. Eq(f)
  <2>1. ASSUME NEW n \in Nat PROVE f[n] = IF n = 0 THEN {init} ELSE Follow(edges, f[n - 1])
    <3>1. CASE n = 0
      BY <3>1, <1>3
    <3>2. CASE n # 0
      <4>1. n - 1 \in Nat /\ (n - 1) + 1 = n
        BY <3>2
      <4> QED BY <4>1, <3>2, <1>3
    <3> QED BY <3>1, <3>2
  <2> QED BY <2>1 DEF Follow
<1>5. Eq(within)
  <2> HIDE DEF Eq
  <2> QED BY <1>4
<1>6. Reachable(edges, init, size) = within[size]
  BY DEF Reachable
<1>7. within[0] = {init} /\ \A n \in Nat : within[n + 1] = Follow(edges, within[n])
  <2> HIDE DEF within
  <2>1. within[0] = {init}
    BY <1>5
  <2>2. ASSUME NEW n \in Nat PROVE within[n + 1] = Follow(edges, within[n])
    <3>1. n + 1 \in Nat /\ n + 1 # 0 /\ (n + 1) - 1 = n
      OBVIOUS
    <3> QED BY <3>1, <1>5 DEF Follow
  <2> QED BY <2>1, <2>2
<1>8. within \in [Nat -> P]
  <2> DEFINE T == {n \in Nat : within[n] \in P}
  <2> HIDE DEF within
  <2>1. 0 \in T
    BY <1>7
  <2>2. ASSUME NEW n \in Nat, n \in T PROVE n + 1 \in T
    BY <1>7, <2>2 DEF Follow
  <2>3. Nat \subseteq T
    <3> HIDE DEF T
    <3> QED BY <2>1, <2>2, Induct
  <2> QED BY <2>3, <1>5
<1> HIDE DEF within
<1> QED BY <1>6, <1>7, <1>8 DEF Rounds

(* After as many rounds as there are states, no edge leads anywhere new. *)
LEMMA ReachableClosed ==
  ASSUME NEW edges, NEW init, NEW A, IsFiniteSet(A), init \in A,
         \A e \in edges : e[4] \in A,
         NEW R, R = Reachable(edges, init, Cardinality(A))
  PROVE  /\ R \subseteq A /\ init \in R
         /\ \A e \in edges : e[1] \in R => e[4] \in R
<1> DEFINE N == Cardinality(A)
<1>0. N \in Nat
  BY FS_CardinalityType
<1>9. PICK W \in [Nat -> SUBSET A] : Rounds(W, edges, init) /\ Reachable(edges, init, N) = W[N]
  <2> HIDE DEF N
  <2> QED BY <1>0, WithinFacts
<1>1. /\ W[0] = {init} /\ \A n \in Nat : W[n + 1] = Follow(edges, W[n])
      /\ \A n \in Nat : W[n] \subseteq A
      /\ Reachable(edges, init, N) = W[N]
  BY <1>9 DEF Rounds
<1> DEFINE Closed(X) == \A e \in edges : e[1] \in X => e[4] \in X
           T == {n \in Nat : /\ init \in W[n] /\ IsFiniteSet(W[n])
                             /\ Closed(W[n]) \/ Cardinality(W[n]) >= n + 1}
<1>2. 0 \in T
  <2>1. IsFiniteSet({init}) /\ Cardinality({init}) = 1
    BY FS_Singleton
  <2>2. IsFiniteSet(W[0]) /\ Cardinality(W[0]) >= 0 + 1 /\ init \in W[0]
    BY <2>1, <1>1
  <2> QED BY <2>2
<1>3. ASSUME NEW n \in Nat, n \in T PROVE n + 1 \in T
  <2>1. W[n] \subseteq W[n + 1] /\ W[n + 1] \subseteq A
    BY <1>1 DEF Follow
  <2>2. IsFiniteSet(W[n]) /\ IsFiniteSet(W[n + 1])
    BY <1>3, <2>1, FS_Subset
  <2>3. Cardinality(W[n]) \in Nat /\ Cardinality(W[n + 1]) \in Nat
    BY <2>2, FS_CardinalityType
  <2>4. Cardinality(W[n]) =< Cardinality(W[n + 1])
        /\ (Cardinality(W[n + 1]) = Cardinality(W[n]) => W[n + 1] = W[n])
    BY <2>1, <2>2, FS_Subset
  <2>5. CASE W[n + 1] = W[n]
    <3>1. Closed(W[n + 1])
      BY <2>5, <1>1 DEF Follow
    <3> QED BY <3>1, <2>1, <2>2, <1>3
  <2>6. CASE W[n + 1] # W[n]
    <3>1. ~ Closed(W[n])
      <4>1. Closed(W[n]) => Follow(edges, W[n]) = W[n]
        BY DEF Follow
      <4> HIDE DEF Closed
      <4> QED BY <4>1, <2>6, <1>1
    <3>2. Cardinality(W[n]) >= n + 1
      BY <3>1, <1>3
    <3>3. Cardinality(W[n + 1]) >= (n + 1) + 1
      BY <2>3, <2>4, <2>6, <3>2
    <3> QED BY <3>3, <2>1, <2>2, <1>3
  <2> QED BY <2>5, <2>6
<1>4. N \in T
  <2> HIDE DEF T, N
  <2> QED BY <1>0, <1>2, <1>3, Induct
<1>5. Cardinality(W[N]) =< N
  BY <1>0, <1>1, FS_Subset
<1>6. Cardinality(W[N]) \in Nat
  BY <1>4, FS_CardinalityType
<1>7. Closed(W[N])
  BY <1>0, <1>4, <1>5, <1>6
<1> HIDE DEF N
<1>8. R = W[N]
  BY <1>1 DEF N
<1> QED BY <1>0, <1>1, <1>4, <1>7, <1>8

-----------------------------------------------------------------------------
(***************************************************************************)
(* The parts of MergeGames: the edges once renamed, the states that can be *)
(* reached by them, the second renaming, and both renamings together.      *)
(***************************************************************************)
EdgesIn(d, s) == Renamed(AllEdges(d, s), Rename(d, s))

Left(d, s) == Reachable(EdgesIn(d, s), Rename(d, s)[NewInit(d)], MergedSize(d, s))

Second(d, s) == Purge(EdgesIn(d, s), Rename(d, s)[NewInit(d)], MergedSize(d, s))

Both(d, s) == [t \in All(d, s) |-> Second(d, s)[Rename(d, s)[t]]]

(* Edges stay among the states and none leads to new_init. *)
LEMMA AllEdgesFacts ==
  ASSUME NEW d, NEW s, IsGame(d), IsGame(s), NEW e \in AllEdges(d, s)
  PROVE  /\ e[1] \in All(d, s) /\ e[4] \in All(d, s) /\ e[4] # NewInit(d)
         /\ e = <<e[1], e[2], e[3], e[4]>>
<1>1. /\ d.size \in Nat \ {0} /\ s.size \in Nat \ {0} /\ NewInit(d) = d.size
      /\ Offset(d) = d.size + 1 /\ All(d, s) = 0 .. d.size + s.size
  BY Sizes DEF All
<1>2. /\ d.edge \subseteq (0 .. d.size - 1) \X Inputs \X Outputs \X (0 .. d.size - 1)
      /\ s.edge \subseteq (0 .. s.size - 1) \X Inputs \X Outputs \X (0 .. s.size - 1)
  BY DEF IsGame, StatesOf
<1> DEFINE From == {<<f[1] + Offset(d), f[2], f[3], f[4] + Offset(d)>> : f \in s.edge}
           Good(f) == /\ f[1] \in All(d, s) /\ f[4] \in All(d, s) /\ f[4] # NewInit(d)
                      /\ f = <<f[1], f[2], f[3], f[4]>>
<1>3. ASSUME NEW f \in d.edge PROVE Good(f)
  <2>1. PICK a \in 0 .. d.size - 1, i \in Inputs, o \in Outputs, b \in 0 .. d.size - 1 :
          f = <<a, i, o, b>>
    BY <1>2
  <2>2. a \in All(d, s) /\ b \in All(d, s) /\ b # NewInit(d)
    BY <1>1
  <2> QED BY <2>1, <2>2
<1>4. ASSUME NEW f \in From PROVE Good(f)
  <2>1. PICK g \in s.edge : f = <<g[1] + Offset(d), g[2], g[3], g[4] + Offset(d)>>
    OBVIOUS
  <2>2. g[1] \in 0 .. s.size - 1 /\ g[4] \in 0 .. s.size - 1
    BY <1>2
  <2>3. /\ g[1] + Offset(d) \in All(d, s) /\ g[4] + Offset(d) \in All(d, s)
        /\ g[4] + Offset(d) # NewInit(d)
    <3>1. ASSUME NEW x \in 0 .. s.size - 1
          PROVE  x + (d.size + 1) \in 0 .. d.size + s.size /\ x + (d.size + 1) # d.size
      BY <1>1
    <3> QED BY <3>1, <1>1, <2>2
  <2> QED BY <2>1, <2>3
<1> DEFINE Initials == {d.init, s.init + Offset(d)}
<1>5. AllEdges(d, s) = d.edge \cup From
        \cup {<<NewInit(d), f[2], f[3], f[4]>> : f \in {f \in d.edge \cup From : f[1] \in Initials}}
  BY DEF AllEdges
<1> HIDE DEF From, Initials
<1>6. CASE e \in d.edge \cup From
  BY <1>3, <1>4, <1>6
<1>7. CASE e \notin d.edge \cup From
  <2>1. PICK f \in d.edge \cup From : e = <<NewInit(d), f[2], f[3], f[4]>>
    BY <1>5, <1>7
  <2>2. f[4] \in All(d, s) /\ f[4] # NewInit(d)
    BY <1>3, <1>4
  <2>3. NewInit(d) \in All(d, s)
    BY <1>1
  <2> QED BY <2>1, <2>2, <2>3
<1> QED BY <1>6, <1>7

(* What Spot leaves of the states: closed under edges, with new_init. *)
LEMMA LeftFacts ==
  ASSUME NEW d, NEW s, IsGame(d), IsGame(s)
  PROVE  /\ Left(d, s) \subseteq All(d, s) /\ IsFiniteSet(Left(d, s))
         /\ Rename(d, s)[NewInit(d)] \in Left(d, s)
         /\ \A e \in AllEdges(d, s) :
              Rename(d, s)[e[1]] \in Left(d, s) => Rename(d, s)[e[4]] \in Left(d, s)
<1> DEFINE r == Rename(d, s)
           A == All(d, s)
<1>1. /\ NewInit(d) \in A /\ IsFiniteSet(A) /\ Cardinality(A) = MergedSize(d, s)
      /\ A = 0 .. MergedSize(d, s) - 1
  BY Sizes DEF All
<1>2. r \in [A -> A]
  BY RenameNumbers, <1>1 DEF Numbers
<1>3. EdgesIn(d, s) = {<<r[f[1]], f[2], f[3], r[f[4]]>> : f \in AllEdges(d, s)}
  BY DEF EdgesIn, Renamed
<1>4. \A f \in AllEdges(d, s) : f[1] \in A /\ f[4] \in A
  BY AllEdgesFacts
<1> HIDE DEF r, A
<1>5. \A f \in EdgesIn(d, s) : f[4] \in A
  BY <1>2, <1>3, <1>4
<1>6. Left(d, s) = Reachable(EdgesIn(d, s), r[NewInit(d)], Cardinality(A))
  BY <1>1 DEF Left, r
<1>7. r[NewInit(d)] \in A
  BY <1>1, <1>2
<1>8. /\ Left(d, s) \subseteq A /\ r[NewInit(d)] \in Left(d, s)
      /\ \A e \in EdgesIn(d, s) : e[1] \in Left(d, s) => e[4] \in Left(d, s)
  <2> DEFINE E == EdgesIn(d, s)
             R == Left(d, s)
             i == r[NewInit(d)]
  <2>1. R = Reachable(E, i, Cardinality(A)) /\ i \in A /\ (\A e \in E : e[4] \in A) /\ IsFiniteSet(A)
    BY <1>1, <1>5, <1>6, <1>7
  <2> HIDE DEF E, R, i
  <2>2. R \subseteq A /\ i \in R /\ \A e \in E : e[1] \in R => e[4] \in R
    BY <2>1, ReachableClosed
  <2> QED BY <2>2 DEF E, R, i
<1>9. ASSUME NEW e \in AllEdges(d, s), r[e[1]] \in Left(d, s) PROVE r[e[4]] \in Left(d, s)
  <2>1. <<r[e[1]], e[2], e[3], r[e[4]]>> \in EdgesIn(d, s)
    BY <1>3
  <2> QED BY <2>1, <1>8, <1>9
<1>10. IsFiniteSet(Left(d, s))
  BY <1>1, <1>8, FS_Subset
<1> QED BY <1>8, <1>9, <1>10 DEF r, A

(***************************************************************************)
(* What is left keeps its order and is numbered without a gap.             *)
(***************************************************************************)
LEMMA SecondFacts ==
  ASSUME NEW d, NEW s, IsGame(d), IsGame(s)
  PROVE  LET A == All(d, s)
             R == Left(d, s)
             p == Second(d, s)
             N == Cardinality(R)
         IN  /\ p \in [A -> -1 .. N - 1]
             /\ \A t \in A : p[t] = -1 <=> t \notin R
             /\ Numbers([t \in R |-> p[t]], R, N)
             /\ \A t \in R : p[t] = Cardinality({u \in R : u < t})
<1> DEFINE A == All(d, s)
           R == Left(d, s)
           p == Second(d, s)
           B == {q \in R \X R : q[1] < q[2]}
           rank == [t \in R |-> Cardinality(Below(R, B, t))]
<1>1. R \subseteq Int /\ R \subseteq A /\ IsFiniteSet(R)
  BY LeftFacts, Sizes DEF All
<1>2. StrictOrder(R, B)
  <2>1. \A t, u \in R : <<t, u>> \in B <=> t < u
    OBVIOUS
  <2>2. B \subseteq R \X R
    OBVIOUS
  <2> HIDE DEF B
  <2> QED BY <1>1, <2>1, <2>2 DEF StrictOrder
<1>3. ASSUME NEW t \in R PROVE Below(R, B, t) = {u \in R : u < t}
  BY DEF Below
<1> HIDE DEF B
<1>4. Numbers(rank, R, Cardinality(R))
  <2> HIDE DEF rank
  <2>1. rank = [t \in R |-> Cardinality(Below(R, B, t))]
    BY DEF rank
  <2> QED BY <1>1, <1>2, <2>1, RankNumbers
<1>5. p = [t \in A |-> IF t \in R THEN Cardinality({u \in R : u < t}) ELSE -1]
  BY DEF Second, Purge, Left, All
<1>6. ASSUME NEW t \in R
      PROVE  p[t] = Cardinality({u \in R : u < t}) /\ p[t] = rank[t]
  <2>1. p[t] = Cardinality({u \in R : u < t})
    <3> HIDE DEF p, R, A
    <3> QED BY <1>1, <1>5
  <2>2. rank[t] = Cardinality({u \in R : u < t})
    BY <1>3
  <2> QED BY <2>1, <2>2
<1>7. ASSUME NEW t \in A, t \notin R PROVE p[t] = -1
  <2> HIDE DEF p
  <2> QED BY <1>5, <1>7
<1> HIDE DEF rank, p
<1>8. [t \in R |-> p[t]] = rank
  BY <1>4, <1>6 DEF Numbers
<1>9. Cardinality(R) \in Nat
  BY <1>1, FS_CardinalityType
<1>10. \A t \in R : p[t] \in 0 .. Cardinality(R) - 1
  BY <1>4, <1>6 DEF Numbers
<1>11. \A t \in R : p[t] # -1
  BY <1>9, <1>10
<1>12. DOMAIN p = A /\ p = [t \in A |-> p[t]]
  BY <1>5
<1>13. \A t \in A : p[t] \in -1 .. Cardinality(R) - 1
  BY <1>7, <1>9, <1>10
<1>14. p \in [A -> -1 .. Cardinality(R) - 1]
  BY <1>12, <1>13
<1> QED BY <1>4, <1>6, <1>7, <1>8, <1>11, <1>14 DEF p

(***************************************************************************)
(* Both renamings together: every state that is left has one number, all   *)
(* numbers are used, and edges lead from what is left to what is left.     *)
(***************************************************************************)
LEMMA BothFacts ==
  ASSUME NEW d, NEW s, IsGame(d), IsGame(s)
  PROVE  LET b == Both(d, s)
             N == Cardinality(Left(d, s))
         IN  /\ N \in Nat /\ b \in [All(d, s) -> -1 .. N - 1]
             /\ \A t, u \in All(d, s) : b[t] = b[u] /\ b[t] # -1 => t = u
             /\ \A q \in 0 .. N - 1 : \E t \in All(d, s) : b[t] = q
             /\ b[NewInit(d)] # -1
             /\ \A e \in AllEdges(d, s) : b[e[1]] # -1 => b[e[4]] # -1
             /\ \A t \in All(d, s) : b[t] # -1 =>
                  /\ Rename(d, s)[t] \in Left(d, s)
                  /\ b[t] = Cardinality({u \in Left(d, s) : u < Rename(d, s)[t]})
<1> DEFINE r == Rename(d, s)
           A == All(d, s)
           R == Left(d, s)
           p == Second(d, s)
           b == Both(d, s)
           N == Cardinality(R)
<1>1. /\ NewInit(d) \in A /\ A = 0 .. MergedSize(d, s) - 1 /\ MergedSize(d, s) \in Nat
  BY Sizes DEF All
<1>2. Numbers(r, A, MergedSize(d, s))
  BY RenameNumbers
<1>3. /\ R \subseteq A /\ IsFiniteSet(R) /\ r[NewInit(d)] \in R
      /\ \A e \in AllEdges(d, s) : r[e[1]] \in R => r[e[4]] \in R
  BY LeftFacts
<1>4. /\ p \in [A -> -1 .. N - 1]
      /\ \A t \in A : p[t] = -1 <=> t \notin R
      /\ Numbers([t \in R |-> p[t]], R, N)
      /\ \A t \in R : p[t] = Cardinality({u \in R : u < t})
  BY SecondFacts
<1>5. N \in Nat
  BY <1>3, FS_CardinalityType
<1>6. r \in [A -> A] /\ (\A t, u \in A : r[t] = r[u] => t = u) /\ \A k \in A : \E t \in A : r[t] = k
  BY <1>1, <1>2 DEF Numbers
<1>7. b = [t \in A |-> p[r[t]]]
  BY DEF Both
<1> HIDE DEF r, A, R, p, b, N
<1>8. b \in [A -> -1 .. N - 1] /\ \A t \in A : b[t] = p[r[t]]
  BY <1>4, <1>6, <1>7
<1>9. \A t \in A : b[t] # -1 <=> r[t] \in R
  BY <1>4, <1>6, <1>8
<1>10. ASSUME NEW t \in A, NEW u \in A, b[t] = b[u], b[t] # -1 PROVE t = u
  <2>1. r[t] \in R /\ r[u] \in R
    BY <1>9, <1>10
  <2>2. p[r[t]] = p[r[u]]
    BY <1>8, <1>10
  <2>3. r[t] = r[u]
    BY <2>1, <2>2, <1>4 DEF Numbers
  <2> QED BY <2>3, <1>6
<1>11. ASSUME NEW q \in 0 .. N - 1 PROVE \E t \in A : b[t] = q
  <2>1. PICK k \in R : p[k] = q
    BY <1>4 DEF Numbers
  <2>2. PICK t \in A : r[t] = k
    BY <1>3, <1>6
  <2> QED BY <2>1, <2>2, <1>8
<1>12. \A e \in AllEdges(d, s) : b[e[1]] # -1 => b[e[4]] # -1
  <2>1. \A e \in AllEdges(d, s) : e[1] \in A /\ e[4] \in A
    BY AllEdgesFacts DEF A
  <2> QED BY <2>1, <1>3, <1>9
<1>13. b[NewInit(d)] # -1
  BY <1>1, <1>3, <1>9
<1>14. \A t \in A : b[t] # -1 => r[t] \in R /\ b[t] = Cardinality({u \in R : u < r[t]})
  BY <1>4, <1>8, <1>9
<1> QED BY <1>5, <1>8, <1>10, <1>11, <1>12, <1>13, <1>14 DEF r, A, R, b, N

-----------------------------------------------------------------------------
(***************************************************************************)
(* bool_threshold is lowered once for each removed state below it at most: *)
(* After is what the loop over the states makes of it.                     *)
(***************************************************************************)
Lowered(d, s, t, now) ==
  IF Second(d, s)[Rename(d, s)[t]] = -1 /\ Rename(d, s)[t] < now THEN now - 1 ELSE now

ThresholdOf(d, s) == Threshold(d, s, Rename(d, s), Second(d, s))

(* The threshold is what is left after each rank has been looked at. *)
LEMMA AfterFacts ==
  ASSUME NEW d, NEW s, IsGame(d), IsGame(s)
  PROVE  \E f \in [Nat -> Int] :
           /\ f[0] = Counted(d, s)
           /\ \A n \in Nat : f[n + 1] = Lowered(d, s, n, f[n])
           /\ ThresholdOf(d, s) = f[MergedSize(d, s)]
<1> DEFINE M == MergedSize(d, s)
           step == [p \in Nat \X Int |-> Lowered(d, s, p[1], p[2])]
           r == Rename(d, s)
           r2 == Second(d, s)
           Eq(g) == g = [t \in 0 .. MergedSize(d, s) |->
                           IF t = 0 THEN d.bool_threshold + s.bool_threshold + 1
                           ELSE LET now == g[t - 1]
                                IN  IF r2[r[t - 1]] = -1 /\ r[t - 1] < now THEN now - 1 ELSE now]
           after == CHOOSE g : Eq(g)
<1>0. M \in Nat /\ Counted(d, s) \in Int
  BY Sizes
<1>1. step \in [Nat \X Int -> Int]
  BY DEF Lowered
<1>2. PICK f \in [Nat -> Int] : Recursion(f, Counted(d, s), step)
  <2> HIDE DEF step
  <2> QED BY <1>0, <1>1, Recurse
<1>3. f[0] = Counted(d, s) /\ \A n \in Nat : f[n + 1] = Lowered(d, s, n, f[n])
  BY <1>2 DEF Recursion
<1> DEFINE h == [t \in 0 .. M |-> f[t]]
<1>4. Eq(h)
  <2>1. ASSUME NEW t \in 0 .. M
        PROVE  h[t] = IF t = 0 THEN Counted(d, s) ELSE Lowered(d, s, t - 1, h[t - 1])
    <3>1. CASE t = 0
      BY <3>1, <1>3
    <3>2. CASE t # 0
      <4>1. t - 1 \in Nat /\ (t - 1) + 1 = t /\ t - 1 \in 0 .. M
        BY <3>2, <1>0
      <4> HIDE DEF M
      <4> QED BY <4>1, <3>2, <1>3
    <3> QED BY <3>1, <3>2
  <2> HIDE DEF h
  <2>2. h = [t \in 0 .. M |-> IF t = 0 THEN Counted(d, s) ELSE Lowered(d, s, t - 1, h[t - 1])]
    <3>1. h = [t \in 0 .. M |-> h[t]]
      BY DEF h
    <3> HIDE DEF M
    <3> QED BY <2>1, <3>1
  <2> QED BY <2>2 DEF Lowered, Counted
<1>5. Eq(after)
  <2> HIDE DEF Eq
  <2> QED BY <1>4
<1>6. ThresholdOf(d, s) = after[M]
  BY DEF ThresholdOf, Threshold
<1>7. /\ after[0] = Counted(d, s)
      /\ \A t \in 1 .. M : after[t] = Lowered(d, s, t - 1, after[t - 1])
  <2> HIDE DEF after, M
  <2>1. after = [t \in 0 .. M |-> IF t = 0 THEN Counted(d, s) ELSE Lowered(d, s, t - 1, after[t - 1])]
    BY <1>5 DEF Lowered, Counted, M
  <2>2. after[0] = Counted(d, s)
    <3>1. 0 \in 0 .. M
      BY <1>0
    <3> QED BY <2>1, <3>1
  <2>3. ASSUME NEW t \in 1 .. M PROVE after[t] = Lowered(d, s, t - 1, after[t - 1])
    <3>1. t \in 0 .. M /\ t # 0
      BY <1>0
    <3> QED BY <2>1, <3>1
  <2> QED BY <2>2, <2>3
<1> HIDE DEF after, M
<1> DEFINE T == {n \in Nat : n =< M => after[n] = f[n]}
<1>8. 0 \in T
  BY <1>3, <1>7
<1>9. ASSUME NEW n \in Nat, n \in T PROVE n + 1 \in T
  <2>1. CASE n + 1 =< M
    <3>1. n + 1 \in 1 .. M /\ (n + 1) - 1 = n /\ n =< M
      BY <2>1, <1>0
    <3>2. after[n + 1] = Lowered(d, s, n, after[n])
      BY <3>1, <1>7
    <3> QED BY <3>1, <3>2, <1>3, <1>9
  <2>2. CASE ~ (n + 1 =< M)
    BY <2>2
  <2> QED BY <2>1, <2>2
<1>10. M \in T
  <2> HIDE DEF T
  <2> QED BY <1>0, <1>8, <1>9, Induct
<1>11. ThresholdOf(d, s) = f[M]
  BY <1>0, <1>6, <1>10
<1> QED BY <1>3, <1>11 DEF M

(* What the loop takes off is no more than the removed states below. *)
LEMMA ThresholdBound ==
  ASSUME NEW d, NEW s, IsGame(d), IsGame(s)
  PROVE  LET X == {q \in 0 .. Counted(d, s) - 1 : q \notin Left(d, s)}
         IN  /\ IsFiniteSet(X) /\ ThresholdOf(d, s) \in Int
             /\ ThresholdOf(d, s) >= Counted(d, s) - Cardinality(X)
<1> DEFINE T == Counted(d, s)
           M == MergedSize(d, s)
           r == Rename(d, s)
           Seen(n) == {q \in 0 .. T - 1 : q \notin Left(d, s) /\ \E t \in 0 .. n - 1 : r[t] = q}
           X == {q \in 0 .. T - 1 : q \notin Left(d, s)}
<1>1. PICK f \in [Nat -> Int] :
        /\ f[0] = T /\ \A n \in Nat : f[n + 1] = Lowered(d, s, n, f[n])
        /\ ThresholdOf(d, s) = f[M]
  BY AfterFacts
<1>2. T \in Nat /\ M \in Nat /\ All(d, s) = 0 .. M - 1
  BY Sizes DEF All
<1>3. /\ r \in [0 .. M - 1 -> 0 .. M - 1]
      /\ \A t, u \in 0 .. M - 1 : r[t] = r[u] => t = u
  BY <1>2, RenameNumbers DEF Numbers
<1>4. \A q \in 0 .. M - 1 : Second(d, s)[q] = -1 <=> q \notin Left(d, s)
  BY <1>2, SecondFacts
<1>5. IsFiniteSet(X)
  <2>1. T - 1 \in Int /\ T - 1 >= -1
    BY <1>2
  <2>2. IsFiniteSet(0 .. T - 1)
    BY <2>1, Segment
  <2> QED BY <2>2, FS_Subset
<1> HIDE DEF T, M, r
<1>6. ASSUME NEW n \in Nat
      PROVE  /\ Seen(n) \subseteq X /\ IsFiniteSet(Seen(n)) /\ Cardinality(Seen(n)) \in Nat
             /\ Cardinality(Seen(n)) =< Cardinality(X)
  <2>1. Seen(n) \subseteq X
    OBVIOUS
  <2> HIDE DEF Seen, X
  <2> QED BY <2>1, <1>5, FS_Subset, FS_CardinalityType
<1> DEFINE U == {n \in Nat : n =< M => f[n] =< T /\ f[n] >= T - Cardinality(Seen(n))}
<1>7. 0 \in U
  <2>1. Seen(0) = {}
    OBVIOUS
  <2>2. Cardinality(Seen(0)) = 0
    BY <2>1, FS_EmptySet
  <2> HIDE DEF Seen
  <2>3. f[0] =< T /\ f[0] >= T - Cardinality(Seen(0))
    BY <1>1, <1>2, <2>2
  <2> QED BY <2>3
<1>8. ASSUME NEW n \in Nat, n \in U PROVE n + 1 \in U
  <2>1. SUFFICES ASSUME n + 1 =< M
                 PROVE  f[n + 1] =< T /\ f[n + 1] >= T - Cardinality(Seen(n + 1))
    OBVIOUS
  <2>2. n =< M /\ n \in 0 .. M - 1 /\ f[n] \in Int
    BY <2>1, <1>1, <1>2
  <2>3. f[n] =< T /\ f[n] >= T - Cardinality(Seen(n))
    BY <2>2, <1>8
  <2>4. f[n + 1] = IF Second(d, s)[r[n]] = -1 /\ r[n] < f[n] THEN f[n] - 1 ELSE f[n]
    BY <1>1 DEF Lowered, r
  <2>5. r[n] \in 0 .. M - 1
    BY <2>2, <1>3
  <2>6. Seen(n) \subseteq Seen(n + 1)
    <3>1. 0 .. n - 1 \subseteq 0 .. (n + 1) - 1
      OBVIOUS
    <3> QED BY <3>1
  <2>7. CASE Second(d, s)[r[n]] = -1 /\ r[n] < f[n]
    <3>1. r[n] \in Seen(n + 1)
      <4>1. r[n] \notin Left(d, s)
        BY <2>5, <2>7, <1>4
      <4>2. r[n] \in 0 .. T - 1
        BY <1>2, <2>2, <2>3, <2>5, <2>7
      <4>3. n \in 0 .. (n + 1) - 1
        OBVIOUS
      <4> QED BY <4>1, <4>2, <4>3
    <3>2. r[n] \notin Seen(n)
      <4>1. SUFFICES ASSUME NEW t \in 0 .. n - 1, r[t] = r[n] PROVE FALSE
        OBVIOUS
      <4>2. t \in 0 .. M - 1 /\ t # n
        BY <2>2, <1>2
      <4> QED BY <4>1, <4>2, <2>2, <1>3
    <3>3. Cardinality(Seen(n) \cup {r[n]}) = Cardinality(Seen(n)) + 1
      <4> HIDE DEF Seen
      <4> QED BY <3>2, <1>6, FS_AddElement
    <3>4. Cardinality(Seen(n) \cup {r[n]}) =< Cardinality(Seen(n + 1))
      <4>1. n + 1 \in Nat
        OBVIOUS
      <4>2. IsFiniteSet(Seen(n + 1)) /\ Seen(n) \cup {r[n]} \subseteq Seen(n + 1)
        <5> HIDE DEF Seen
        <5> QED BY <4>1, <3>1, <2>6, <1>6
      <4> HIDE DEF Seen
      <4> QED BY <4>2, FS_Subset
    <3>5. Cardinality(Seen(n)) \in Nat /\ Cardinality(Seen(n + 1)) \in Nat
      <4>1. n + 1 \in Nat
        OBVIOUS
      <4> HIDE DEF Seen
      <4> QED BY <4>1, <1>6
    <3>6. f[n + 1] = f[n] - 1
      BY <2>4, <2>7
    <3> HIDE DEF Seen
    <3> QED BY <3>3, <3>4, <3>5, <3>6, <2>2, <2>3, <1>2
  <2>8. CASE ~ (Second(d, s)[r[n]] = -1 /\ r[n] < f[n])
    <3>1. n + 1 \in Nat
      OBVIOUS
    <3> HIDE DEF Seen
    <3>2. Cardinality(Seen(n)) =< Cardinality(Seen(n + 1))
      BY <3>1, <2>6, <1>6, FS_Subset
    <3>3. Cardinality(Seen(n)) \in Nat /\ Cardinality(Seen(n + 1)) \in Nat
      BY <3>1, <1>6
    <3>4. f[n + 1] = f[n]
      BY <2>4, <2>8
    <3> QED BY <3>2, <3>3, <3>4, <2>2, <2>3, <1>2
  <2> QED BY <2>7, <2>8
<1>9. M \in U
  <2> HIDE DEF U
  <2> QED BY <1>2, <1>7, <1>8, Induct
<1>10. Cardinality(X) \in Nat
  BY <1>5, FS_CardinalityType
<1> HIDE DEF X, Seen
<1>11. Cardinality(Seen(M)) =< Cardinality(X) /\ Cardinality(Seen(M)) \in Nat
  BY <1>2, <1>6
<1>12. f[M] \in Int /\ f[M] >= T - Cardinality(X)
  <2>1. f[M] =< T /\ f[M] >= T - Cardinality(Seen(M)) /\ f[M] \in Int
    BY <1>1, <1>2, <1>9
  <2> HIDE DEF U
  <2> QED BY <2>1, <1>2, <1>10, <1>11
<1> QED BY <1>1, <1>5, <1>12 DEF X, T

(* A state with a counter that is left has a number below the threshold. *)
LEMMA ThresholdEnough ==
  ASSUME NEW d, NEW s, IsGame(d), IsGame(s),
         NEW t \in All(d, s), HasCounter(d, s, t), Both(d, s)[t] # -1
  PROVE  Both(d, s)[t] \in 0 .. ThresholdOf(d, s) - 1
<1> DEFINE T == Counted(d, s)
           R == Left(d, s)
           q == Rename(d, s)[t]
           I == 0 .. T - 1
           L == {u \in R : u < q}
<1>1. /\ q \in R /\ Both(d, s)[t] = Cardinality(L) /\ q < T
  BY BothFacts, RenameNumbers
<1>2. R \subseteq Nat /\ IsFiniteSet(R) /\ T \in Nat
  BY LeftFacts, Sizes DEF All
<1>3. IsFiniteSet(I) /\ Cardinality(I) = T
  <2>1. T - 1 \in Int /\ T - 1 >= -1 /\ (T - 1) + 1 = T
    BY <1>2
  <2> HIDE DEF T
  <2> QED BY <2>1, Segment
<1>4. /\ ThresholdOf(d, s) \in Int
      /\ ThresholdOf(d, s) >= T - Cardinality({u \in I : u \notin R})
  BY ThresholdBound
<1> HIDE DEF T, R, q
<1>5. {u \in I : u \notin R} = I \ R
  OBVIOUS
<1>6. Cardinality(I \ R) = T - Cardinality(I \cap R)
  <2> HIDE DEF I
  <2> QED BY <1>3, FS_Difference
<1>7. L \cup {q} \subseteq I \cap R /\ q \notin L
  <2>1. ASSUME NEW u \in L PROVE u \in I /\ u \in R
    <3>1. u \in R /\ u < q /\ u \in Nat /\ q \in Nat
      BY <1>1, <1>2
    <3> QED BY <3>1, <1>1, <1>2
  <2>2. q \in I /\ q \in R /\ ~ (q < q)
    BY <1>1, <1>2
  <2> QED BY <2>1, <2>2
<1>8. IsFiniteSet(I \cap R) /\ IsFiniteSet(L)
  <2>1. L \subseteq R
    OBVIOUS
  <2> HIDE DEF I, L
  <2> QED BY <2>1, <1>2, <1>3, FS_Subset, FS_Intersection
<1> HIDE DEF I, L
<1>9. Cardinality(L \cup {q}) = Cardinality(L) + 1
  BY <1>7, <1>8, FS_AddElement
<1>10. Cardinality(L \cup {q}) =< Cardinality(I \cap R)
  BY <1>7, <1>8, FS_Subset
<1>11. Cardinality(L) \in Nat /\ Cardinality(I \cap R) \in Nat
  BY <1>8, FS_CardinalityType
<1>12. Cardinality({u \in I : u \notin R}) = T - Cardinality(I \cap R)
  BY <1>5, <1>6
<1>13. ThresholdOf(d, s) >= Cardinality(L) + 1
  BY <1>2, <1>4, <1>9, <1>10, <1>11, <1>12
<1> QED BY <1>1, <1>4, <1>11, <1>13

-----------------------------------------------------------------------------
(***************************************************************************)
(* The merged game: what its parts are, in terms of both renamings.        *)
(***************************************************************************)
MergedEdges(d, s) ==
  {<<Both(d, s)[f[1]], f[2], f[3], Both(d, s)[f[4]]>> :
     f \in {f \in AllEdges(d, s) : Both(d, s)[f[1]] # -1}}

MergedAccepting(d, s) == {Both(d, s)[t] : t \in AllAccepting(d, s)} \ {-1}

MergedRegion(d, s) ==
  {Combine(m1, m2, Both(d, s), Cardinality(Left(d, s))) : m1 \in d.safe, m2 \in s.safe}

(* Each field of the game that merge_aut returns. *)
LEMMA MergedFields ==
  ASSUME NEW d, NEW s, IsGame(d), IsGame(s), NEW m, m = MergeGames(d, s)
  PROVE  /\ m.size = Cardinality(Left(d, s)) /\ m.init = Both(d, s)[NewInit(d)]
         /\ m.rename = Both(d, s) /\ m.bool_threshold = ThresholdOf(d, s)
         /\ m.edge = MergedEdges(d, s) /\ m.acc = MergedAccepting(d, s)
         /\ m.safe = MergedRegion(d, s)
<1> DEFINE r == Rename(d, s)
           A == All(d, s)
           p == Second(d, s)
           b == Both(d, s)
           E == EdgesIn(d, s)
           left == {q \in A : p[q] # -1}
<1>1. /\ m.size = Cardinality(left) /\ m.init = b[NewInit(d)] /\ m.rename = b
      /\ m.bool_threshold = ThresholdOf(d, s)
      /\ m.edge = Renamed({e \in E : e[1] \in left}, p)
      /\ m.acc = {b[t] : t \in AllAccepting(d, s)} \ {-1}
      /\ m.safe = {Combine(m1, m2, b, m.size) : m1 \in d.safe, m2 \in s.safe}
  BY DEF MergeGames, EdgesIn, Second, Both, All, ThresholdOf
<1>2. left = Left(d, s)
  <2>1. (\A t \in A : p[t] = -1 <=> t \notin Left(d, s)) /\ Left(d, s) \subseteq A
    BY SecondFacts, LeftFacts
  <2> HIDE DEF A, p
  <2> QED BY <2>1
<1>3. r \in [A -> A] /\ b = [t \in A |-> p[r[t]]]
  BY RenameNumbers DEF Numbers, All, Both
<1>4. E = {<<r[f[1]], f[2], f[3], r[f[4]]>> : f \in AllEdges(d, s)}
  BY DEF EdgesIn, Renamed
<1>5. \A f \in AllEdges(d, s) : f[1] \in A /\ f[4] \in A
  BY AllEdgesFacts
<1> HIDE DEF r, A, p, b, E
<1>6. ASSUME NEW f \in AllEdges(d, s)
      PROVE  /\ r[f[1]] \in left <=> b[f[1]] # -1
             /\ p[r[f[1]]] = b[f[1]] /\ p[r[f[4]]] = b[f[4]]
  BY <1>3, <1>5
<1>7. m.edge = {<<p[e[1]], e[2], e[3], p[e[4]]>> : e \in {e \in E : e[1] \in left}}
  BY <1>1 DEF Renamed
<1> HIDE DEF left
<1> DEFINE New == {<<b[f[1]], f[2], f[3], b[f[4]]>> : f \in {f \in AllEdges(d, s) : b[f[1]] # -1}}
<1>8. ASSUME NEW x \in m.edge PROVE x \in New
  <2>1. PICK e \in E : e[1] \in left /\ x = <<p[e[1]], e[2], e[3], p[e[4]]>>
    BY <1>7
  <2>2. PICK f \in AllEdges(d, s) : e = <<r[f[1]], f[2], f[3], r[f[4]]>>
    BY <1>4
  <2>3. x = <<b[f[1]], f[2], f[3], b[f[4]]>> /\ b[f[1]] # -1
    BY <2>1, <2>2, <1>6
  <2> QED BY <2>3
<1>9. ASSUME NEW x \in New PROVE x \in m.edge
  <2>1. PICK f \in AllEdges(d, s) : b[f[1]] # -1 /\ x = <<b[f[1]], f[2], f[3], b[f[4]]>>
    OBVIOUS
  <2> DEFINE e == <<r[f[1]], f[2], f[3], r[f[4]]>>
  <2>2. e \in E /\ e[1] \in left /\ x = <<p[e[1]], e[2], e[3], p[e[4]]>>
    BY <2>1, <1>4, <1>6
  <2> HIDE DEF e
  <2> QED BY <2>2, <1>7
<1>10. m.edge = New
  <2> HIDE DEF New
  <2> QED BY <1>8, <1>9
<1>11. m.edge = MergedEdges(d, s)
  BY <1>10 DEF b, MergedEdges
<1>12. m.init = Both(d, s)[NewInit(d)] /\ m.rename = Both(d, s) /\ m.acc = MergedAccepting(d, s)
  BY <1>1 DEF b, MergedAccepting
<1>13. m.size = Cardinality(Left(d, s)) /\ m.bool_threshold = ThresholdOf(d, s)
  BY <1>1, <1>2
<1>14. m.safe = MergedRegion(d, s)
  <2>1. m.safe = {Combine(m1, m2, Both(d, s), Cardinality(Left(d, s))) : m1 \in d.safe, m2 \in s.safe}
    BY <1>1, <1>13 DEF b
  <2> QED BY <2>1 DEF MergedRegion
<1> QED BY <1>11, <1>12, <1>13, <1>14

(***************************************************************************)
(* dest with its own numbers, or src behind new_init.                      *)
(***************************************************************************)
IsPart(d, s, g, k) == (g = d /\ k = 0) \/ (g = s /\ k = Offset(d))

(* The states of a part among all states. *)
LEMMA PartStates ==
  ASSUME NEW d, NEW s, IsGame(d), IsGame(s), NEW g, NEW k, IsPart(d, s, g, k),
         NEW u \in StatesOf(g)
  PROVE  /\ IsGame(g) /\ k \in Nat /\ g.init \in StatesOf(g) /\ u \in Nat
         /\ u + k \in All(d, s) /\ u + k # NewInit(d)
         /\ u < g.bool_threshold => HasCounter(d, s, u + k)
         /\ u + k \in AllAccepting(d, s) <=> u \in g.acc
<1>1. /\ d.size \in Nat \ {0} /\ s.size \in Nat \ {0} /\ NewInit(d) = d.size
      /\ Offset(d) = d.size + 1 /\ All(d, s) = 0 .. d.size + s.size
      /\ d.bool_threshold \in 0 .. d.size /\ s.bool_threshold \in 0 .. s.size
  <2>1. All(d, s) = 0 .. d.size + s.size
    BY Sizes DEF All
  <2> QED BY <2>1, Sizes
<1>2. /\ d.acc \subseteq 0 .. d.bool_threshold - 1 /\ s.acc \subseteq 0 .. s.bool_threshold - 1
  BY DEF IsGame
<1>3. IsGame(g) /\ g.init \in StatesOf(g) /\ u \in Nat
  BY DEF IsPart, IsGame, StatesOf
<1> DEFINE Shifted == {q + Offset(d) : q \in s.acc}
<1>4. AllAccepting(d, s) = d.acc \cup Shifted
        \cup {t \in {NewInit(d)} : d.init \in d.acc \/ s.init \in s.acc}
  BY DEF AllAccepting
<1>5. \A x \in Shifted : \E q \in s.acc : q \in Nat /\ x = q + (d.size + 1)
  BY <1>1, <1>2
<1>6. CASE g = d /\ k = 0
  <2>1. u \in 0 .. d.size - 1 /\ u + k = u
    BY <1>6, <1>3 DEF StatesOf
  <2>2. u + k \in All(d, s) /\ u + k # NewInit(d) /\ (u < g.bool_threshold => HasCounter(d, s, u + k))
    BY <2>1, <1>1, <1>6 DEF HasCounter
  <2>3. u \notin Shifted
    <3> HIDE DEF Shifted
    <3> QED BY <2>1, <1>1, <1>5
  <2> HIDE DEF Shifted
  <2>4. u + k \in AllAccepting(d, s) <=> u \in d.acc
    BY <2>1, <2>2, <2>3, <1>4
  <2> QED BY <2>2, <2>4, <1>3, <1>6
<1>7. CASE g = s /\ k = Offset(d)
  <2>1. u \in 0 .. s.size - 1 /\ u + k = u + (d.size + 1)
    BY <1>1, <1>7 DEF StatesOf
  <2>2. /\ u + k \in All(d, s) /\ u + k # NewInit(d)
        /\ u < g.bool_threshold => HasCounter(d, s, u + k)
    BY <2>1, <1>1, <1>7 DEF HasCounter
  <2>3. u + k \in Shifted <=> u \in s.acc
    <3>1. u \in s.acc => u + k \in Shifted
      BY <1>7
    <3>2. u + k \in Shifted => u \in s.acc
      <4> HIDE DEF Shifted
      <4>1. SUFFICES ASSUME u + k \in Shifted PROVE u \in s.acc
        OBVIOUS
      <4>2. PICK q \in s.acc : q \in Nat /\ u + k = q + (d.size + 1)
        BY <4>1, <1>5
      <4>3. q = u
        BY <4>2, <2>1, <1>1
      <4> QED BY <4>3
    <3> QED BY <3>1, <3>2
  <2>4. u + k \notin d.acc
    BY <2>1, <1>1, <1>2
  <2> HIDE DEF Shifted
  <2>5. u + k \in AllAccepting(d, s) <=> u \in s.acc
    BY <2>2, <2>3, <2>4, <1>4
  <2>6. k \in Nat
    BY <1>1, <1>7
  <2> QED BY <2>2, <2>5, <2>6, <1>3, <1>7
<1> QED BY <1>6, <1>7 DEF IsPart

(* The edges to a state of a part: its own, and those of its initial state *)
(* from new_init.                                                          *)
LEMMA PartEdges ==
  ASSUME NEW d, NEW s, IsGame(d), IsGame(s), NEW g, NEW k, IsPart(d, s, g, k),
         NEW u \in StatesOf(g), NEW t, NEW i, NEW o
  PROVE  <<t, i, o, u + k>> \in AllEdges(d, s) <=>
           \/ \E w \in StatesOf(g) : t = w + k /\ <<w, i, o, u>> \in g.edge
           \/ t = NewInit(d) /\ <<g.init, i, o, u>> \in g.edge
<1>1. /\ d.size \in Nat \ {0} /\ s.size \in Nat \ {0} /\ NewInit(d) = d.size
      /\ Offset(d) = d.size + 1
      /\ d.init \in 0 .. d.size - 1 /\ s.init \in 0 .. s.size - 1
  BY Sizes
<1>2. /\ d.edge \subseteq (0 .. d.size - 1) \X Inputs \X Outputs \X (0 .. d.size - 1)
      /\ s.edge \subseteq (0 .. s.size - 1) \X Inputs \X Outputs \X (0 .. s.size - 1)
  BY DEF IsGame, StatesOf
<1> DEFINE From == {<<f[1] + Offset(d), f[2], f[3], f[4] + Offset(d)>> : f \in s.edge}
           Initials == {d.init, s.init + Offset(d)}
           Own == d.edge \cup From
           First == {<<NewInit(d), f[2], f[3], f[4]>> : f \in {f \in Own : f[1] \in Initials}}
<1>3. AllEdges(d, s) = Own \cup First
  BY DEF AllEdges
<1>4. ASSUME NEW a, NEW c
      PROVE  <<a, i, o, c>> \in From <=>
               \E w \in StatesOf(s), z \in StatesOf(s) :
                 a = w + Offset(d) /\ c = z + Offset(d) /\ <<w, i, o, z>> \in s.edge
  <2>1. ASSUME <<a, i, o, c>> \in From
        PROVE  \E w \in StatesOf(s), z \in StatesOf(s) :
                 a = w + Offset(d) /\ c = z + Offset(d) /\ <<w, i, o, z>> \in s.edge
    <3>1. PICK f \in s.edge : <<a, i, o, c>> = <<f[1] + Offset(d), f[2], f[3], f[4] + Offset(d)>>
      BY <2>1
    <3>2. /\ f[1] \in StatesOf(s) /\ f[4] \in StatesOf(s) /\ f = <<f[1], f[2], f[3], f[4]>>
      BY <1>2 DEF StatesOf
    <3>3. a = f[1] + Offset(d) /\ c = f[4] + Offset(d) /\ i = f[2] /\ o = f[3]
      BY <3>1
    <3> QED BY <3>2, <3>3
  <2>2. ASSUME NEW w \in StatesOf(s), NEW z \in StatesOf(s),
               a = w + Offset(d), c = z + Offset(d), <<w, i, o, z>> \in s.edge
        PROVE  <<a, i, o, c>> \in From
    BY <2>2
  <2> QED BY <2>1, <2>2
<1> HIDE DEF From
<1>5. ASSUME NEW a, NEW c
      PROVE  <<a, i, o, c>> \in First <=>
               a = NewInit(d) /\ \E e \in Initials : <<e, i, o, c>> \in Own
  <2>0. ASSUME NEW f \in Own PROVE f = <<f[1], f[2], f[3], f[4]>>
    <3>1. CASE f \in d.edge
      BY <3>1, <1>2
    <3>2. CASE f \in From
      BY <3>2 DEF From
    <3> QED BY <3>1, <3>2
  <2> HIDE DEF Own, Initials
  <2>1. ASSUME <<a, i, o, c>> \in First
        PROVE  a = NewInit(d) /\ \E e \in Initials : <<e, i, o, c>> \in Own
    <3>1. PICK f \in Own : f[1] \in Initials /\ <<a, i, o, c>> = <<NewInit(d), f[2], f[3], f[4]>>
      BY <2>1
    <3>2. a = NewInit(d) /\ i = f[2] /\ o = f[3] /\ c = f[4]
      BY <3>1
    <3> QED BY <3>1, <3>2, <2>0
  <2>2. ASSUME NEW e \in Initials, <<e, i, o, c>> \in Own, a = NewInit(d)
        PROVE  <<a, i, o, c>> \in First
    BY <2>2
  <2> QED BY <2>1, <2>2
<1> HIDE DEF First
<1>6. CASE g = d /\ k = 0
  <2>1. u \in 0 .. d.size - 1 /\ u + k = u
    BY <1>6 DEF StatesOf
  <2>2. ASSUME NEW a PROVE <<a, i, o, u>> \notin From
    <3>1. \A z \in StatesOf(s) : u # z + Offset(d)
      BY <2>1, <1>1 DEF StatesOf
    <3> QED BY <3>1, <1>4
  <2>3. ASSUME NEW a PROVE <<a, i, o, u>> \in Own <=> <<a, i, o, u>> \in d.edge
    BY <2>2
  <2>4. ASSUME NEW a, <<a, i, o, u>> \in d.edge PROVE a \in StatesOf(d) /\ a + k = a
    BY <2>4, <1>2, <1>6 DEF StatesOf
  <2>5. s.init + Offset(d) \notin StatesOf(d)
    BY <1>1 DEF StatesOf
  <2>6. <<t, i, o, u>> \in First <=> t = NewInit(d) /\ <<d.init, i, o, u>> \in d.edge
    BY <1>5, <2>3, <2>4, <2>5
  <2>7. \A w \in StatesOf(d) : w + k = w
    BY <1>6 DEF StatesOf
  <2> HIDE DEF Own
  <2> QED BY <1>3, <1>6, <2>1, <2>3, <2>4, <2>6, <2>7
<1>7. CASE g = s /\ k = Offset(d)
  <2>1. u \in 0 .. s.size - 1 /\ u + k = u + (d.size + 1)
    BY <1>1, <1>7 DEF StatesOf
  <2>2. ASSUME NEW a PROVE <<a, i, o, u + k>> \notin d.edge
    <3>1. u + k \notin 0 .. d.size - 1
      BY <2>1, <1>1
    <3> QED BY <3>1, <1>2
  <2>3. ASSUME NEW a
        PROVE  <<a, i, o, u + k>> \in Own <=>
                 \E w \in StatesOf(s) : a = w + k /\ <<w, i, o, u>> \in s.edge
    <3>1. \A z \in StatesOf(s) : u + k = z + k => z = u
      BY <2>1, <1>1, <1>7 DEF StatesOf
    <3> QED BY <3>1, <2>2, <1>4, <1>7
  <2>4. <<t, i, o, u + k>> \in First <=> t = NewInit(d) /\ <<s.init, i, o, u>> \in s.edge
    <3>1. \A w \in StatesOf(s) : d.init # w + k /\ (s.init + k = w + k => w = s.init)
      BY <1>1, <1>7 DEF StatesOf
    <3>2. s.init \in StatesOf(s)
      BY <1>1 DEF StatesOf
    <3> HIDE DEF Own
    <3> QED BY <3>1, <3>2, <1>5, <1>7, <2>3
  <2> HIDE DEF Own
  <2> QED BY <1>3, <1>7, <2>3, <2>4
<1> QED BY <1>6, <1>7 DEF IsPart

-----------------------------------------------------------------------------
(***************************************************************************)
(* One step of a play of one game: the counters found at the predecessors  *)
(* with a run, of which the largest is stored.                             *)
(***************************************************************************)
Bump(g, u) == IF u \in g.acc THEN 1 ELSE 0

Cap(x) == IF x =< K THEN x ELSE K

Runs(g, x, i, o, u) == {w \in StatesOf(g) : x[w] # -1 /\ <<w, i, o, u>> \in g.edge}

Found(g, x, i, o, u) == {-1} \cup {Cap(x[w] + Bump(g, u)) : w \in Runs(g, x, i, o, u)}

Largest(S) == CHOOSE x \in S : \A y \in S : x >= y

Kept(g, u, x) == IF u \in 0 .. g.bool_threshold - 1 \/ x =< 0 THEN x ELSE 0

Vector(g) == [StatesOf(g) -> -1 .. K]

(* One letter, as the model defines it, with its parts named. *)
LEMMA ForwardIs ==
  ASSUME NEW g, NEW x, NEW i, NEW o
  PROVE  Forward(g, x, i, o) = [u \in StatesOf(g) |-> Kept(g, u, Largest(Found(g, x, i, o, u)))]
<1>1. \A n : Game(g)!Capped(K, n) = Cap(n)
  BY DEF Game!Capped, Cap
<1>2. \A u : Game(g)!Count(g, u) = Bump(g, u)
  BY DEF Game!Count, Bump
<1>3. \A u : Game(g)!ActivePreds(g, x, i, o, u) = Runs(g, x, i, o, u)
  BY DEF Game!ActivePreds, Runs
<1>4. \A u : {-1} \cup {Game(g)!Capped(K, x[w] + Game(g)!Count(g, u)) :
                          w \in Game(g)!ActivePreds(g, x, i, o, u)} = Found(g, x, i, o, u)
  BY <1>1, <1>2, <1>3 DEF Found
<1>5. \A S : Game(g)!Max(S) = Largest(S)
  BY DEF Game!Max, Largest
<1>6. \A u, n : Game(g)!Stored(u, n) = Kept(g, u, n)
  BY DEF Game!Stored, Kept
<1>7. Forward(g, x, i, o) =
        [u \in StatesOf(g) |->
           Game(g)!Stored(u, Game(g)!Max(
             {-1} \cup {Game(g)!Capped(K, x[w] + Game(g)!Count(g, u)) :
                          w \in Game(g)!ActivePreds(g, x, i, o, u)}))]
  BY DEF Forward, Game!Forward
<1> QED BY <1>4, <1>5, <1>6, <1>7

(* K is a number above 0, and the pairs are of solved games. *)
LEMMA Constants ==
  /\ K \in Nat /\ K > 0
  /\ \A p \in Pairs : IsSolved(p[1]) /\ IsSolved(p[2])
BY MergeAssumption

(* The largest of the counters found is one of them. *)
LEMMA LargestIn ==
  ASSUME NEW S \in SUBSET (-1 .. K), -1 \in S
  PROVE  Largest(S) \in S /\ \A y \in S : y =< Largest(S)
<1>1. Nums!GameAssumption
  BY DEF Nums!GameAssumption
<1>2. K \in Int /\ S \in SUBSET Int /\ S # {} /\ \A x \in S : x =< K
  BY Constants
<1>3. Nums!Max(S) \in S /\ \A y \in S : y =< Nums!Max(S)
  BY <1>1, <1>2, Nums!MaxOfBounded
<1>4. Nums!Max(S) = Largest(S)
  BY DEF Nums!Max, Largest
<1> QED BY <1>3, <1>4

(* What is found are counters, or -1. *)
LEMMA FoundType ==
  ASSUME NEW g, NEW x \in Vector(g), NEW i, NEW o, NEW u
  PROVE  /\ Found(g, x, i, o, u) \subseteq -1 .. K /\ -1 \in Found(g, x, i, o, u)
         /\ Largest(Found(g, x, i, o, u)) \in Found(g, x, i, o, u)
<1>1. K \in Nat /\ K > 0
  BY Constants
<1>2. ASSUME NEW w \in Runs(g, x, i, o, u) PROVE Cap(x[w] + Bump(g, u)) \in -1 .. K
  <2>1. x[w] \in -1 .. K /\ Bump(g, u) \in {0, 1}
    BY DEF Vector, Runs, Bump
  <2> QED BY <1>1, <2>1 DEF Cap
<1>3. Found(g, x, i, o, u) \subseteq -1 .. K /\ -1 \in Found(g, x, i, o, u)
  BY <1>1, <1>2 DEF Found
<1> QED BY <1>3, LargestIn

(* A successor is a vector again. *)
LEMMA ForwardVector ==
  ASSUME NEW g, NEW x \in Vector(g), NEW i, NEW o
  PROVE  Forward(g, x, i, o) \in Vector(g)
<1>1. K \in Nat /\ K > 0
  BY Constants
<1>2. ASSUME NEW u \in StatesOf(g)
      PROVE  Kept(g, u, Largest(Found(g, x, i, o, u))) \in -1 .. K
  <2>1. Largest(Found(g, x, i, o, u)) \in -1 .. K
    BY FoundType
  <2> QED BY <1>1, <2>1 DEF Kept
<1> QED BY <1>2, ForwardIs DEF Vector

(* The initial vector. *)
LEMMA InitialVector ==
  ASSUME NEW g, g.init \in StatesOf(g)
  PROVE  Initial(g) \in Vector(g)
BY Constants DEF Initial, Vector

(***************************************************************************)
(* No counter is above 0 but where forward_saturation lets it grow.        *)
(***************************************************************************)
Quiet(g, x) ==
  \A C : Growing(g, C) => \A t \in StatesOf(g) : t \notin C => x[t] =< 0

(* No counter is above 0 in the initial vector. *)
LEMMA QuietInitial ==
  ASSUME NEW g, g.init \in StatesOf(g)
  PROVE  Quiet(g, Initial(g))
BY DEF Quiet, Initial

(* Where it does not grow, only 0 and -1 are found. *)
LEMMA QuietFound ==
  ASSUME NEW g, NEW x \in Vector(g), NEW i, NEW o, Quiet(g, x),
         NEW C, Growing(g, C), NEW u \in StatesOf(g), u \notin C
  PROVE  Largest(Found(g, x, i, o, u)) =< 0
<1>1. ASSUME NEW w \in Runs(g, x, i, o, u) PROVE Cap(x[w] + Bump(g, u)) =< 0
  <2>1. w \in StatesOf(g) /\ <<w, i, o, u>> \in g.edge
    BY DEF Runs
  <2>2. u \notin g.acc /\ w \notin C
    BY <2>1 DEF Growing
  <2>3. x[w] =< 0 /\ x[w] \in Int /\ Bump(g, u) = 0
    BY <2>1, <2>2 DEF Quiet, Vector, Bump
  <2> QED BY <2>3, Constants DEF Cap
<1>2. \A y \in Found(g, x, i, o, u) : y =< 0
  BY <1>1 DEF Found
<1> QED BY <1>2, FoundType

(* And a letter only lets the counters grow that can. *)
LEMMA QuietStep ==
  ASSUME NEW g, NEW x \in Vector(g), NEW i, NEW o, Quiet(g, x)
  PROVE  Quiet(g, Forward(g, x, i, o))
<1>1. SUFFICES ASSUME NEW C, Growing(g, C), NEW u \in StatesOf(g), u \notin C
               PROVE  Forward(g, x, i, o)[u] =< 0
  BY DEF Quiet
<1>2. Largest(Found(g, x, i, o, u)) =< 0
  BY <1>1, QuietFound
<1>3. Forward(g, x, i, o)[u] = Kept(g, u, Largest(Found(g, x, i, o, u)))
  BY ForwardIs
<1> QED BY <1>2, <1>3 DEF Kept

-----------------------------------------------------------------------------
(***************************************************************************)
(* A vector x of the part g, whose states are shifted by k, is what the    *)
(* vector y of the merged game says: from the first letter on every state  *)
(* has its counter there, or has none when it was removed, and new_init    *)
(* has none; before the first letter both are where they start.            *)
(***************************************************************************)
Beside(d, s, g, k, x, y) ==
  \A w \in StatesOf(g) : LET q == Both(d, s)[w + k]
                         IN  IF q = -1 THEN x[w] = -1 ELSE y[q] = x[w]

Under(d, s, g, k, x, m, y) ==
  \/ Beside(d, s, g, k, x, y) /\ y[m.init] = -1
  \/ x = Initial(g) /\ y = Initial(m)

(* The numbers of the merged game. *)
LEMMA MergedStates ==
  ASSUME NEW d, NEW s, IsGame(d), IsGame(s), NEW m, m = MergeGames(d, s)
  PROVE  /\ \A t \in All(d, s) : Both(d, s)[t] # -1 => Both(d, s)[t] \in StatesOf(m)
         /\ NewInit(d) \in All(d, s) /\ m.init = Both(d, s)[NewInit(d)] /\ m.init # -1
         /\ m.init \in StatesOf(m)
         /\ \A t, u \in All(d, s) : Both(d, s)[t] = Both(d, s)[u] /\ Both(d, s)[t] # -1 => t = u
         /\ \A q \in StatesOf(m) : \E t \in All(d, s) : Both(d, s)[t] = q
<1> DEFINE b == Both(d, s)
           N == Cardinality(Left(d, s))
<1>1. m.size = N /\ m.init = b[NewInit(d)]
  BY MergedFields
<1>2. /\ N \in Nat /\ b \in [All(d, s) -> -1 .. N - 1] /\ b[NewInit(d)] # -1
      /\ \A t, u \in All(d, s) : b[t] = b[u] /\ b[t] # -1 => t = u
      /\ \A q \in 0 .. N - 1 : \E t \in All(d, s) : b[t] = q
  BY BothFacts
<1>3. NewInit(d) \in All(d, s)
  BY Sizes
<1> HIDE DEF b, N
<1>4. \A t \in All(d, s) : b[t] # -1 => b[t] \in 0 .. N - 1
  BY <1>2
<1>5. StatesOf(m) = 0 .. N - 1
  BY <1>1 DEF StatesOf
<1> QED BY <1>1, <1>2, <1>3, <1>4, <1>5 DEF b

(* An edge of the merged game is an edge between states that are left. *)
LEMMA MergedEdge ==
  ASSUME NEW d, NEW s, IsGame(d), IsGame(s), NEW m, m = MergeGames(d, s),
         NEW u \in All(d, s), Both(d, s)[u] # -1, NEW i, NEW o, NEW q
  PROVE  <<q, i, o, Both(d, s)[u]>> \in m.edge <=>
           \E t \in All(d, s) : q = Both(d, s)[t] /\ q # -1 /\ <<t, i, o, u>> \in AllEdges(d, s)
<1> DEFINE b == Both(d, s)
<1>1. m.edge = {<<b[f[1]], f[2], f[3], b[f[4]]>> : f \in {f \in AllEdges(d, s) : b[f[1]] # -1}}
  BY MergedFields DEF MergedEdges
<1>2. \A f \in AllEdges(d, s) : /\ f[1] \in All(d, s) /\ f[4] \in All(d, s)
                                /\ f = <<f[1], f[2], f[3], f[4]>>
  BY AllEdgesFacts
<1>3. \A t, w \in All(d, s) : b[t] = b[w] /\ b[t] # -1 => t = w
  BY MergedStates
<1> HIDE DEF b
<1>4. ASSUME <<q, i, o, b[u]>> \in m.edge
      PROVE  \E t \in All(d, s) : q = b[t] /\ q # -1 /\ <<t, i, o, u>> \in AllEdges(d, s)
  <2>1. PICK f \in AllEdges(d, s) :
          b[f[1]] # -1 /\ <<q, i, o, b[u]>> = <<b[f[1]], f[2], f[3], b[f[4]]>>
    BY <1>1, <1>4
  <2>2. q = b[f[1]] /\ i = f[2] /\ o = f[3] /\ b[u] = b[f[4]]
    BY <2>1
  <2>3. u = f[4]
    BY <2>2, <1>2, <1>3 DEF b
  <2> QED BY <2>1, <2>2, <2>3, <1>2
<1>5. ASSUME NEW t \in All(d, s), q = b[t], q # -1, <<t, i, o, u>> \in AllEdges(d, s)
      PROVE  <<q, i, o, b[u]>> \in m.edge
  <2> DEFINE f == <<t, i, o, u>>
  <2>1. f \in AllEdges(d, s) /\ f[1] = t /\ f[2] = i /\ f[3] = o /\ f[4] = u
    BY <1>5
  <2> HIDE DEF f
  <2> QED BY <2>1, <1>1, <1>5
<1> QED BY <1>4, <1>5 DEF b

(* A state of a part that is left accepts in the merged game as in its own. *)
LEMMA MergedBump ==
  ASSUME NEW d, NEW s, IsGame(d), IsGame(s), NEW m, m = MergeGames(d, s),
         NEW g, NEW k, IsPart(d, s, g, k), NEW u \in StatesOf(g), Both(d, s)[u + k] # -1
  PROVE  Bump(m, Both(d, s)[u + k]) = Bump(g, u)
<1> DEFINE b == Both(d, s)
           A == AllAccepting(d, s)
<1>1. m.acc = {b[t] : t \in A} \ {-1}
  BY MergedFields DEF MergedAccepting
<1>2. u + k \in All(d, s) /\ (u + k \in A <=> u \in g.acc)
  BY PartStates
<1>3. A \subseteq All(d, s)
  <2>1. /\ d.size \in Nat \ {0} /\ s.size \in Nat \ {0} /\ NewInit(d) = d.size
        /\ Offset(d) = d.size + 1
        /\ d.bool_threshold \in 0 .. d.size /\ s.bool_threshold \in 0 .. s.size
    BY Sizes
  <2>2. All(d, s) = 0 .. d.size + s.size
    BY Sizes DEF All
  <2>3. /\ \A q \in d.acc : q \in 0 .. d.size - 1
        /\ \A q \in s.acc : q \in 0 .. s.size - 1
    BY <2>1 DEF IsGame
  <2>4. ASSUME NEW q \in 0 .. s.size - 1 PROVE q + (d.size + 1) \in 0 .. d.size + s.size
    BY <2>1
  <2> QED BY <2>1, <2>2, <2>3, <2>4 DEF AllAccepting
<1>4. \A t, w \in All(d, s) : b[t] = b[w] /\ b[t] # -1 => t = w
  BY MergedStates
<1> HIDE DEF b, A
<1>5. b[u + k] # -1
  BY DEF b
<1>6. b[u + k] \in m.acc <=> u + k \in A
  BY <1>1, <1>2, <1>3, <1>4, <1>5
<1> QED BY <1>2, <1>6 DEF Bump, b

-----------------------------------------------------------------------------
(***************************************************************************)
(* A removed state finds no run, before and after the first letter: what   *)
(* has a run is reached from new_init by the same letters.                 *)
(***************************************************************************)
LEMMA RemovedFound ==
  ASSUME NEW d, NEW s, IsGame(d), IsGame(s), NEW m, m = MergeGames(d, s),
         NEW g, NEW k, IsPart(d, s, g, k), NEW x \in Vector(g), NEW y, Under(d, s, g, k, x, m, y),
         NEW u \in StatesOf(g), Both(d, s)[u + k] = -1, NEW i, NEW o
  PROVE  Found(g, x, i, o, u) = {-1}
<1> DEFINE b == Both(d, s)
<1>1. SUFFICES ASSUME NEW w \in Runs(g, x, i, o, u) PROVE FALSE
  BY DEF Found
<1>2. w \in StatesOf(g) /\ x[w] # -1 /\ <<w, i, o, u>> \in g.edge
  BY DEF Runs
<1>3. \A f \in AllEdges(d, s) : b[f[1]] # -1 => b[f[4]] # -1
  BY BothFacts
<1>4. ASSUME NEW t, <<t, i, o, u + k>> \in AllEdges(d, s) PROVE b[t] = -1
  <2> DEFINE f == <<t, i, o, u + k>>
  <2>1. f \in AllEdges(d, s) /\ f[1] = t /\ f[4] = u + k
    BY <1>4
  <2> HIDE DEF f
  <2> QED BY <2>1, <1>3
<1>5. <<w + k, i, o, u + k>> \in AllEdges(d, s)
  BY <1>2, PartEdges
<1>6. CASE Beside(d, s, g, k, x, y)
  <2>1. b[w + k] # -1
    BY <1>2, <1>6 DEF Beside
  <2> QED BY <2>1, <1>4, <1>5
<1>7. CASE x = Initial(g)
  <2>1. w = g.init
    BY <1>2, <1>7 DEF Initial
  <2>2. <<NewInit(d), i, o, u + k>> \in AllEdges(d, s)
    BY <2>1, <1>2, PartEdges
  <2>3. b[NewInit(d)] # -1
    BY BothFacts
  <2> QED BY <2>2, <2>3, <1>4
<1> QED BY <1>6, <1>7 DEF Under

(***************************************************************************)
(* A state that is left finds the same counters in both games.             *)
(***************************************************************************)
LEMMA SameFound ==
  ASSUME NEW d, NEW s, IsGame(d), IsGame(s), NEW m, m = MergeGames(d, s),
         NEW g, NEW k, IsPart(d, s, g, k), NEW x \in Vector(g), NEW y, Under(d, s, g, k, x, m, y),
         NEW u \in StatesOf(g), Both(d, s)[u + k] # -1, NEW i, NEW o
  PROVE  Found(m, y, i, o, Both(d, s)[u + k]) = Found(g, x, i, o, u)
<1> DEFINE b == Both(d, s)
           q == b[u + k]
<1>1. /\ u + k \in All(d, s) /\ IsGame(g) /\ g.init \in StatesOf(g)
      /\ \A w \in StatesOf(g) : w + k \in All(d, s)
  BY PartStates
<1>2. /\ \A t \in All(d, s) : b[t] # -1 => b[t] \in StatesOf(m)
      /\ NewInit(d) \in All(d, s) /\ m.init = b[NewInit(d)] /\ m.init # -1
      /\ m.init \in StatesOf(m)
      /\ \A t, w \in All(d, s) : b[t] = b[w] /\ b[t] # -1 => t = w
  BY MergedStates
<1>3. \A p : <<p, i, o, q>> \in m.edge <=>
               \E t \in All(d, s) : p = b[t] /\ p # -1 /\ <<t, i, o, u + k>> \in AllEdges(d, s)
  <2> SUFFICES ASSUME NEW p
               PROVE  <<p, i, o, q>> \in m.edge <=>
                        \E t \in All(d, s) : p = b[t] /\ p # -1 /\ <<t, i, o, u + k>> \in AllEdges(d, s)
    OBVIOUS
  <2> DEFINE z == u + k
  <2>1. z \in All(d, s) /\ Both(d, s)[z] # -1
    BY <1>1
  <2> HIDE DEF z, b, q
  <2>2. ASSUME <<p, i, o, Both(d, s)[z]>> \in m.edge
        PROVE  \E t \in All(d, s) : p = Both(d, s)[t] /\ p # -1 /\ <<t, i, o, z>> \in AllEdges(d, s)
    BY <2>1, <2>2, MergedEdge
  <2>3. ASSUME NEW t \in All(d, s), p = Both(d, s)[t], p # -1, <<t, i, o, z>> \in AllEdges(d, s)
        PROVE  <<p, i, o, Both(d, s)[z]>> \in m.edge
    BY <2>1, <2>3, MergedEdge
  <2> QED BY <2>2, <2>3 DEF z, b, q
<1>4. \A t : <<t, i, o, u + k>> \in AllEdges(d, s) <=>
               \/ \E w \in StatesOf(g) : t = w + k /\ <<w, i, o, u>> \in g.edge
               \/ t = NewInit(d) /\ <<g.init, i, o, u>> \in g.edge
  <2> SUFFICES ASSUME NEW t
               PROVE  <<t, i, o, u + k>> \in AllEdges(d, s) <=>
                        \/ \E w \in StatesOf(g) : t = w + k /\ <<w, i, o, u>> \in g.edge
                        \/ t = NewInit(d) /\ <<g.init, i, o, u>> \in g.edge
    OBVIOUS
  <2>1. ASSUME <<t, i, o, u + k>> \in AllEdges(d, s)
        PROVE  \/ \E w \in StatesOf(g) : t = w + k /\ <<w, i, o, u>> \in g.edge
               \/ t = NewInit(d) /\ <<g.init, i, o, u>> \in g.edge
    BY <2>1, PartEdges
  <2>2. ASSUME NEW w \in StatesOf(g), t = w + k, <<w, i, o, u>> \in g.edge
        PROVE  <<t, i, o, u + k>> \in AllEdges(d, s)
    BY <2>2, PartEdges
  <2>3. ASSUME t = NewInit(d), <<g.init, i, o, u>> \in g.edge
        PROVE  <<t, i, o, u + k>> \in AllEdges(d, s)
    BY <2>3, PartEdges
  <2> QED BY <2>1, <2>2, <2>3
<1>5. Bump(m, q) = Bump(g, u)
  BY MergedBump
<1> HIDE DEF b, q
<1>6. ASSUME NEW w \in Runs(g, x, i, o, u)
      PROVE  \E p \in Runs(m, y, i, o, q) : y[p] = x[w]
  <2>1. w \in StatesOf(g) /\ x[w] # -1 /\ <<w, i, o, u>> \in g.edge
    BY DEF Runs
  <2>2. CASE Beside(d, s, g, k, x, y)
    <3>1. b[w + k] # -1 /\ y[b[w + k]] = x[w]
      BY <2>1, <2>2 DEF Beside, b
    <3>2. <<b[w + k], i, o, q>> \in m.edge
      BY <2>1, <3>1, <1>1, <1>3, <1>4
    <3>3. b[w + k] \in StatesOf(m)
      BY <2>1, <3>1, <1>1, <1>2
    <3> QED BY <2>1, <3>1, <3>2, <3>3 DEF Runs
  <2>3. CASE x = Initial(g) /\ y = Initial(m)
    <3>1. w = g.init /\ x[w] = 0
      BY <2>1, <2>3 DEF Initial
    <3>2. y[m.init] = 0
      BY <2>3, <1>2 DEF Initial
    <3>3. <<m.init, i, o, q>> \in m.edge
      BY <2>1, <3>1, <1>2, <1>3, <1>4
    <3> QED BY <3>1, <3>2, <3>3, <1>2 DEF Runs
  <2> QED BY <2>2, <2>3 DEF Under
<1>7. ASSUME NEW p \in Runs(m, y, i, o, q)
      PROVE  \E w \in Runs(g, x, i, o, u) : y[p] = x[w]
  <2>1. p \in StatesOf(m) /\ y[p] # -1 /\ <<p, i, o, q>> \in m.edge
    BY DEF Runs
  <2>2. PICK t \in All(d, s) : p = b[t] /\ p # -1 /\ <<t, i, o, u + k>> \in AllEdges(d, s)
    BY <2>1, <1>3
  <2>3. CASE Beside(d, s, g, k, x, y) /\ y[m.init] = -1
    <3>1. t # NewInit(d)
      BY <2>1, <2>2, <2>3, <1>2
    <3>2. PICK w \in StatesOf(g) : t = w + k /\ <<w, i, o, u>> \in g.edge
      BY <2>2, <3>1, <1>4
    <3>3. y[p] = x[w]
      BY <2>2, <2>3, <3>2 DEF Beside, b
    <3> QED BY <2>1, <3>2, <3>3 DEF Runs
  <2>4. CASE x = Initial(g) /\ y = Initial(m)
    <3>1. p = m.init /\ y[p] = 0
      BY <2>1, <2>4 DEF Initial
    <3>2. t = NewInit(d)
      BY <2>2, <3>1, <1>2
    <3>3. \A w \in StatesOf(g) : t # w + k
      <4>1. \A w \in StatesOf(g) : w + k # NewInit(d)
        BY PartStates
      <4> QED BY <4>1, <3>2
    <3>4. <<g.init, i, o, u>> \in g.edge
      BY <2>2, <3>3, <1>4
    <3>5. x[g.init] = 0
      BY <2>4, <1>1 DEF Initial
    <3> QED BY <3>1, <3>4, <3>5, <1>1 DEF Runs
  <2> QED BY <2>3, <2>4 DEF Under
<1>8. Found(m, y, i, o, q) = Found(g, x, i, o, u)
  BY <1>5, <1>6, <1>7 DEF Found
<1> QED BY <1>8 DEF q, b

(***************************************************************************)
(* One letter: both games find the same, and store it alike: a counter     *)
(* that is above 0 grows where forward_saturation lets it, and such a      *)
(* state is below the threshold in both.                                   *)
(***************************************************************************)
LEMMA BesideStep ==
  ASSUME NEW d, NEW s, IsGame(d), IsGame(s), NEW m, m = MergeGames(d, s),
         NEW g, NEW k, IsPart(d, s, g, k), Saturated(g),
         NEW x \in Vector(g), Quiet(g, x), NEW y, Under(d, s, g, k, x, m, y), NEW i, NEW o
  PROVE  Beside(d, s, g, k, Forward(g, x, i, o), Forward(m, y, i, o))
<1> DEFINE b == Both(d, s)
<1>0. SUFFICES ASSUME NEW u \in StatesOf(g)
               PROVE  IF b[u + k] = -1 THEN Forward(g, x, i, o)[u] = -1
                      ELSE Forward(m, y, i, o)[b[u + k]] = Forward(g, x, i, o)[u]
  BY DEF Beside
<1>1. Forward(g, x, i, o)[u] = Kept(g, u, Largest(Found(g, x, i, o, u)))
  BY ForwardIs
<1>2. CASE b[u + k] = -1
  <2>1. Found(g, x, i, o, u) = {-1}
    BY <1>2, RemovedFound
  <2>2. Largest(Found(g, x, i, o, u)) = -1
    BY <2>1, FoundType
  <2> QED BY <1>1, <1>2, <2>2 DEF Kept
<1>3. CASE b[u + k] # -1
  <2> DEFINE q == b[u + k]
             n == Largest(Found(g, x, i, o, u))
  <2>1. q \in StatesOf(m) /\ u + k \in All(d, s)
    BY <1>3, PartStates, MergedStates
  <2>2. Forward(m, y, i, o)[q] = Kept(m, q, Largest(Found(m, y, i, o, q)))
    BY <2>1, ForwardIs
  <2>3. Found(m, y, i, o, q) = Found(g, x, i, o, u)
    BY <1>3, SameFound
  <2>4. PICK C : Growing(g, C)
    BY DEF Saturated
  <2>5. CASE u \in C
    <3>1. u \in 0 .. g.bool_threshold - 1
      BY <2>4, <2>5 DEF Growing
    <3>2. HasCounter(d, s, u + k)
      <4>1. g.bool_threshold \in Int
        BY Sizes DEF IsPart
      <4>2. u < g.bool_threshold
        BY <3>1, <4>1
      <4> QED BY <4>2, PartStates
    <3>3. q \in 0 .. m.bool_threshold - 1
      BY <2>1, <3>2, <1>3, ThresholdEnough, MergedFields
    <3> HIDE DEF q, n
    <3>4. Kept(m, q, n) = n /\ Kept(g, u, n) = n
      BY <3>1, <3>3 DEF Kept
    <3> QED BY <1>1, <2>2, <2>3, <3>4, <1>3 DEF q, n
  <2>6. CASE u \notin C
    <3>1. n =< 0
      BY <2>4, <2>6, QuietFound
    <3> HIDE DEF q, n
    <3>2. Kept(m, q, n) = n /\ Kept(g, u, n) = n
      BY <3>1 DEF Kept
    <3> QED BY <1>1, <2>2, <2>3, <3>2, <1>3 DEF q, n
  <2> QED BY <2>5, <2>6
<1> QED BY <1>2, <1>3

(* No letter leads back to new_init. *)
LEMMA NoReturn ==
  ASSUME NEW d, NEW s, IsGame(d), IsGame(s), NEW m, m = MergeGames(d, s),
         NEW y \in Vector(m), NEW i, NEW o
  PROVE  Forward(m, y, i, o)[m.init] = -1
<1>1. m.init \in StatesOf(m) /\ m.init = Both(d, s)[NewInit(d)] /\ m.init # -1
      /\ NewInit(d) \in All(d, s)
  BY MergedStates
<1>2. ASSUME NEW w \in Runs(m, y, i, o, m.init) PROVE FALSE
  <2>1. <<w, i, o, m.init>> \in m.edge
    BY DEF Runs
  <2>2. PICK t \in All(d, s) : <<t, i, o, NewInit(d)>> \in AllEdges(d, s)
    BY <2>1, <1>1, MergedEdge
  <2> DEFINE f == <<t, i, o, NewInit(d)>>
  <2>3. f \in AllEdges(d, s) /\ f[4] = NewInit(d)
    BY <2>2
  <2> HIDE DEF f
  <2> QED BY <2>3, AllEdgesFacts
<1>3. Found(m, y, i, o, m.init) = {-1}
  BY <1>2 DEF Found
<1>4. Largest(Found(m, y, i, o, m.init)) = -1
  BY <1>3, FoundType
<1> QED BY <1>1, <1>4, ForwardIs DEF Kept

-----------------------------------------------------------------------------
(***************************************************************************)
(* combine_vectors: the counters of both vectors, each at the number of    *)
(* its state, and 0 at new_init.                                           *)
(***************************************************************************)
LEMMA CombineFacts ==
  ASSUME NEW d, NEW s, IsGame(d), IsGame(s), NEW m1 \in d.safe, NEW m2 \in s.safe,
         NEW c, c = Combine(m1, m2, Both(d, s), Cardinality(Left(d, s)))
  PROVE  /\ \A w \in StatesOf(d) : Both(d, s)[w] # -1 => c[Both(d, s)[w]] = m1[w]
         /\ \A w \in StatesOf(s) : Both(d, s)[w + Offset(d)] # -1 =>
              c[Both(d, s)[w + Offset(d)]] = m2[w]
         /\ c[Both(d, s)[NewInit(d)]] = 0
<1> DEFINE b == Both(d, s)
           N == Cardinality(Left(d, s))
           ValueIn(t, n) == CASE t < n -> m1[t]
                              [] t = n -> 0
                              [] t > n -> m2[t - n - 1]
           Value(t) == ValueIn(t, d.size)
<1>1. /\ d.size \in Nat \ {0} /\ s.size \in Nat \ {0} /\ NewInit(d) = d.size
      /\ Offset(d) = d.size + 1 /\ NewInit(d) \in All(d, s)
  BY Sizes
<1>2. /\ N \in Nat /\ b \in [All(d, s) -> -1 .. N - 1] /\ b[NewInit(d)] # -1
      /\ \A t, u \in All(d, s) : b[t] = b[u] /\ b[t] # -1 => t = u
  BY BothFacts
<1>3. Cardinality(DOMAIN m1) = d.size
  <2>1. DOMAIN m1 = 0 .. d.size - 1
    BY DEF IsGame, Game!Vectors, StatesOf
  <2>2. d.size - 1 \in Int /\ d.size - 1 >= -1 /\ (d.size - 1) + 1 = d.size
    BY <1>1
  <2> QED BY <2>1, <2>2, Segment
<1>4. c = [q \in 0 .. N - 1 |-> Value(CHOOSE t \in DOMAIN b : b[t] = q)]
  <2>1. c = [q \in 0 .. N - 1 |->
               ValueIn(CHOOSE t \in DOMAIN b : b[t] = q, Cardinality(DOMAIN m1))]
    BY DEF Combine
  <2> HIDE DEF ValueIn, b, N
  <2> QED BY <2>1, <1>3
<1> HIDE DEF b, N, Value
<1>5. ASSUME NEW t \in All(d, s), b[t] # -1 PROVE c[b[t]] = Value(t)
  <2>1. b[t] \in 0 .. N - 1 /\ DOMAIN b = All(d, s)
    BY <1>2, <1>5
  <2>2. (CHOOSE u \in DOMAIN b : b[u] = b[t]) = t
    BY <2>1, <1>2, <1>5
  <2> QED BY <2>1, <2>2, <1>4
<1>6. ASSUME NEW w \in StatesOf(d), b[w] # -1 PROVE c[b[w]] = m1[w]
  <2>1. w \in All(d, s) /\ w < d.size /\ w # d.size /\ ~ (w > d.size)
    <3>1. w \in 0 .. d.size - 1 /\ All(d, s) = 0 .. d.size + s.size
      BY Sizes DEF All, StatesOf
    <3> QED BY <3>1, <1>1
  <2> QED BY <2>1, <1>5, <1>6 DEF Value
<1>7. ASSUME NEW w \in StatesOf(s), b[w + Offset(d)] # -1 PROVE c[b[w + Offset(d)]] = m2[w]
  <2> DEFINE t == w + Offset(d)
  <2>1. t \in All(d, s)
    BY PartStates DEF IsPart
  <2>2. t > d.size /\ ~ (t < d.size) /\ t # d.size /\ t - d.size - 1 = w
    BY <1>1 DEF StatesOf
  <2> HIDE DEF t
  <2>3. Value(t) = m2[w]
    BY <2>2 DEF Value
  <2> QED BY <2>1, <2>3, <1>5, <1>7 DEF t
<1>8. c[b[NewInit(d)]] = 0
  <2>1. ~ (NewInit(d) < d.size)
    BY <1>1
  <2> QED BY <2>1, <1>1, <1>2, <1>5 DEF Value
<1> QED BY <1>6, <1>7, <1>8 DEF b

(* A state is of dest, or of src, or new_init. *)
LEMMA StateKinds ==
  ASSUME NEW d, NEW s, IsGame(d), IsGame(s), NEW t \in All(d, s)
  PROVE  \/ t \in StatesOf(d)
         \/ t = NewInit(d)
         \/ \E w \in StatesOf(s) : t = w + Offset(d)
<1>1. /\ d.size \in Nat \ {0} /\ s.size \in Nat \ {0} /\ NewInit(d) = d.size
      /\ Offset(d) = d.size + 1 /\ t \in 0 .. d.size + s.size
  <2>1. All(d, s) = 0 .. d.size + s.size
    BY Sizes DEF All
  <2> QED BY <2>1, Sizes
<1>2. CASE t > d.size
  <2>1. t - (d.size + 1) \in StatesOf(s) /\ t = (t - (d.size + 1)) + Offset(d)
    BY <1>1, <1>2 DEF StatesOf
  <2> QED BY <2>1
<1>3. CASE ~ (t > d.size)
  BY <1>1, <1>3 DEF StatesOf
<1> QED BY <1>2, <1>3

(* Vectors are compared state by state. *)
LEMMA ContainsIs ==
  ASSUME NEW g, NEW x
  PROVE  Contains(g, x) <=> \E m \in g.safe : \A q \in StatesOf(g) : x[q] =< m[q]
BY DEF Contains, Game!Leq

(* The elements of a region are vectors. *)
LEMMA SafeVectors ==
  ASSUME NEW g, IsGame(g), NEW m \in g.safe
  PROVE  \A q \in StatesOf(g) : m[q] \in Int /\ m[q] >= -1
<1>1. m \in [StatesOf(g) -> -1 .. K]
  BY DEF IsGame, Game!Vectors, Game!Values
<1> QED BY <1>1, Constants

(***************************************************************************)
(* From the first letter on, a vector is in the merged region when both    *)
(* its parts are in theirs.                                                *)
(***************************************************************************)
LEMMA RegionBeside ==
  ASSUME NEW d, NEW s, IsGame(d), IsGame(s), NEW m, m = MergeGames(d, s),
         NEW x1 \in Vector(d), NEW x2 \in Vector(s), NEW y \in Vector(m),
         Beside(d, s, d, 0, x1, y), Beside(d, s, s, Offset(d), x2, y), y[m.init] = -1
  PROVE  Contains(m, y) <=> Contains(d, x1) /\ Contains(s, x2)
<1> DEFINE b == Both(d, s)
           N == Cardinality(Left(d, s))
           Inside(m1, m2) == /\ \A w \in StatesOf(d) : x1[w] =< m1[w]
                             /\ \A w \in StatesOf(s) : x2[w] =< m2[w]
<1>1. m.safe = {Combine(m1, m2, b, N) : m1 \in d.safe, m2 \in s.safe}
  BY MergedFields DEF MergedRegion
<1>2. /\ \A w \in StatesOf(d) : IF b[w] = -1 THEN x1[w] = -1 ELSE y[b[w]] = x1[w]
      /\ \A w \in StatesOf(s) : IF b[w + Offset(d)] = -1 THEN x2[w] = -1
                                ELSE y[b[w + Offset(d)]] = x2[w]
  <2>1. \A w \in StatesOf(d) : w + 0 = w
    BY DEF StatesOf
  <2> QED BY <2>1 DEF Beside
<1>3. /\ \A w \in StatesOf(d) : w \in All(d, s)
      /\ \A w \in StatesOf(s) : w + Offset(d) \in All(d, s)
  <2>1. \A w \in StatesOf(d) : w + 0 = w
    BY DEF StatesOf
  <2>2. \A w \in StatesOf(d) : w + 0 \in All(d, s)
    BY PartStates DEF IsPart
  <2>3. \A w \in StatesOf(s) : w + Offset(d) \in All(d, s)
    BY PartStates DEF IsPart
  <2> QED BY <2>1, <2>2, <2>3
<1>4. /\ \A t \in All(d, s) : b[t] # -1 => b[t] \in StatesOf(m)
      /\ \A q \in StatesOf(m) : \E t \in All(d, s) : b[t] = q
      /\ m.init = b[NewInit(d)]
  BY MergedStates
<1>5. \A q \in StatesOf(m) : q # -1
  <2>1. N \in Nat /\ m.size = N
    BY BothFacts, MergedFields
  <2> QED BY <2>1 DEF StatesOf
<1> HIDE DEF b, N
<1>6. ASSUME NEW m1 \in d.safe, NEW m2 \in s.safe
      PROVE  (\A q \in StatesOf(m) : y[q] =< Combine(m1, m2, b, N)[q]) <=> Inside(m1, m2)
  <2> DEFINE c == Combine(m1, m2, b, N)
  <2>1. /\ \A w \in StatesOf(d) : b[w] # -1 => c[b[w]] = m1[w]
        /\ \A w \in StatesOf(s) : b[w + Offset(d)] # -1 => c[b[w + Offset(d)]] = m2[w]
        /\ c[b[NewInit(d)]] = 0
    BY CombineFacts DEF b, N
  <2>2. /\ \A w \in StatesOf(d) : m1[w] >= -1
        /\ \A w \in StatesOf(s) : m2[w] >= -1
    BY SafeVectors
  <2> HIDE DEF c
  <2>3. ASSUME \A q \in StatesOf(m) : y[q] =< c[q] PROVE Inside(m1, m2)
    <3>1. ASSUME NEW w \in StatesOf(d) PROVE x1[w] =< m1[w]
      <4>1. CASE b[w] = -1
        BY <4>1, <1>2, <2>2
      <4>2. CASE b[w] # -1
        BY <4>2, <1>2, <1>3, <1>4, <2>1, <2>3
      <4> QED BY <4>1, <4>2
    <3>2. ASSUME NEW w \in StatesOf(s) PROVE x2[w] =< m2[w]
      <4>1. CASE b[w + Offset(d)] = -1
        BY <4>1, <1>2, <2>2
      <4>2. CASE b[w + Offset(d)] # -1
        BY <4>2, <1>2, <1>3, <1>4, <2>1, <2>3
      <4> QED BY <4>1, <4>2
    <3> QED BY <3>1, <3>2
  <2>4. ASSUME Inside(m1, m2), NEW q \in StatesOf(m) PROVE y[q] =< c[q]
    <3>1. PICK t \in All(d, s) : b[t] = q
      BY <1>4
    <3>2. b[t] # -1
      BY <3>1, <1>5
    <3>3. CASE t \in StatesOf(d)
      BY <3>1, <3>2, <3>3, <1>2, <2>1, <2>4
    <3>4. CASE t = NewInit(d)
      <4>1. y[q] = -1 /\ c[q] = 0
        BY <3>1, <3>4, <1>4, <2>1
      <4> QED BY <4>1
    <3>5. CASE \E w \in StatesOf(s) : t = w + Offset(d)
      BY <3>1, <3>2, <3>5, <1>2, <2>1, <2>4
    <3> QED BY <3>3, <3>4, <3>5, StateKinds
  <2> HIDE DEF Inside
  <2> QED BY <2>3, <2>4 DEF c
<1>7. Contains(m, y) <=> \E m1 \in d.safe, m2 \in s.safe :
                           \A q \in StatesOf(m) : y[q] =< Combine(m1, m2, b, N)[q]
  BY <1>1, ContainsIs
<1>8. Contains(d, x1) /\ Contains(s, x2) <=> \E m1 \in d.safe, m2 \in s.safe : Inside(m1, m2)
  BY ContainsIs
<1> HIDE DEF Inside
<1> QED BY <1>6, <1>7, <1>8

(* The merged game starts in its region, as both games do. *)
LEMMA RegionInitial ==
  ASSUME NEW d, NEW s, IsSolved(d), IsSolved(s), NEW m, m = MergeGames(d, s)
  PROVE  Contains(m, Initial(m))
<1> DEFINE b == Both(d, s)
           N == Cardinality(Left(d, s))
<1>1. IsGame(d) /\ IsGame(s)
  BY DEF IsSolved
<1>2. PICK m1 \in d.safe, m2 \in s.safe : TRUE
  BY DEF IsSolved, Contains
<1> DEFINE c == Combine(m1, m2, b, N)
<1>3. c \in m.safe
  BY <1>1, MergedFields DEF MergedRegion
<1>4. /\ \A w \in StatesOf(d) : b[w] # -1 => c[b[w]] = m1[w]
      /\ \A w \in StatesOf(s) : b[w + Offset(d)] # -1 => c[b[w + Offset(d)]] = m2[w]
      /\ c[b[NewInit(d)]] = 0
  BY <1>1, CombineFacts
<1>5. /\ \A w \in StatesOf(d) : m1[w] >= -1
      /\ \A w \in StatesOf(s) : m2[w] >= -1
  BY <1>1, SafeVectors
<1>6. /\ \A q \in StatesOf(m) : \E t \in All(d, s) : b[t] = q
      /\ m.init = b[NewInit(d)]
  BY <1>1, MergedStates
<1>7. \A q \in StatesOf(m) : q # -1
  <2>1. N \in Nat /\ m.size = N
    BY <1>1, BothFacts, MergedFields
  <2> HIDE DEF N
  <2> QED BY <2>1 DEF StatesOf
<1> HIDE DEF b, N, c
<1>8. ASSUME NEW q \in StatesOf(m) PROVE Initial(m)[q] =< c[q]
  <2>1. PICK t \in All(d, s) : b[t] = q
    BY <1>6
  <2>2. b[t] # -1
    BY <2>1, <1>7
  <2>3. CASE t = NewInit(d)
    <3>1. Initial(m)[q] = 0 /\ c[q] = 0
      BY <2>1, <2>3, <1>4, <1>6 DEF Initial
    <3> QED BY <3>1
  <2>4. CASE t # NewInit(d)
    <3>1. c[q] >= -1
      BY <2>1, <2>2, <2>4, <1>1, <1>4, <1>5, StateKinds
    <3>2. Initial(m)[q] = -1 \/ q = m.init
      BY DEF Initial
    <3>3. CASE q = m.init
      BY <3>3, <1>4, <1>6 DEF Initial
    <3> QED BY <3>1, <3>2, <3>3
  <2> QED BY <2>3, <2>4
<1> QED BY <1>3, <1>8, ContainsIs

-----------------------------------------------------------------------------
(***************************************************************************)
(* The invariant: all vectors are vectors of their games, no counter is    *)
(* above 0 where it cannot grow, and the two games are in their places in  *)
(* the merged one, or all three where they start.                          *)
(***************************************************************************)
MergeInv ==
  /\ <<dest, src>> \in {<<p[1], p[2]>> : p \in Pairs}
  /\ merged = MergeGames(dest, src)
  /\ v1 \in Vector(dest) /\ v2 \in Vector(src) /\ v \in Vector(merged)
  /\ Quiet(dest, v1) /\ Quiet(src, v2)
  /\ \/ /\ Beside(dest, src, dest, 0, v1, v)
        /\ Beside(dest, src, src, Offset(dest), v2, v)
        /\ v[merged.init] = -1
     \/ v1 = Initial(dest) /\ v2 = Initial(src) /\ v = Initial(merged)

(* The games of a pair are solved games. *)
LEMMA SolvedGames ==
  ASSUME NEW d, NEW s, <<d, s>> \in {<<p[1], p[2]>> : p \in Pairs}
  PROVE  IsSolved(d) /\ IsSolved(s) /\ IsGame(d) /\ IsGame(s) /\ Saturated(d) /\ Saturated(s)
BY Constants DEF IsSolved

(* Initially the three vectors are the initial ones. *)
LEMMA MergeInvInit == Init => MergeInv
<1>1. SUFFICES ASSUME Init PROVE MergeInv
  OBVIOUS
<1>2. <<dest, src>> \in {<<p[1], p[2]>> : p \in Pairs}
  BY <1>1 DEF Init
<1>3. IsGame(dest) /\ IsGame(src)
  BY <1>2, SolvedGames
<1>4. merged = MergeGames(dest, src) /\ v1 = Initial(dest) /\ v2 = Initial(src) /\ v = Initial(merged)
  BY <1>1 DEF Init
<1>5. /\ dest.init \in StatesOf(dest) /\ src.init \in StatesOf(src)
      /\ merged.init \in StatesOf(merged)
  BY <1>3, <1>4, MergedStates DEF IsGame
<1>6. v1 \in Vector(dest) /\ v2 \in Vector(src) /\ v \in Vector(merged)
  BY <1>4, <1>5, InitialVector
<1>7. Quiet(dest, v1) /\ Quiet(src, v2)
  BY <1>4, <1>5, QuietInitial
<1> QED BY <1>2, <1>4, <1>6, <1>7 DEF MergeInv

(* A letter keeps each game in its place in the merged one. *)
LEMMA MergeInvPlay ==
  ASSUME MergeInv, NEW i \in Inputs, NEW o \in Outputs, Play(i, o)
  PROVE  MergeInv'
<1>1. /\ v1' = Forward(dest, v1, i, o) /\ v2' = Forward(src, v2, i, o)
      /\ v' = Forward(merged, v, i, o)
      /\ dest' = dest /\ src' = src /\ merged' = merged
  BY DEF Play
<1>2. /\ <<dest, src>> \in {<<p[1], p[2]>> : p \in Pairs} /\ merged = MergeGames(dest, src)
      /\ v1 \in Vector(dest) /\ v2 \in Vector(src) /\ v \in Vector(merged)
      /\ Quiet(dest, v1) /\ Quiet(src, v2)
  BY DEF MergeInv
<1>3. IsGame(dest) /\ IsGame(src) /\ Saturated(dest) /\ Saturated(src)
  BY <1>2, SolvedGames
<1>4. /\ IsPart(dest, src, dest, 0) /\ IsPart(dest, src, src, Offset(dest))
      /\ Under(dest, src, dest, 0, v1, merged, v)
      /\ Under(dest, src, src, Offset(dest), v2, merged, v)
  BY DEF MergeInv, IsPart, Under
<1>5. /\ Forward(dest, v1, i, o) \in Vector(dest) /\ Forward(src, v2, i, o) \in Vector(src)
      /\ Forward(merged, v, i, o) \in Vector(merged)
  BY <1>2, ForwardVector
<1>6. Quiet(dest, Forward(dest, v1, i, o)) /\ Quiet(src, Forward(src, v2, i, o))
  BY <1>2, QuietStep
<1>7. Beside(dest, src, dest, 0, Forward(dest, v1, i, o), Forward(merged, v, i, o))
  BY <1>2, <1>3, <1>4, BesideStep
<1>8. Beside(dest, src, src, Offset(dest), Forward(src, v2, i, o), Forward(merged, v, i, o))
  BY <1>2, <1>3, <1>4, BesideStep
<1>9. Forward(merged, v, i, o)[merged.init] = -1
  BY <1>2, <1>3, NoReturn
<1> QED BY <1>1, <1>2, <1>5, <1>6, <1>7, <1>8, <1>9 DEF MergeInv

(* Every step does. *)
LEMMA MergeInvStep == MergeInv /\ [Next]_vars => MergeInv'
<1>1. SUFFICES ASSUME MergeInv, [Next]_vars PROVE MergeInv'
  OBVIOUS
<1>2. CASE Next
  BY <1>1, <1>2, MergeInvPlay DEF Next
<1>3. CASE UNCHANGED vars
  BY <1>1, <1>3 DEF vars, MergeInv
<1> QED BY <1>1, <1>2, <1>3

(* So the invariant holds throughout. *)
LEMMA MergeInvAlways == Spec => []MergeInv
BY MergeInvInit, MergeInvStep, PTL DEF Spec

(* What the invariant says of the vectors is Lockstep. *)
LEMMA MergeInvLockstep == MergeInv => Lockstep
<1>1. SUFFICES ASSUME MergeInv, v # Initial(merged)
               PROVE  /\ SideBySide(v1, 0) /\ SideBySide(v2, Offset(dest))
                      /\ v[merged.init] = -1
  BY DEF Lockstep
<1>2. /\ Beside(dest, src, dest, 0, v1, v) /\ Beside(dest, src, src, Offset(dest), v2, v)
      /\ v[merged.init] = -1
  BY <1>1 DEF MergeInv
<1>3. IsGame(dest) /\ IsGame(src) /\ merged = MergeGames(dest, src)
  BY <1>1, SolvedGames DEF MergeInv
<1>4. merged.rename = Both(dest, src)
  BY <1>3, MergedFields
<1>5. DOMAIN v1 = StatesOf(dest) /\ DOMAIN v2 = StatesOf(src)
  BY <1>1 DEF MergeInv, Vector
<1> QED BY <1>2, <1>4, <1>5 DEF SideBySide, Beside

(* Side by side the regions agree, and so they do where the games start. *)
LEMMA MergeInvRegion == MergeInv => RegionIsProduct
<1>1. SUFFICES ASSUME MergeInv
               PROVE  Contains(merged, v) <=> Contains(dest, v1) /\ Contains(src, v2)
  BY DEF RegionIsProduct
<1>2. /\ <<dest, src>> \in {<<p[1], p[2]>> : p \in Pairs} /\ merged = MergeGames(dest, src)
      /\ v1 \in Vector(dest) /\ v2 \in Vector(src) /\ v \in Vector(merged)
  BY <1>1 DEF MergeInv
<1>3. IsSolved(dest) /\ IsSolved(src) /\ IsGame(dest) /\ IsGame(src)
  BY <1>2, SolvedGames
<1>4. CASE v1 = Initial(dest) /\ v2 = Initial(src) /\ v = Initial(merged)
  BY <1>2, <1>3, <1>4, RegionInitial DEF IsSolved
<1>5. CASE /\ Beside(dest, src, dest, 0, v1, v) /\ Beside(dest, src, src, Offset(dest), v2, v)
           /\ v[merged.init] = -1
  BY <1>2, <1>3, <1>5, RegionBeside
<1> QED BY <1>1, <1>4, <1>5 DEF MergeInv

(***************************************************************************)
(* Lockstep, for every pair of solved games: after the first letter a      *)
(* position of the game that merge_aut builds is the positions of the two  *)
(* games side by side, and only states without a run were purged.          *)
(***************************************************************************)
THEOREM MergedInLockstep == Spec => []Lockstep
BY MergeInvAlways, MergeInvLockstep, PTL

(***************************************************************************)
(* RegionIsProduct, for every pair of solved games: the region that        *)
(* merge_saferegions builds contains a play's position exactly when both   *)
(* games are still in theirs.                                              *)
(***************************************************************************)
THEOREM MergedRegionIsProduct == Spec => []RegionIsProduct
BY MergeInvAlways, MergeInvRegion, PTL

=============================================================================
