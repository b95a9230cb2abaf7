-------------------------- MODULE PreparationProofs --------------------------
(***************************************************************************)
(* Proofs about Preparation: whatever automaton is translated, and         *)
(* whatever surely_losing flushes, what forward_saturation leaves has the  *)
(* shape that the solver's game is assumed to have.                        *)
(***************************************************************************)
EXTENDS Preparation, FiniteSetTheorems, TLAPS

-----------------------------------------------------------------------------
(***************************************************************************)
(* Finite sets: SetToSeq lists every element; a part of an interval has as *)
(* many elements as its two halves.                                        *)
(***************************************************************************)
LEMMA ListIs ==
  ASSUME NEW S, IsFiniteSet(S)
  PROVE  SetToSeq(S) \in Seq(S) /\ ToSet(SetToSeq(S)) = S
<1> DEFINE D == 1 .. Cardinality(S)
           f == SetToSeq(S)
<1>1. Cardinality(S) \in Nat /\ ExistsBijection(D, S)
  BY FS_CardinalityType
<1>2. PICK g \in [D -> S] : IsInjective(g)
  BY <1>1 DEF ExistsBijection, Bijection, Injection, IsInjective
<1>3. f \in [D -> S] /\ IsInjective(f)
  BY <1>2 DEF SetToSeq
<1>4. f \in Injection(D, S)
  BY <1>3 DEF Injection, IsInjective
<1>5. IsFiniteSet(D) /\ Cardinality(D) = Cardinality(S)
  <2>1. 1 \in Int /\ Cardinality(S) \in Int
    BY <1>1
  <2> QED BY <1>1, <2>1, FS_Interval
<1>6. f \in Surjection(D, S)
  BY <1>4, <1>5, FS_Injection
<1>7. f \in Seq(S)
  BY <1>1, <1>3
<1>8. ToSet(f) = S
  <2>1. DOMAIN f = D
    BY <1>3
  <2>2. \A x \in S : \E n \in D : f[n] = x
    BY <1>6 DEF Surjection
  <2>3. \A n \in D : f[n] \in S
    BY <1>3
  <2> QED BY <2>1, <2>2, <2>3 DEF ToSet, Range
<1> QED BY <1>7, <1>8

(* Fewer elements of a set of naturals are below one of its members. *)
LEMMA BelowMember ==
  ASSUME NEW n \in Nat, NEW S \in SUBSET (0 .. n - 1), NEW s \in 0 .. n - 1
  PROVE  LET below == Cardinality({r \in S : r < s})
         IN  /\ IsFiniteSet(S) /\ Cardinality(S) \in Nat /\ Cardinality(S) =< n
             /\ below \in Nat /\ below =< Cardinality(S)
             /\ s \in S => below < Cardinality(S)
<1> DEFINE B == {r \in S : r < s}
<1>1. IsFiniteSet(0 .. n - 1) /\ Cardinality(0 .. n - 1) = n
  <2>1. 0 \in Int /\ n - 1 \in Int
    OBVIOUS
  <2> QED BY <2>1, FS_Interval
<1>2. IsFiniteSet(S) /\ Cardinality(S) \in Nat /\ Cardinality(S) =< n
  BY <1>1, FS_Subset, FS_CardinalityType
<1>3. B \in SUBSET S
  OBVIOUS
<1>4. IsFiniteSet(B) /\ Cardinality(B) \in Nat /\ Cardinality(B) =< Cardinality(S)
      /\ (Cardinality(B) = Cardinality(S) => S = B)
  BY <1>2, <1>3, FS_Subset, FS_CardinalityType
<1>5. s \in S => B # S
  OBVIOUS
<1> QED BY <1>2, <1>4, <1>5


-----------------------------------------------------------------------------
(***************************************************************************)
(* The inductive invariant.  Before the saturation all that matters is     *)
(* that the automaton is one; while it runs, nunbounded is exact, and a    *)
(* round that has changed nothing so far has left every state it has seen  *)
(* at a fixpoint; after it, the numbering has the shape.                   *)
(***************************************************************************)
Pair == (0 .. given.size - 1) \X SUBSET Outputs

PushInv ==
  pc = "pushing" =>
    /\ swapped
    /\ cache \in Seq(Pair) /\ Len(cache) = aut.size
    /\ to_treat \in Seq(StatesOf(aut))

ShapeInv ==
  /\ pc \in {"translated", "pushing", "losing", "saturation", "ios", "nogame", "done"}
  /\ swapped \in BOOLEAN
  /\ pc = "translated" => ~swapped /\ aut = given
  /\ IsTranslation(given, Letters)
  /\ IsTranslation(aut, In \X Out)

(* The counters of the states that s leads to are at least what s asks for. *)
Settled(s) == \A e \in aut.edges : e[1] = s => c[e[3]] >= Least(Saturated, c[s] + Acc(s))

SaturationInv ==
  pc = "saturation" =>
    /\ q \in 0 .. aut.size /\ changed \in BOOLEAN
    /\ c \in [StatesOf(aut) -> 0 .. Saturated]
    /\ nunbounded = Cardinality(Unbounded)
    /\ ~changed => \A s \in StatesOf(aut) : s < q => Settled(s)

ThresholdInv ==
  pc \in {"ios", "nogame", "done"} =>
    /\ bool_threshold \in 0 .. aut.size
    /\ aut.acc \subseteq 0 .. bool_threshold - 1
    /\ \A e \in aut.edges : e[1] < bool_threshold => e[3] < bool_threshold

LettersInv == allowed \subseteq In \X Out

IInv == ShapeInv /\ PushInv /\ SaturationInv /\ ThresholdInv

LEMMA Sizes ==
  ASSUME NEW a, NEW letters, IsTranslation(a, letters)
  PROVE  /\ a.size \in Nat \ {0} /\ a.init \in StatesOf(a)
         /\ IsFiniteSet(a.acc) /\ Cardinality(a.acc) \in Nat
         /\ a.acc # {} => Cardinality(a.acc) >= 1
<1>1. a.size \in Nat \ {0} /\ a.init \in StatesOf(a) /\ a.acc \in SUBSET (0 .. a.size - 1)
  BY DEF IsTranslation, StatesOf
<1>2. IsFiniteSet(a.acc) /\ Cardinality(a.acc) \in Nat
  <2>1. a.size \in Nat /\ 0 \in 0 .. a.size - 1
    BY <1>1
  <2> QED BY <1>1, <2>1, BelowMember
<1>3. a.acc # {} => Cardinality(a.acc) # 0
  BY <1>2, FS_EmptySet
<1> QED BY <1>1, <1>2, <1>3

-----------------------------------------------------------------------------
(* Steps of an automaton that was translated. *)
LEMMA StepIs ==
  ASSUME NEW a, NEW n, IsTranslation(a, Letters), NEW x \in Steps(a, n)
  PROVE  x[1] \in Inputs /\ x[2] \in (0 .. a.size - 1) \X SUBSET Outputs
<1>1. PICK e \in a.edges : x \in {<<i, <<e[3], OutputsWith(e[2], i)>>>> : i \in InputsOf(e[2])}
  BY DEF Steps
<1>2. PICK i \in InputsOf(e[2]) : x = <<i, <<e[3], OutputsWith(e[2], i)>>>>
  BY <1>1
<1>3. e[2] \in SUBSET Letters /\ e[3] \in 0 .. a.size - 1
  BY DEF IsTranslation
<1>4. i \in Inputs
  BY <1>2, <1>3 DEF InputsOf, Letters
<1>5. OutputsWith(e[2], i) \in SUBSET Outputs
  BY <1>3 DEF OutputsWith, Letters
<1> QED BY <1>2, <1>3, <1>4, <1>5

LEMMA PairsFinite ==
  ASSUME IsTranslation(given, Letters), NEW T \in SUBSET Pair
  PROVE  IsFiniteSet(T)
<1>1. 0 \in Int /\ given.size - 1 \in Int
  BY DEF IsTranslation
<1>2. IsFiniteSet(0 .. given.size - 1)
  BY <1>1, FS_Interval
<1>3. IsFiniteSet(SUBSET Outputs)
  BY PreparationAssumption, FS_SUBSET
<1>4. IsFiniteSet(Pair)
  BY <1>2, <1>3, FS_Product DEF Pair
<1> QED BY <1>4, FS_Subset

-----------------------------------------------------------------------------
LEMMA InitIInv ==
  ASSUME Init
  PROVE  IInv
<1>1. CASE swapped = FALSE /\ given \in Automata /\ pc = "translated" /\ aut = given
  <2>1. IsTranslation(given, Letters)
    BY <1>1, PreparationAssumption
  <2>2. In \X Out = Letters
    BY <1>1 DEF In, Out, Letters
  <2> QED BY <1>1, <2>1, <2>2 DEF IInv, ShapeInv, PushInv, SaturationInv, ThresholdInv
<1>2. CASE swapped = TRUE /\ given \in Unreal /\ pc = "pushing" /\ StartPushing
  <2>1. IsTranslation(given, Letters)
    BY <1>2, PreparationAssumption
  <2>2. aut.size = 1 /\ aut.edges = {} /\ aut.init = 0 /\ aut.acc \subseteq {0}
    BY <1>2 DEF StartPushing
  <2>3. IsTranslation(aut, In \X Out)
    BY <2>2 DEF IsTranslation
  <2>4. cache = <<<<given.init, Outputs>>>> /\ to_treat = <<0>>
    BY <1>2 DEF StartPushing
  <2>5. <<given.init, Outputs>> \in Pair
    BY <2>1 DEF Pair, IsTranslation
  <2>6. cache \in Seq(Pair) /\ Len(cache) = 1 /\ to_treat \in Seq(StatesOf(aut))
    BY <2>2, <2>4, <2>5 DEF StatesOf
  <2> QED BY <1>2, <2>1, <2>2, <2>3, <2>6 DEF IInv, ShapeInv, PushInv, SaturationInv, ThresholdInv
<1> QED BY <1>1, <1>2 DEF Init

LEMMA EnterStep ==
  ASSUME IInv, NEW a, IsTranslation(a, In \X Out), Enter(a)
  PROVE  IInv'
<1>1. aut' = a /\ pc' = "losing" /\ swapped' = swapped /\ given' = given
  BY DEF Enter
<1>2. IsTranslation(aut, In \X Out)' /\ IsTranslation(given, Letters)'
  BY <1>1 DEF IInv, ShapeInv, In, Out
<1> QED BY <1>1, <1>2 DEF IInv, ShapeInv, PushInv, SaturationInv, ThresholdInv

LEMMA KeepStep ==
  ASSUME IInv, Keep
  PROVE  IInv'
BY EnterStep DEF Keep, IInv, ShapeInv

LEMMA PushedStep ==
  ASSUME IInv, Pushed
  PROVE  IInv'
BY EnterStep DEF Pushed, IInv, ShapeInv

(***************************************************************************)
(* push_outputs: the new pairs get the numbers that follow, so that every  *)
(* edge leads to a state.                                                  *)
(***************************************************************************)
LEMMA PushStateStep ==
  ASSUME IInv, PushState
  PROVE  IInv'
<1> DEFINE n == Last(to_treat)
           saved == cache[n + 1][2]
           steps == Steps(given, cache[n + 1][1])
           new == {x[2] : x \in steps} \ ToSet(cache)
           found == cache \o SetToSeq(new)
           Number(pair) == (CHOOSE m \in DOMAIN found : found[m] = pair) - 1
           more == [m \in 1 .. Len(found) - Len(cache) |-> Len(cache) + m - 1]
<1>1. /\ pc = "pushing" /\ to_treat # << >>
      /\ cache' = found /\ to_treat' = Front(to_treat) \o more
      /\ aut'.size = Len(found) /\ aut'.init = 0
      /\ aut'.acc = {m - 1 : m \in {m \in DOMAIN found : found[m][1] \in given.acc}}
      /\ aut'.edges = aut.edges \cup {PushedEdge(n, saved, x[1], Number(x[2])) : x \in steps}
      /\ UNCHANGED <<given, swapped, pc>>
  BY DEF PushState
<1>2. /\ IsTranslation(given, Letters) /\ IsTranslation(aut, In \X Out)
      /\ swapped /\ cache \in Seq(Pair) /\ Len(cache) = aut.size /\ to_treat \in Seq(StatesOf(aut))
  BY <1>1 DEF IInv, ShapeInv, PushInv
<1>3. In \X Out = Outputs \X Inputs
  BY <1>2 DEF In, Out
<1>4. n \in StatesOf(aut) /\ Front(to_treat) \in Seq(StatesOf(aut))
  BY <1>1, <1>2 DEF Last, Front
<1>5. n + 1 \in DOMAIN cache /\ cache[n + 1] \in Pair /\ saved \in SUBSET Outputs
  <2>1. n + 1 \in DOMAIN cache
    BY <1>2, <1>4 DEF StatesOf
  <2> QED BY <1>2, <2>1 DEF Pair
<1>6. \A x \in steps : x[1] \in Inputs /\ x[2] \in Pair
  BY <1>2, StepIs DEF Pair
<1>7. new \in SUBSET Pair
  BY <1>6
<1>8. SetToSeq(new) \in Seq(Pair) /\ ToSet(SetToSeq(new)) = new
  <2>1. SetToSeq(new) \in Seq(new) /\ ToSet(SetToSeq(new)) = new
    BY <1>2, <1>7, PairsFinite, ListIs
  <2> QED BY <1>7, <2>1
<1>9. found \in Seq(Pair) /\ Len(found) = Len(cache) + Len(SetToSeq(new))
      /\ Len(found) \in Nat /\ Len(cache) \in Nat /\ Len(found) >= Len(cache) /\ DOMAIN found = 1 .. Len(found)
  BY <1>2, <1>8
<1>10. \A x \in steps : Number(x[2]) \in 0 .. Len(found) - 1
  <2> SUFFICES ASSUME NEW x \in steps
               PROVE  Number(x[2]) \in 0 .. Len(found) - 1
    OBVIOUS
  <2>3. SUFFICES \E m \in DOMAIN found : found[m] = x[2]
    <3>1. (CHOOSE m \in DOMAIN found : found[m] = x[2]) \in DOMAIN found
      BY <2>3
    <3> HIDE DEF found
    <3> QED BY <1>9, <3>1
  <2>1. CASE x[2] \in ToSet(cache)
    <3>1. PICK m \in DOMAIN cache : cache[m] = x[2]
      BY <2>1 DEF ToSet
    <3>2. m \in DOMAIN found /\ found[m] = x[2]
      BY <1>2, <1>8, <1>9, <3>1
    <3> QED BY <3>2
  <2>2. CASE x[2] \notin ToSet(cache)
    <3>1. x[2] \in ToSet(SetToSeq(new))
      BY <1>8, <2>2
    <3>2. PICK m \in DOMAIN SetToSeq(new) : SetToSeq(new)[m] = x[2]
      BY <3>1 DEF ToSet
    <3>3. Len(cache) + m \in DOMAIN found /\ found[Len(cache) + m] = x[2]
      BY <1>2, <1>8, <1>9, <3>2
    <3> QED BY <3>3
  <2> QED BY <2>1, <2>2
<1> HIDE DEF Number, found, steps, saved, n, new
<1>11. aut'.size \in Nat \ {0} /\ 0 .. aut.size - 1 \subseteq 0 .. aut'.size - 1
  BY <1>1, <1>2, <1>9 DEF IsTranslation
<1>12. aut'.acc \subseteq 0 .. aut'.size - 1
  BY <1>1, <1>9
<1>13. aut'.edges \subseteq (0 .. aut'.size - 1) \X (SUBSET (In \X Out)) \X (0 .. aut'.size - 1)
  <2>1. ASSUME NEW x \in steps
        PROVE  PushedEdge(n, saved, x[1], Number(x[2]))
                 \in (0 .. aut'.size - 1) \X (SUBSET (In \X Out)) \X (0 .. aut'.size - 1)
    <3>1. saved \X {x[1]} \in SUBSET (In \X Out)
      BY <1>3, <1>5, <1>6, <2>1
    <3>2. n \in 0 .. aut'.size - 1 /\ Number(x[2]) \in 0 .. aut'.size - 1
      BY <1>1, <1>4, <1>10, <1>11, <2>1 DEF StatesOf
    <3> QED BY <3>1, <3>2 DEF PushedEdge
  <2>2. aut.edges \subseteq (0 .. aut'.size - 1) \X (SUBSET (In \X Out)) \X (0 .. aut'.size - 1)
    BY <1>2, <1>11 DEF IsTranslation
  <2> QED BY <1>1, <2>1, <2>2
<1>14. (In \X Out)' = In \X Out
  BY <1>1 DEF In, Out
<1>15. IsTranslation(aut, In \X Out)'
  BY <1>1, <1>11, <1>12, <1>13, <1>14 DEF IsTranslation
<1>16. to_treat' \in Seq(StatesOf(aut'))
  <2>1. more \in Seq(0 .. Len(found) - 1)
    BY <1>9
  <2>2. Front(to_treat) \in Seq(0 .. Len(found) - 1)
    <3>1. StatesOf(aut) \subseteq 0 .. Len(found) - 1
      BY <1>1, <1>11 DEF StatesOf
    <3>2. \A m \in 1 .. Len(Front(to_treat)) : Front(to_treat)[m] \in 0 .. Len(found) - 1
      BY <1>4, <3>1
    <3> QED BY <1>4, <3>2
  <2> QED BY <1>1, <2>1, <2>2 DEF StatesOf
<1>17. PushInv'
  BY <1>1, <1>2, <1>9, <1>16 DEF PushInv, Pair
<1>18. ShapeInv'
  BY <1>1, <1>2, <1>15 DEF ShapeInv
<1> QED BY <1>1, <1>17, <1>18 DEF IInv, SaturationInv, ThresholdInv

-----------------------------------------------------------------------------
(***************************************************************************)
(* surely_losing: whatever was flushed, purging leaves an automaton, since *)
(* the states that are kept are closed under its edges.                    *)
(***************************************************************************)
LEMMA ReachableIs ==
  ASSUME IsTranslation(aut, In \X Out), NEW edges,
         \A e \in edges : e[1] \in StatesOf(aut) /\ e[3] \in StatesOf(aut)
  PROVE  LET R == Reachable(edges, aut.init)
         IN  /\ R \subseteq StatesOf(aut) /\ aut.init \in R
             /\ \A e \in edges : e[1] \in R => e[3] \in R
BY DEF Reachable, IsTranslation, StatesOf

LEMMA PurgedIs ==
  ASSUME IsTranslation(aut, In \X Out), NEW acc, acc \subseteq StatesOf(aut), NEW edges,
         edges \subseteq StatesOf(aut) \X (SUBSET (In \X Out)) \X StatesOf(aut)
  PROVE  IsTranslation(Purged(edges, acc), In \X Out)
<1> DEFINE R == Reachable(edges, aut.init)
           New(s) == Cardinality({r \in R : r < s})
           N == Cardinality(R)
<1>1. \A e \in edges : e[1] \in StatesOf(aut) /\ e[2] \in SUBSET (In \X Out) /\ e[3] \in StatesOf(aut)
  OBVIOUS
<1>2. /\ R \subseteq StatesOf(aut) /\ aut.init \in R
      /\ \A e \in edges : e[1] \in R => e[3] \in R
  BY <1>1, ReachableIs
<1>3. aut.size \in Nat /\ R \in SUBSET (0 .. aut.size - 1)
  BY <1>2 DEF IsTranslation, StatesOf
<1> HIDE DEF R
<1>4. \A s \in R : New(s) \in Nat /\ New(s) < N /\ IsFiniteSet(R) /\ N \in Nat
  <2> TAKE s \in R
  <2>1. s \in 0 .. aut.size - 1
    BY <1>3
  <2> QED BY <1>3, <2>1, BelowMember
<1>5. N \in Nat \ {0}
  <2>1. New(aut.init) \in Nat /\ New(aut.init) < N /\ N \in Nat
    BY <1>2, <1>4
  <2> QED BY <2>1
<1>6. \A s \in R : New(s) \in 0 .. N - 1
  BY <1>4
<1> HIDE DEF New, N
<1>7. {New(s) : s \in acc \cap R} \subseteq 0 .. N - 1
  BY <1>6
<1>8. {<<New(e[1]), e[2], New(e[3])>> : e \in {e \in edges : e[1] \in R}}
        \subseteq (0 .. N - 1) \X (SUBSET (In \X Out)) \X (0 .. N - 1)
  BY <1>1, <1>2, <1>6
<1>9. New(aut.init) \in 0 .. N - 1
  BY <1>2, <1>6
<1>10. Purged(edges, acc) =
         [size |-> N, init |-> New(aut.init), acc |-> {New(s) : s \in acc \cap R},
          edges |-> {<<New(e[1]), e[2], New(e[3])>> : e \in {e \in edges : e[1] \in R}}]
  BY DEF Purged, R, New, N
<1> QED BY <1>5, <1>7, <1>8, <1>9, <1>10 DEF IsTranslation

LEMMA LosingStateStep ==
  ASSUME IInv, LosingState
  PROVE  IInv'
<1>1. UNCHANGED <<given, swapped, cache, to_treat, aut, pc>> /\ pc = "losing"
  BY DEF LosingState, origin
<1> QED BY <1>1 DEF IInv, ShapeInv, PushInv, SaturationInv, ThresholdInv, In, Out

(* The saturation starts from counters that no state has saturated. *)
LEMMA FlushStep ==
  ASSUME IInv, Flush
  PROVE  IInv'
<1>1. /\ IsTranslation(aut, In \X Out) /\ IsTranslation(given, Letters) /\ swapped \in BOOLEAN
      /\ UNCHANGED <<given, swapped>> /\ pc' = "saturation" /\ q' = 0 /\ changed' = FALSE /\ nunbounded' = 0
      /\ c' = [s \in StatesOf(aut') |-> IF s = aut'.init /\ s \in aut'.acc THEN 1 ELSE 0]
  BY DEF Flush, IInv, ShapeInv, origin
<1> DEFINE edges == {e \in aut.edges : e[1] \notin Losing} \cup {<<s, In \X Out, s>> : s \in Losing}
<1>2. IsTranslation(aut', In \X Out)
  <2>1. CASE aut' = aut
    BY <1>1, <2>1
  <2>2. CASE aut' = Purged(edges, aut.acc \cup Losing)
    <3>1. Losing \subseteq StatesOf(aut)
      BY DEF Losing
    <3>2. aut.acc \cup Losing \subseteq StatesOf(aut)
      BY <1>1, <3>1 DEF IsTranslation, StatesOf
    <3>3. aut.edges \subseteq StatesOf(aut) \X (SUBSET (In \X Out)) \X StatesOf(aut)
      BY <1>1 DEF IsTranslation, StatesOf
    <3>4. edges \subseteq StatesOf(aut) \X (SUBSET (In \X Out)) \X StatesOf(aut)
      BY <3>1, <3>3
    <3> HIDE DEF edges
    <3> QED BY <1>1, <2>2, <3>2, <3>4, PurgedIs
  <2> QED BY <2>1, <2>2 DEF Flush
<1>3. (In \X Out)' = In \X Out /\ (IsTranslation(aut, In \X Out))' /\ (IsTranslation(given, Letters))'
  BY <1>1, <1>2 DEF In, Out, IsTranslation
<1>4. /\ aut'.size \in Nat \ {0} /\ IsFiniteSet(aut'.acc)
      /\ Cardinality(aut'.acc) \in Nat /\ (aut'.acc # {} => Cardinality(aut'.acc) >= 1)
  BY <1>2, Sizes
<1>5. c' \in [StatesOf(aut') -> 0 .. Saturated'] /\ \A s \in StatesOf(aut') : c'[s] =< Cardinality(aut'.acc)
  BY <1>1, <1>4 DEF Saturated
<1>6. Unbounded' = {}
  BY <1>4, <1>5 DEF Unbounded
<1>7. SaturationInv'
  <2>1. nunbounded' = Cardinality(Unbounded')
    BY <1>1, <1>6, FS_EmptySet
  <2>2. \A s \in StatesOf(aut') : ~ s < 0
    BY <1>4 DEF StatesOf
  <2>3. q' \in 0 .. aut'.size
    <3>1. aut'.size \in Nat /\ q' = 0
      BY <1>1, <1>4
    <3> QED BY <3>1
  <2>5. changed' \in BOOLEAN
    BY <1>1
  <2>4. \A s \in StatesOf(aut') : s < q' => Settled(s)'
    BY <1>1, <2>2
  <2> QED BY <1>5, <2>1, <2>3, <2>4, <2>5 DEF SaturationInv
<1> QED BY <1>1, <1>3, <1>7 DEF IInv, ShapeInv, PushInv, ThresholdInv

-----------------------------------------------------------------------------
LEMMA NextRoundStep ==
  ASSUME IInv, NextRound
  PROVE  IInv'
<1>1. /\ UNCHANGED <<given, swapped, cache, to_treat, aut, pc, c, nunbounded, bool_threshold>>
      /\ q' = 0 /\ changed' = FALSE /\ pc \in {"losing", "saturation"}
  BY DEF NextRound, origin
<1>2. ShapeInv' /\ PushInv' /\ ThresholdInv'
  BY <1>1 DEF IInv, ShapeInv, PushInv, ThresholdInv, In, Out
<1>3. ASSUME pc = "saturation"
      PROVE  SaturationInv'
  <2>1. /\ aut.size \in Nat /\ c \in [StatesOf(aut) -> 0 .. Saturated] /\ nunbounded = Cardinality(Unbounded)
    BY <1>3 DEF IInv, ShapeInv, SaturationInv, IsTranslation
  <2>2. Saturated' = Saturated /\ Unbounded' = Unbounded /\ StatesOf(aut)' = StatesOf(aut)
    BY <1>1 DEF Saturated, Unbounded, StatesOf
  <2>3. q' \in 0 .. aut'.size
    BY <1>1, <2>1
  <2>4. \A s \in StatesOf(aut') : ~ s < q'
    BY <1>1, <2>1 DEF StatesOf
  <2> QED BY <1>1, <2>1, <2>2, <2>3, <2>4 DEF SaturationInv
<1> QED BY <1>1, <1>2, <1>3 DEF IInv, SaturationInv

(***************************************************************************)
(* A state saturates its successors.  Those it raises to the top were not  *)
(* there before, so that they may be added to nunbounded; if it raises     *)
(* none, it is settled, and the states before it stay so.                  *)
(***************************************************************************)
LEMMA SaturateStateStep ==
  ASSUME IInv, SaturateState
  PROVE  IInv'
<1> DEFINE count == Least(Saturated, c[q] + Acc(q))
           raised == {e[3] : e \in {e \in aut.edges : e[1] = q /\ c[e[3]] < count}}
<1>1. /\ pc = "saturation" /\ q < aut.size
      /\ c' = [s \in StatesOf(aut) |-> IF s \in raised THEN count ELSE c[s]]
      /\ nunbounded' = nunbounded + (IF count = Saturated THEN Cardinality(raised) ELSE 0)
      /\ changed' = (changed \/ raised # {})
      /\ q' = q + 1
      /\ UNCHANGED <<given, swapped, cache, to_treat, aut, pc, bool_threshold>>
  BY DEF SaturateState, origin
<1>2. /\ IsTranslation(aut, In \X Out) /\ q \in 0 .. aut.size /\ changed \in BOOLEAN
      /\ c \in [StatesOf(aut) -> 0 .. Saturated] /\ nunbounded = Cardinality(Unbounded)
      /\ ~changed => \A s \in StatesOf(aut) : s < q => Settled(s)
  BY <1>1 DEF IInv, ShapeInv, SaturationInv
<1>3. aut.size \in Nat \ {0} /\ Cardinality(aut.acc) \in Nat /\ Saturated = Cardinality(aut.acc) + 1
  BY <1>2, Sizes DEF Saturated
<1>4. \A e \in aut.edges : e[1] \in StatesOf(aut) /\ e[3] \in StatesOf(aut)
  BY <1>2 DEF IsTranslation, StatesOf
<1>5. q \in StatesOf(aut) /\ q' \in 0 .. aut'.size /\ \A s \in StatesOf(aut) : s \in Nat
  BY <1>1, <1>2, <1>3 DEF StatesOf
<1>6. count \in 0 .. Saturated
  BY <1>2, <1>3, <1>5 DEF Least, Acc
<1>7. raised \subseteq StatesOf(aut) /\ \A s \in raised : c[s] < count
  BY <1>4
<1>8. Saturated' = Saturated /\ StatesOf(aut') = StatesOf(aut)
  BY <1>1 DEF Saturated, StatesOf
<1> HIDE DEF count, raised
<1>9. c' \in [StatesOf(aut') -> 0 .. Saturated']
  BY <1>1, <1>2, <1>6, <1>8
<1>10. nunbounded' = Cardinality(Unbounded')
  <2>1. Unbounded = {s \in StatesOf(aut) : c[s] = Saturated}
    BY <1>2, <1>3 DEF Unbounded
  <2>2. Unbounded' = {s \in StatesOf(aut) : c'[s] = Saturated}
    BY <1>1, <1>3, <1>8, <1>9 DEF Unbounded
  <2>3. IsFiniteSet(StatesOf(aut))
    <3>1. 0 \in Int /\ aut.size - 1 \in Int
      BY <1>3
    <3> QED BY <3>1, FS_Interval DEF StatesOf
  <2>4. IsFiniteSet(Unbounded) /\ IsFiniteSet(raised)
    BY <1>7, <2>1, <2>3, FS_Subset
  <2>5. CASE count = Saturated
    <3>1. Unbounded' = Unbounded \cup raised
      BY <1>1, <1>7, <2>1, <2>2, <2>5
    <3>2. Unbounded \cap raised = {}
      BY <1>2, <1>3, <1>7, <2>1, <2>5
    <3>3. Cardinality(Unbounded \cup raised)
            = Cardinality(Unbounded) + Cardinality(raised) - Cardinality(Unbounded \cap raised)
      BY <2>4, FS_Union
    <3>4. /\ Cardinality(Unbounded \cap raised) = 0
          /\ Cardinality(Unbounded) \in Nat /\ Cardinality(raised) \in Nat
      BY <2>4, <3>2, FS_EmptySet, FS_CardinalityType
    <3> QED BY <1>1, <1>2, <2>5, <3>1, <3>3, <3>4
  <2>6. CASE count # Saturated
    <3>1. Unbounded' = Unbounded
      <4>1. \A s \in StatesOf(aut) : c'[s] = Saturated <=> c[s] = Saturated
        <5> TAKE s \in StatesOf(aut)
        <5>1. CASE s \in raised
          BY <1>1, <1>2, <1>3, <1>6, <1>7, <2>6, <5>1
        <5>2. CASE s \notin raised
          BY <1>1, <5>2
        <5> QED BY <5>1, <5>2
      <4> QED BY <2>1, <2>2, <4>1
    <3>2. Cardinality(Unbounded) \in Nat
      BY <2>4, FS_CardinalityType
    <3> QED BY <1>1, <1>2, <2>6, <3>1, <3>2
  <2> QED BY <2>5, <2>6
<1>11. ASSUME ~changed'
       PROVE  \A s \in StatesOf(aut') : s < q' => Settled(s)'
  <2>1. ~changed /\ raised = {}
    BY <1>1, <1>2, <1>11
  <2>2. c' = c
    BY <1>1, <1>2, <2>1
  <2>3. \A s \in StatesOf(aut) : Settled(s)' <=> Settled(s)
    BY <1>1, <1>8, <2>2 DEF Settled, Acc
  <2>4. Settled(q)
    <3> SUFFICES ASSUME NEW e \in aut.edges, e[1] = q
                 PROVE  c[e[3]] >= count
      BY DEF Settled, count
    <3>1. ~ c[e[3]] < count
      BY <2>1 DEF raised
    <3>2. c[e[3]] \in 0 .. Saturated
      BY <1>2, <1>4
    <3> QED BY <1>3, <1>6, <3>1, <3>2
  <2>5. \A s \in StatesOf(aut) : s < q + 1 => s < q \/ s = q
    BY <1>5
  <2> QED BY <1>1, <1>2, <1>8, <2>1, <2>3, <2>4, <2>5
<1>12. changed' \in BOOLEAN
  BY <1>1
<1>13. SaturationInv'
  BY <1>5, <1>9, <1>10, <1>11, <1>12 DEF SaturationInv
<1>14. ShapeInv' /\ PushInv' /\ ThresholdInv'
  BY <1>1 DEF IInv, ShapeInv, PushInv, ThresholdInv, In, Out
<1> QED BY <1>13, <1>14 DEF IInv

(***************************************************************************)
(* Unbounded states are numbered first and the others from nunbounded on.  *)
(* What an unbounded state leads to is unbounded, since the state is       *)
(* settled when the loop ends.                                             *)
(***************************************************************************)
LEMMA RenameIs ==
  ASSUME IsTranslation(aut, In \X Out), nunbounded = Cardinality(Unbounded), NEW s \in StatesOf(aut)
  PROVE  /\ nunbounded \in Nat /\ nunbounded =< aut.size
         /\ Rename(s) \in StatesOf(aut)
         /\ s \in Unbounded <=> Rename(s) < nunbounded
<1> DEFINE n == aut.size
           U == Unbounded
           B == StatesOf(aut) \ Unbounded
<1>1. n \in Nat \ {0} /\ StatesOf(aut) = 0 .. n - 1 /\ U \in SUBSET (0 .. n - 1) /\ B \in SUBSET (0 .. n - 1)
  BY DEF IsTranslation, StatesOf, Unbounded
<1>2. /\ IsFiniteSet(U) /\ Cardinality(U) \in Nat /\ Cardinality(U) =< n
      /\ Cardinality({r \in U : r < s}) \in Nat
      /\ s \in U => Cardinality({r \in U : r < s}) < Cardinality(U)
  BY <1>1, BelowMember
<1>3. /\ IsFiniteSet(B) /\ Cardinality(B) \in Nat
      /\ Cardinality({r \in B : r < s}) \in Nat
      /\ s \in B => Cardinality({r \in B : r < s}) < Cardinality(B)
  BY <1>1, BelowMember
<1>4. Cardinality(U) + Cardinality(B) = n
  <2>1. Cardinality(U \cup B) = Cardinality(U) + Cardinality(B) - Cardinality(U \cap B)
    BY <1>2, <1>3, FS_Union
  <2>2. U \cup B = 0 .. n - 1 /\ U \cap B = {}
    BY <1>1
  <2>3. Cardinality(U \cap B) = 0
    BY <2>2, FS_EmptySet
  <2>4. Cardinality(0 .. n - 1) = n
    <3>1. 0 \in Int /\ n - 1 \in Int
      BY <1>1
    <3> QED BY <1>1, <3>1, FS_Interval
  <2>5. Cardinality(U \cup B) = n
    BY <2>2, <2>4
  <2>6. Cardinality(U) \in Nat /\ Cardinality(B) \in Nat /\ n \in Nat
    BY <1>1, <1>2, <1>3
  <2> HIDE DEF U, B, n
  <2> QED BY <2>1, <2>3, <2>5, <2>6
<1>5. CASE s \in U
  <2>1. Rename(s) = Cardinality({r \in U : r < s})
    BY <1>5 DEF Rename
  <2> QED BY <1>1, <1>2, <1>5, <2>1
<1>6. CASE s \notin U
  <2>1. Rename(s) = nunbounded + Cardinality({r \in B : r < s})
    BY <1>6 DEF Rename
  <2>2. s \in B
    BY <1>6
  <2> QED BY <1>1, <1>2, <1>3, <1>4, <1>6, <2>1, <2>2
<1> QED BY <1>5, <1>6

LEMMA RenameStatesStep ==
  ASSUME IInv, RenameStates
  PROVE  IInv'
<1>1. /\ pc = "saturation" /\ q = aut.size /\ ~changed
      /\ aut'.size = aut.size /\ aut'.init = Rename(aut.init)
      /\ aut'.acc = {Rename(s) : s \in aut.acc \cap Unbounded}
      /\ aut'.edges = {<<Rename(e[1]), e[2], Rename(e[3])>> : e \in aut.edges}
      /\ bool_threshold' = nunbounded /\ pc' = "ios"
      /\ UNCHANGED <<given, swapped>>
  BY DEF RenameStates, origin
<1>2. /\ IsTranslation(given, Letters) /\ swapped \in BOOLEAN
      /\ IsTranslation(aut, In \X Out) /\ nunbounded = Cardinality(Unbounded)
      /\ c \in [StatesOf(aut) -> 0 .. Saturated]
      /\ \A s \in StatesOf(aut) : s < q => Settled(s)
  BY <1>1 DEF IInv, ShapeInv, SaturationInv
<1>3. \A s \in StatesOf(aut) : /\ nunbounded \in Nat /\ nunbounded =< aut.size
                               /\ Rename(s) \in StatesOf(aut)
                               /\ s \in Unbounded <=> Rename(s) < nunbounded
  BY <1>2, RenameIs
<1>4. /\ aut.size \in Nat \ {0} /\ aut.init \in StatesOf(aut) /\ aut.acc \subseteq StatesOf(aut)
      /\ \A s \in StatesOf(aut) : s \in 0 .. aut.size - 1
      /\ Cardinality(aut.acc) \in Nat /\ Saturated = Cardinality(aut.acc) + 1
  BY <1>2, Sizes DEF IsTranslation, StatesOf, Saturated
<1>5. \A e \in aut.edges : e[1] \in StatesOf(aut) /\ e[2] \in SUBSET (In \X Out) /\ e[3] \in StatesOf(aut)
  BY <1>2 DEF IsTranslation, StatesOf
<1>6. \A e \in aut.edges : e[1] \in Unbounded => e[3] \in Unbounded
  <2> SUFFICES ASSUME NEW e \in aut.edges, e[1] \in Unbounded
               PROVE  e[3] \in Unbounded
    OBVIOUS
  <2>1. e[1] \in StatesOf(aut) /\ e[3] \in StatesOf(aut) /\ c[e[1]] = Saturated /\ c[e[3]] \in 0 .. Saturated
    BY <1>2, <1>4, <1>5 DEF Unbounded
  <2>2. e[1] < q
    BY <1>1, <1>4, <2>1
  <2>3. c[e[3]] >= Least(Saturated, Saturated + Acc(e[1]))
    BY <1>2, <2>1, <2>2 DEF Settled
  <2>4. Least(Saturated, Saturated + Acc(e[1])) = Saturated
    BY <1>4 DEF Least, Acc
  <2> QED BY <1>4, <2>1, <2>3, <2>4 DEF Unbounded
<1>7. /\ Rename(aut.init) \in StatesOf(aut)
      /\ {Rename(s) : s \in aut.acc \cap Unbounded} \subseteq 0 .. nunbounded - 1
      /\ nunbounded \in 0 .. aut.size
      /\ \A e \in aut.edges : Rename(e[1]) \in StatesOf(aut) /\ Rename(e[3]) \in StatesOf(aut)
  BY <1>3, <1>4, <1>5 DEF StatesOf
<1>8. {Rename(s) : s \in aut.acc \cap Unbounded} \subseteq 0 .. aut.size - 1
  BY <1>4, <1>7
<1>9. {<<Rename(e[1]), e[2], Rename(e[3])>> : e \in aut.edges}
        \subseteq (0 .. aut.size - 1) \X (SUBSET (In \X Out)) \X (0 .. aut.size - 1)
  BY <1>5, <1>7 DEF StatesOf
<1>10. (In \X Out)' = In \X Out
  BY <1>1 DEF In, Out
<1>11. IsTranslation(aut, In \X Out)'
  BY <1>1, <1>4, <1>7, <1>8, <1>9, <1>10 DEF IsTranslation, StatesOf
<1>12. ThresholdInv'
  <2>1. ASSUME NEW e \in aut.edges, Rename(e[1]) < nunbounded
        PROVE  Rename(e[3]) < nunbounded
    BY <1>3, <1>5, <1>6, <2>1
  <2>2. \A d \in aut'.edges : d[1] < nunbounded => d[3] < nunbounded
    BY <1>1, <2>1
  <2> QED BY <1>1, <1>7, <2>2 DEF ThresholdInv
<1>13. ShapeInv'
  BY <1>1, <1>2, <1>11 DEF ShapeInv
<1> QED BY <1>1, <1>12, <1>13 DEF IInv, PushInv, SaturationInv


LEMMA PreparationInv == Spec => []IInv
<1>1. Init => IInv
  BY InitIInv
<1>2. IInv /\ [Next]_vars => IInv'
  <2> SUFFICES ASSUME IInv, [Next]_vars
               PROVE  IInv'
    OBVIOUS
  <2>1. CASE Keep
    BY <2>1, KeepStep
  <2>2. CASE PushState
    BY <2>2, PushStateStep
  <2>3. CASE Pushed
    BY <2>3, PushedStep
  <2>4. CASE LosingState
    BY <2>4, LosingStateStep
  <2>5. CASE NextRound
    BY <2>5, NextRoundStep
  <2>6. CASE Flush
    BY <2>6, FlushStep
  <2>7. CASE SaturateState
    BY <2>7, SaturateStateStep
  <2>8. CASE RenameStates
    BY <2>8, RenameStatesStep
  <2>9. CASE NoGame \/ PrecomputeIOs
    <3>1. /\ UNCHANGED <<given, swapped, cache, to_treat, aut, bool_threshold>>
          /\ pc = "ios" /\ pc' \in {"nogame", "done"}
      BY <2>9 DEF NoGame, PrecomputeIOs, Precompute, origin
    <3> QED BY <3>1 DEF IInv, ShapeInv, PushInv, SaturationInv, ThresholdInv, In, Out
  <2>10. CASE UNCHANGED vars
    <3>1. UNCHANGED <<given, swapped, cache, to_treat, aut, pc, q, c, changed, nunbounded, bool_threshold>>
      BY <2>10 DEF vars, origin, loop
    <3>2. ShapeInv' /\ PushInv' /\ ThresholdInv'
      <4>1. ShapeInv' /\ PushInv'
        BY <3>1 DEF IInv, ShapeInv, PushInv, Pair, In, Out
      <4>2. ThresholdInv'
        BY <3>1 DEF IInv, ThresholdInv
      <4> QED BY <4>1, <4>2
    <3>3. SaturationInv'
      BY <3>1 DEF IInv, SaturationInv, Unbounded, Settled, Saturated, Acc
    <3> QED BY <3>2, <3>3 DEF IInv
  <2> QED BY <2>1, <2>2, <2>3, <2>4, <2>5, <2>6, <2>7, <2>8, <2>9, <2>10 DEF Next, Step, Loops, Done
<1> QED BY <1>1, <1>2, PTL DEF Spec

(***************************************************************************)
(* forward_saturation counts every unbounded state once, and numbers the   *)
(* states so that no accepting state and no successor of a counter is      *)
(* boolean, for every automaton, pushed or not, and whatever surely_losing *)
(* has flushed.                                                            *)
(***************************************************************************)
THEOREM PreparationThresholdShape == Spec => []ThresholdShape
<1>1. IInv => ThresholdShape
  BY DEF IInv, SaturationInv, ThresholdInv, ThresholdShape
<1> QED BY <1>1, PreparationInv, PTL

(* The letters that the precomputer is given are letters of the automaton. *)
LEMMA PreparationLetters == Spec => []LettersInv
<1>1. Init => LettersInv
  BY DEF Init, LettersInv
<1>2. LettersInv /\ [Next]_vars => LettersInv'
  <2> SUFFICES ASSUME LettersInv, [Next]_vars
               PROVE  LettersInv'
    OBVIOUS
  <2>1. CASE PrecomputeIOs
    <3>1. UNCHANGED swapped
      BY <2>1 DEF PrecomputeIOs, Precompute, origin
    <3>2. (In \X Out)' = In \X Out
      BY <3>1 DEF In, Out
    <3>3. allowed' = In \X Out \/ allowed' \in (IF swapped THEN {In \X Out} ELSE Invariants)
      BY <2>1 DEF PrecomputeIOs, Precompute
    <3>4. ~swapped => In \X Out = Letters
      BY DEF In, Out, Letters
    <3>5. allowed' \subseteq In \X Out
      BY <3>3, <3>4, PreparationAssumption
    <3> QED BY <3>2, <3>5 DEF LettersInv
  <2>2. CASE UNCHANGED <<allowed, swapped>>
    BY <2>2 DEF LettersInv, In, Out
  <2>3. CASE ~PrecomputeIOs
    <3>1. UNCHANGED <<allowed, swapped>>
      BY <2>3 DEF Next, Step, Loops, Done, vars, origin, Keep, Enter, PushState, Pushed, LosingState,
                  NextRound, Flush, SaturateState, RenameStates, NoGame
    <3> QED BY <2>2, <3>1
  <2> QED BY <2>1, <2>3
<1> QED BY <1>1, <1>2, PTL DEF Spec

-----------------------------------------------------------------------------
(***************************************************************************)
(* The game that prepare_formula makes of the automaton it has prepared.   *)
(* Its states are those below and above the threshold, its inputs and      *)
(* outputs those of the program after the swap.                            *)
(***************************************************************************)
Prepared == INSTANCE KBoundedGame WITH
  States <- StatesOf(aut), NonBool <- 0 .. bool_threshold - 1, Inputs <- In, Outputs <- Out,
  Automata <- {}

(* K - 1 of the first turn is k; the play starts in the initial state. *)
SafetyGame(k) ==
  [edge    |-> UNION {{<<e[1], l[1], l[2], e[3]>> : l \in e[2]} : e \in aut.edges},
   acc     |-> aut.acc,
   allowed |-> allowed,
   init    |-> [s \in StatesOf(aut) |-> IF s = aut.init THEN 0 ELSE -1],
   start   |-> Prepared!Down({Prepared!Uniform(k)})]

GivesAGame == pc = "done" => \A k \in 0 .. TopK : Prepared!IsAutomaton(SafetyGame(k))

(***************************************************************************)
(* What is handed to the solver is an automaton with the shape that        *)
(* KBoundedGame assumes of its automata, and on which its proofs rest.     *)
(***************************************************************************)
THEOREM PreparationGivesAGame == Spec => []GivesAGame
<1>1. IInv /\ LettersInv => GivesAGame
  <2> SUFFICES ASSUME IInv, LettersInv, pc = "done", NEW k \in 0 .. TopK
               PROVE  Prepared!IsAutomaton(SafetyGame(k))
    BY DEF GivesAGame
  <2> DEFINE g == SafetyGame(k)
  <2>1. /\ IsTranslation(aut, In \X Out) /\ bool_threshold \in 0 .. aut.size
        /\ aut.acc \subseteq 0 .. bool_threshold - 1
        /\ \A e \in aut.edges : e[1] < bool_threshold => e[3] < bool_threshold
    BY DEF IInv, ShapeInv, ThresholdInv
  <2>2. \A e \in aut.edges : e[1] \in StatesOf(aut) /\ e[2] \in SUBSET (In \X Out) /\ e[3] \in StatesOf(aut)
    BY <2>1 DEF IsTranslation, StatesOf
  <2>3. \A d \in g.edge : \E e \in aut.edges : \E l \in e[2] : d = <<e[1], l[1], l[2], e[3]>>
    BY DEF SafetyGame
  <2>4. g.edge \subseteq StatesOf(aut) \X In \X Out \X StatesOf(aut)
    BY <2>2, <2>3
  <2>5. \A d \in g.edge : d[1] \in 0 .. bool_threshold - 1 => d[4] \in 0 .. bool_threshold - 1
    <3> SUFFICES ASSUME NEW d \in g.edge, d[1] \in 0 .. bool_threshold - 1
                 PROVE  d[4] \in 0 .. bool_threshold - 1
      OBVIOUS
    <3>1. PICK e \in aut.edges : \E l \in e[2] : d = <<e[1], l[1], l[2], e[3]>>
      BY <2>3
    <3>2. d[1] = e[1] /\ d[4] = e[3]
      BY <3>1
    <3>3. e[1] < bool_threshold /\ bool_threshold \in Nat /\ e[3] \in Nat
      BY <2>1, <2>2, <3>2 DEF StatesOf
    <3> QED BY <2>1, <3>2, <3>3
  <2>6. g.init \in Prepared!Vectors
    BY PreparationAssumption DEF SafetyGame, Prepared!Vectors, Prepared!Values
  <2>7. g.start \subseteq Prepared!Vectors
    BY DEF SafetyGame, Prepared!Down
  <2>8. g.acc \subseteq 0 .. bool_threshold - 1 /\ g.allowed \subseteq In \X Out
    BY <2>1 DEF SafetyGame, LettersInv
  <2> HIDE DEF g
  <2> QED BY <2>4, <2>5, <2>6, <2>7, <2>8 DEF Prepared!IsAutomaton, g
<1> QED BY <1>1, PreparationInv, PreparationLetters, PTL
=============================================================================
