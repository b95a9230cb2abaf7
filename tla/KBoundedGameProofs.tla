------------------------- MODULE KBoundedGameProofs -------------------------
(***************************************************************************)
(* What the two directions of actioner.apply compute, for every automaton, *)
(* every K and every number of states.  The main result, Galois, is why    *)
(* the solver may work backward on the maximal elements of a downset       *)
(* although the game is defined forward on vectors.                        *)
(*                                                                         *)
(* The module starts with what every proof about the actioners needs: they *)
(* compute each coordinate of a successor as a std::max, and each of a     *)
(* predecessor as a std::min, of a bounded set of counters; and with       *)
(* induction over the numbers, which the proofs about recursive functions  *)
(* use (SynthesisProofs, MergeProofs).                                     *)
(***************************************************************************)
EXTENDS KBoundedGame, FiniteSetsExt, WellFoundedInduction, TLAPS

(***************************************************************************)
(* A nonempty set of naturals has a least element.                         *)
(***************************************************************************)
LEMMA LeastNatural ==
  ASSUME NEW T \in SUBSET Nat, T # {}
  PROVE  \E x \in T : \A y \in T : x =< y
<1> DEFINE R == OpToRel(<, Nat)
<1>1. IsWellFoundedOn(R, Nat)
  BY NatLessThanWellFounded
<1>2. PICK x \in T : \A y \in T : ~ (<<y, x>> \in R)
  <2> HIDE DEF R
  <2> QED BY <1>1, WFMin
<1>3. ASSUME NEW y \in T PROVE x =< y
  <2>1. x \in Nat /\ y \in Nat
    OBVIOUS
  <2>2. ~ (<<y, x>> \in R)
    BY <1>2
  <2>3. <<y, x>> \in R <=> y < x
    BY <2>1 DEF OpToRel
  <2> HIDE DEF R
  <2> QED BY <2>1, <2>2, <2>3
<1> QED BY <1>3

(***************************************************************************)
(* Induction over the natural numbers, for a set.                          *)
(***************************************************************************)
LEMMA Induction ==
  ASSUME NEW T, 0 \in T, \A n \in Nat : n \in T => n + 1 \in T
  PROVE  Nat \subseteq T
<1>1. SUFFICES ASSUME Nat \ T # {} PROVE FALSE
  OBVIOUS
<1>2. PICK x \in Nat \ T : \A y \in Nat \ T : x =< y
  BY <1>1, LeastNatural
<1>3. x # 0 /\ x - 1 \in Nat
  OBVIOUS
<1>4. x - 1 \in T
  BY <1>2, <1>3
<1>5. (x - 1) + 1 \in T
  BY <1>3, <1>4
<1> QED BY <1>5

(***************************************************************************)
(* Definition by recursion over the natural numbers.                       *)
(***************************************************************************)
StepsFrom(f, base, step) ==
  f[0] = base /\ \A n \in Nat : f[n + 1] = step[<<n, f[n]>>]

LEMMA PrimitiveRecursion ==
  ASSUME NEW S, NEW base \in S, NEW step \in [Nat \X S -> S]
  PROVE  \E f \in [Nat -> S] : StepsFrom(f, base, step)
<1> DEFINE Fits(m, g) == /\ g \in [0 .. m -> S] /\ g[0] = base
                         /\ \A n \in 0 .. m - 1 : g[n + 1] = step[<<n, g[n]>>]
           T == {m \in Nat : \E g : Fits(m, g)}
           F == [m \in Nat |-> CHOOSE g : Fits(m, g)]
<1>1. \A m \in Nat : \E g : Fits(m, g)
  <2>1. 0 \in T
    <3>1. Fits(0, [n \in 0 .. 0 |-> base])
      OBVIOUS
    <3> QED BY <3>1
  <2>2. ASSUME NEW m \in Nat, m \in T PROVE m + 1 \in T
    <3>1. PICK g : Fits(m, g)
      BY <2>2
    <3> DEFINE h == [n \in 0 .. m + 1 |-> IF n = m + 1 THEN step[<<m, g[m]>>] ELSE g[n]]
    <3>2. g[m] \in S /\ step[<<m, g[m]>>] \in S
      BY <3>1
    <3>3. h \in [0 .. m + 1 -> S] /\ h[0] = base
      BY <3>1, <3>2
    <3>4. ASSUME NEW n \in 0 .. (m + 1) - 1 PROVE h[n + 1] = step[<<n, h[n]>>]
      <4>1. h[n] = g[n] /\ n \in 0 .. m
        OBVIOUS
      <4>2. CASE n = m
        <5>1. m + 1 \in 0 .. m + 1
          OBVIOUS
        <5>2. h[m + 1] = step[<<m, g[m]>>]
          BY <5>1
        <5> HIDE DEF h
        <5> QED BY <5>2, <4>1, <4>2
      <4>3. CASE n # m
        <5>1. n \in 0 .. m - 1 /\ h[n + 1] = g[n + 1]
          BY <4>1, <4>3
        <5> QED BY <5>1, <4>1, <3>1
      <4> QED BY <4>2, <4>3
    <3>5. Fits(m + 1, h)
      <4> HIDE DEF h
      <4> QED BY <3>3, <3>4
    <3> HIDE DEF h, Fits
    <3> QED BY <3>5
  <2> HIDE DEF T
  <2>3. Nat \subseteq T
    BY <2>1, <2>2, Induction
  <2> QED BY <2>3 DEF T
<1>2. \A m \in Nat : Fits(m, F[m])
  <2> HIDE DEF Fits
  <2> QED BY <1>1
<1>3. \A m \in Nat : \A n \in Nat : n =< m => F[m][n] = F[n][n]
  <2> SUFFICES ASSUME NEW m \in Nat PROVE \A n \in Nat : n =< m => F[m][n] = F[n][n]
    OBVIOUS
  <2> DEFINE U == {n \in Nat : \A a, b \in Nat : n =< a /\ n =< b => F[a][n] = F[b][n]}
  <2>2. 0 \in U
    <3> HIDE DEF F
    <3> QED BY <1>2
  <2>3. ASSUME NEW n \in Nat, n \in U PROVE n + 1 \in U
    <3>1. ASSUME NEW a \in Nat, NEW b \in Nat, n + 1 =< a, n + 1 =< b
          PROVE  F[a][n + 1] = F[b][n + 1]
      <4>1. n \in 0 .. a - 1 /\ n \in 0 .. b - 1
        BY <3>1
      <4> HIDE DEF F
      <4>2. F[a][n] = F[b][n]
        <5>1. n =< a /\ n =< b
          BY <3>1
        <5> QED BY <5>1, <2>3
      <4>3. F[a][n + 1] = step[<<n, F[a][n]>>] /\ F[b][n + 1] = step[<<n, F[b][n]>>]
        BY <4>1, <1>2
      <4> QED BY <4>2, <4>3
    <3> HIDE DEF F
    <3> QED BY <3>1
  <2>4. Nat \subseteq U
    <3> HIDE DEF U
    <3> QED BY <2>2, <2>3, Induction
  <2> HIDE DEF F
  <2> QED BY <2>4
<1> DEFINE f == [n \in Nat |-> F[n][n]]
<1>4. \A n \in Nat : F[n][n] \in S
  <2> HIDE DEF F
  <2> QED BY <1>2
<1>5. f \in [Nat -> S]
  <2> HIDE DEF F
  <2> QED BY <1>4
<1>6. f[0] = base
  <2> HIDE DEF F
  <2> QED BY <1>2
<1>7. ASSUME NEW n \in Nat PROVE f[n + 1] = step[<<n, f[n]>>]
  <2> HIDE DEF F
  <2>1. n \in 0 .. (n + 1) - 1
    OBVIOUS
  <2>2. F[n + 1][n + 1] = step[<<n, F[n + 1][n]>>]
    BY <2>1, <1>2
  <2>3. F[n + 1][n] = F[n][n]
    BY <1>3
  <2> QED BY <2>2, <2>3
<1> HIDE DEF f
<1> QED BY <1>5, <1>6, <1>7 DEF StepsFrom

(***************************************************************************)
(* Max returns an upper bound that belongs to the set, when the set is     *)
(* nonempty and bounded above.                                             *)
(***************************************************************************)
LEMMA MaxOfBounded ==
  ASSUME NEW k \in Int, NEW S \in SUBSET Int, S # {}, \A x \in S : x =< k
  PROVE  Max(S) \in S /\ \A y \in S : y =< Max(S)
<1> DEFINE T == {k - x : x \in S}
<1>1. T \in SUBSET Nat
  <2>1. \A x \in S : k - x \in Nat
    OBVIOUS
  <2> QED BY <2>1
<1>2. T # {}
  OBVIOUS
<1>3. PICK x \in T : \A y \in T : x =< y
  <2> HIDE DEF T
  <2> QED BY <1>1, <1>2, LeastNatural
<1>4. PICK z \in S : x = k - z
  OBVIOUS
<1>5. ASSUME NEW y \in S PROVE z >= y
  <2>1. k - y \in T
    OBVIOUS
  <2>2. k - z =< k - y
    BY <2>1, <1>3, <1>4
  <2>3. z \in Int /\ y \in Int /\ k \in Int
    OBVIOUS
  <2> HIDE DEF T
  <2> QED BY <2>2, <2>3
<1> QED BY <1>5 DEF Max

(***************************************************************************)
(* Min returns a lower bound that belongs to the set, when the set is      *)
(* nonempty and bounded below.                                             *)
(***************************************************************************)
LEMMA MinOfBounded ==
  ASSUME NEW k \in Int, NEW S \in SUBSET Int, S # {}, \A x \in S : k =< x
  PROVE  Min(S) \in S /\ \A y \in S : Min(S) =< y
<1> DEFINE T == {x - k : x \in S}
<1>1. T \in SUBSET Nat
  <2>1. \A x \in S : x - k \in Nat
    OBVIOUS
  <2> QED BY <2>1
<1>2. T # {}
  OBVIOUS
<1>3. PICK x \in T : \A y \in T : x =< y
  <2> HIDE DEF T
  <2> QED BY <1>1, <1>2, LeastNatural
<1>4. PICK z \in S : x = z - k
  OBVIOUS
<1>5. ASSUME NEW y \in S PROVE z =< y
  <2>1. y - k \in T
    OBVIOUS
  <2>2. z - k =< y - k
    BY <2>1, <1>3, <1>4
  <2>3. z \in Int /\ y \in Int /\ k \in Int
    OBVIOUS
  <2> HIDE DEF T
  <2> QED BY <2>2, <2>3
<1> QED BY <1>5 DEF Min

(***************************************************************************)
(* A vector is safe for k when every real counter is below k.              *)
(***************************************************************************)
LEMMA SafeIff ==
  ASSUME NEW k \in 1 .. TopK, NEW v \in Vectors
  PROVE  v \in Safe(k) <=> \A q \in NonBool : v[q] =< k - 1
<1>1. v \in Safe(k) <=> Leq(v, Uniform(k - 1))
  BY DEF Safe, Down
<1>2. Leq(v, Uniform(k - 1)) <=> \A q \in NonBool : v[q] =< k - 1
  BY GameAssumption DEF Leq, Uniform, Vectors
<1> QED BY <1>1, <1>2

(***************************************************************************)
(* The order on vectors is reflexive and transitive.                       *)
(***************************************************************************)
LEMMA LeqOrder ==
  ASSUME NEW u \in Vectors, NEW v \in Vectors, NEW w \in Vectors
  PROVE  /\ Leq(u, u)
         /\ Leq(u, v) /\ Leq(v, w) => Leq(u, w)
BY GameAssumption DEF Leq, Vectors, Values

(***************************************************************************)
(* The set of counters whose std::max a forward step takes at state p: it  *)
(* is bounded by k, so that Max is its largest element.                    *)
(***************************************************************************)
Reached(a, v, i, o, k, p) ==
  {-1} \cup {Capped(k, v[q] + Count(a, p)) : q \in ActivePreds(a, v, i, o, p)}

LEMMA ReachedMax ==
  ASSUME NEW a \in Automata, NEW v \in Vectors, NEW i \in Inputs, NEW o \in Outputs,
         NEW k \in 1 .. TopK, NEW p \in States
  PROVE  LET S == Reached(a, v, i, o, k, p)
         IN  /\ S \subseteq Int
             /\ Max(S) \in S
             /\ Max(S) \in -1 .. k
             /\ \A x \in S : x =< Max(S)
<1> DEFINE S == Reached(a, v, i, o, k, p)
<1>0. k \in Int /\ k >= 1 /\ TopK \in Int
  BY GameAssumption
<1>1. Count(a, p) \in {0, 1}
  BY DEF Count
<1>2. ASSUME NEW q \in ActivePreds(a, v, i, o, p)
      PROVE  Capped(k, v[q] + Count(a, p)) \in Int /\ Capped(k, v[q] + Count(a, p)) =< k
  <2>1. v[q] \in Int
    BY <1>0 DEF Vectors, Values, ActivePreds
  <2>2. v[q] + Count(a, p) \in Int
    BY <1>1, <2>1
  <2> QED BY <1>0, <2>2 DEF Capped
<1>3. \A x \in S : x \in Int /\ x =< k
  BY <1>0, <1>2 DEF Reached
<1>4. -1 \in S
  BY DEF Reached
<1> HIDE DEF S
<1>5. S \in SUBSET Int /\ S # {}
  BY <1>3, <1>4
<1>6. Max(S) \in S /\ \A y \in S : y =< Max(S)
  BY <1>0, <1>3, <1>5, MaxOfBounded
<1>7. Max(S) \in -1 .. k
  BY <1>0, <1>3, <1>4, <1>6
<1> QED BY <1>5, <1>6, <1>7 DEF S

(***************************************************************************)
(* actioner.apply forward returns a vector, whose booleans hold one bit.   *)
(***************************************************************************)
LEMMA ForwardType ==
  ASSUME NEW a \in Automata, NEW v \in Vectors, NEW i \in Inputs, NEW o \in Outputs,
         NEW k \in 1 .. TopK
  PROVE  Forward(a, v, i, o, k) \in Vectors
<1> DEFINE f == Forward(a, v, i, o, k)
           M(p) == Max(Reached(a, v, i, o, k, p))
<1>1. f = [p \in States |-> Stored(p, M(p))]
  BY DEF Forward, Reached
<1>2. \A p \in States : M(p) \in -1 .. k
  BY ReachedMax
<1> HIDE DEF f, M
<1>3. ASSUME NEW p \in States
      PROVE  Stored(p, M(p)) \in Values /\ (p \notin NonBool => Stored(p, M(p)) =< 0)
  BY <1>2, GameAssumption DEF Stored, Values
<1> QED BY <1>1, <1>3 DEF Vectors, f

(***************************************************************************)
(* In an automaton renamed by boolean_states, a run that is counted as     *)
(* boolean has counter 0 and came from boolean states only.                *)
(***************************************************************************)
LEMMA BooleanPreds ==
  ASSUME NEW a \in Automata, NEW v \in Vectors, NEW i \in Inputs, NEW o \in Outputs,
         NEW p \in States, p \notin NonBool, NEW q \in ActivePreds(a, v, i, o, p)
  PROVE  q \in States \ NonBool /\ v[q] = 0 /\ Count(a, p) = 0
<1>1. q \in States /\ v[q] # -1 /\ <<q, i, o, p>> \in a.edge
  BY DEF ActivePreds
<1>2. q \notin NonBool
  BY <1>1, GameAssumption DEF IsAutomaton
<1>3. v[q] \in -1 .. TopK /\ v[q] =< 0
  BY <1>1, <1>2 DEF Vectors, Values
<1>4. Count(a, p) = 0
  BY GameAssumption DEF IsAutomaton, Count
<1> QED BY <1>1, <1>2, <1>3, <1>4, GameAssumption

(***************************************************************************)
(* The successor of v is below a safe vector m exactly when every run that *)
(* is alive in v stays below m: the cap at k and the bits lose nothing.    *)
(***************************************************************************)
RunsBelow(a, v, i, o, m) ==
  \A p \in States : \A q \in ActivePreds(a, v, i, o, p) : v[q] + Count(a, p) =< m[p]

LEMMA ForwardBelow ==
  ASSUME NEW a \in Automata, NEW v \in Vectors, NEW i \in Inputs, NEW o \in Outputs,
         NEW k \in 1 .. TopK, NEW m \in Vectors, m \in Safe(k)
  PROVE  Leq(Forward(a, v, i, o, k), m) <=> RunsBelow(a, v, i, o, m)
<1> DEFINE R(p) == Reached(a, v, i, o, k, p)
<1>0. k \in Int /\ k >= 1 /\ TopK \in Int
  BY GameAssumption
<1>1. \A p \in States : Forward(a, v, i, o, k)[p] = Stored(p, Max(R(p)))
  BY DEF Forward, Reached
<1>2. \A p \in States : /\ R(p) \subseteq Int
                        /\ Max(R(p)) \in R(p)
                        /\ Max(R(p)) \in -1 .. k
                        /\ \A x \in R(p) : x =< Max(R(p))
  BY ReachedMax
<1>3. \A q \in NonBool : m[q] =< k - 1
  BY SafeIff
<1>4. \A p \in States : m[p] \in Int /\ m[p] >= -1
  BY <1>0 DEF Vectors, Values
<1>5. \A p \in States : \A q \in ActivePreds(a, v, i, o, p) :
        /\ v[q] + Count(a, p) \in Int
        /\ Capped(k, v[q] + Count(a, p)) \in R(p)
  <2>1. \A p \in States : \A q \in ActivePreds(a, v, i, o, p) : v[q] \in Int
    BY <1>0 DEF Vectors, Values, ActivePreds
  <2>2. \A p \in States : Count(a, p) \in {0, 1}
    BY DEF Count
  <2> QED BY <2>1, <2>2 DEF Reached
<1>6. ASSUME NEW p \in States
      PROVE  Stored(p, Max(R(p))) =< m[p]
               <=> \A q \in ActivePreds(a, v, i, o, p) : v[q] + Count(a, p) =< m[p]
  <2>1. ASSUME Stored(p, Max(R(p))) =< m[p], NEW q \in ActivePreds(a, v, i, o, p)
        PROVE  v[q] + Count(a, p) =< m[p]
    <3> DEFINE x == v[q] + Count(a, p)
    <3>1. x \in Int /\ Capped(k, x) =< Max(R(p))
      BY <1>2, <1>5
    <3>2. CASE p \in NonBool
      <4>1. Max(R(p)) =< k - 1
        BY <1>0, <1>2, <1>3, <1>4, <2>1, <3>2 DEF Stored
      <4>2. Max(R(p)) =< m[p]
        BY <2>1, <3>2 DEF Stored
      <4> HIDE DEF x
      <4>3. Capped(k, x) = x
        BY <1>0, <1>2, <3>1, <4>1 DEF Capped
      <4>4. x =< m[p]
        BY <1>2, <1>4, <3>1, <4>2, <4>3
      <4> QED BY <4>4 DEF x
    <3>3. CASE p \notin NonBool
      <4>1. x = 0
        BY <3>3, BooleanPreds
      <4> HIDE DEF x
      <4>2. Max(R(p)) >= 0
        BY <1>0, <1>2, <3>1, <4>1 DEF Capped
      <4>3. Stored(p, Max(R(p))) = 0
        BY <1>2, <3>3, <4>2 DEF Stored
      <4>4. x =< m[p]
        BY <2>1, <4>1, <4>3
      <4> QED BY <4>4 DEF x
    <3> QED BY <3>2, <3>3
  <2>2. ASSUME \A q \in ActivePreds(a, v, i, o, p) : v[q] + Count(a, p) =< m[p]
        PROVE  Stored(p, Max(R(p))) =< m[p]
    <3>1. \A y \in R(p) : y =< m[p]
      BY <1>0, <1>4, <1>5, <2>2 DEF Reached, Capped
    <3>2. Max(R(p)) =< m[p]
      BY <1>2, <3>1
    <3> QED BY <1>2, <1>4, <3>2 DEF Stored
  <2> QED BY <2>1, <2>2
<1> HIDE DEF R
<1>7. (\A p \in States : Forward(a, v, i, o, k)[p] =< m[p])
        <=> \A p \in States : \A q \in ActivePreds(a, v, i, o, p) : v[q] + Count(a, p) =< m[p]
  BY <1>1, <1>6
<1> QED BY <1>7 DEF Leq, RunsBelow

(***************************************************************************)
(* actioner.apply backward returns a safe vector: it starts from           *)
(* backward_reset and only lowers it.                                      *)
(***************************************************************************)
Allowance(a, m, i, o, k, q) ==
  {Uniform(k - 1)[q]} \cup {AtLeastMinus1(m[p] - Count(a, p)) : p \in Succs(a, q, i, o)}

LEMMA AllowanceMin ==
  ASSUME NEW a \in Automata, NEW m \in Vectors, NEW i \in Inputs, NEW o \in Outputs,
         NEW k \in 1 .. TopK, NEW q \in States
  PROVE  LET S == Allowance(a, m, i, o, k, q)
         IN  /\ S \subseteq Int
             /\ Min(S) \in S
             /\ Min(S) \in -1 .. Uniform(k - 1)[q]
             /\ \A x \in S : Min(S) =< x
<1> DEFINE S == Allowance(a, m, i, o, k, q)
           r == Uniform(k - 1)[q]
<1>0. k \in Int /\ k >= 1 /\ TopK \in Int
  BY GameAssumption
<1>1. r \in Int /\ r >= -1
  BY <1>0 DEF Uniform
<1>2. ASSUME NEW p \in Succs(a, q, i, o)
      PROVE  /\ AtLeastMinus1(m[p] - Count(a, p)) \in Int
             /\ AtLeastMinus1(m[p] - Count(a, p)) >= -1
  <2>1. m[p] \in Int
    BY <1>0 DEF Vectors, Values, Succs
  <2>2. Count(a, p) \in {0, 1}
    BY DEF Count
  <2>3. m[p] - Count(a, p) \in Int
    BY <2>1, <2>2
  <2> QED BY <2>3 DEF AtLeastMinus1
<1>3. \A x \in S : x \in Int /\ x >= -1
  BY <1>1, <1>2 DEF Allowance
<1>4. r \in S
  BY DEF Allowance
<1> HIDE DEF S, r
<1>5. S \in SUBSET Int /\ S # {} /\ \A x \in S : -1 =< x
  BY <1>3, <1>4
<1>6. Min(S) \in S /\ \A y \in S : Min(S) =< y
  BY <1>5, MinOfBounded
<1>7. Min(S) \in -1 .. r
  <2>1. Min(S) \in Int /\ Min(S) >= -1 /\ Min(S) =< r
    BY <1>3, <1>4, <1>6
  <2> QED BY <1>1, <2>1
<1> QED BY <1>5, <1>6, <1>7 DEF S, r

LEMMA BackwardSafe ==
  ASSUME NEW a \in Automata, NEW m \in Vectors, NEW i \in Inputs, NEW o \in Outputs,
         NEW k \in 1 .. TopK
  PROVE  /\ Backward(a, m, i, o, Uniform(k - 1)) \in Vectors
         /\ Backward(a, m, i, o, Uniform(k - 1)) \in Safe(k)
<1> DEFINE b == Backward(a, m, i, o, Uniform(k - 1))
           M(q) == Min(Allowance(a, m, i, o, k, q))
<1>0. k \in Int /\ k >= 1 /\ k =< TopK /\ TopK \in Int /\ NonBool \subseteq States
  BY GameAssumption
<1>1. b = [q \in States |-> M(q)]
  BY DEF Backward, Allowance
<1>2. \A q \in States : M(q) \in -1 .. Uniform(k - 1)[q]
  BY AllowanceMin
<1> HIDE DEF b, M
<1>3. ASSUME NEW q \in States
      PROVE  /\ b[q] \in -1 .. TopK
             /\ q \in NonBool => b[q] =< k - 1
             /\ q \notin NonBool => b[q] =< 0
  <2>1. b[q] \in -1 .. Uniform(k - 1)[q]
    BY <1>1, <1>2
  <2>2. CASE q \in NonBool
    BY <1>0, <2>1, <2>2 DEF Uniform
  <2>3. CASE q \notin NonBool
    BY <1>0, <2>1, <2>3 DEF Uniform
  <2> QED BY <2>2, <2>3
<1>4. b \in Vectors
  BY <1>1, <1>3 DEF Vectors, Values
<1>5. b \in Safe(k)
  BY <1>0, <1>3, <1>4, SafeIff
<1> QED BY <1>4, <1>5 DEF b

(***************************************************************************)
(* A safe vector is below the predecessor of m exactly when every run that *)
(* is alive in it stays below m.                                           *)
(***************************************************************************)
LEMMA BelowBackward ==
  ASSUME NEW a \in Automata, NEW m \in Vectors, NEW i \in Inputs, NEW o \in Outputs,
         NEW k \in 1 .. TopK, NEW v \in Vectors, v \in Safe(k)
  PROVE  Leq(v, Backward(a, m, i, o, Uniform(k - 1))) <=> RunsBelow(a, v, i, o, m)
<1> DEFINE A(q) == Allowance(a, m, i, o, k, q)
<1>0. k \in Int /\ k >= 1 /\ TopK \in Int
  BY GameAssumption
<1>1. \A q \in States : Backward(a, m, i, o, Uniform(k - 1))[q] = Min(A(q))
  BY DEF Backward, Allowance
<1>2. \A q \in States : /\ A(q) \subseteq Int
                        /\ Min(A(q)) \in A(q)
                        /\ \A x \in A(q) : Min(A(q)) =< x
  BY AllowanceMin
<1>3. \A q \in States : v[q] \in Int /\ v[q] >= -1 /\ m[q] \in Int
  BY <1>0 DEF Vectors, Values
<1>4. \A q \in States : v[q] =< Uniform(k - 1)[q]
  BY <1>3, SafeIff DEF Uniform, Vectors
<1>5. \A q, p \in States :
        v[q] =< AtLeastMinus1(m[p] - Count(a, p)) <=> v[q] = -1 \/ v[q] + Count(a, p) =< m[p]
  BY <1>3 DEF AtLeastMinus1, Count
<1>6. ASSUME NEW q \in States
      PROVE  v[q] =< Min(A(q)) <=>
               \A p \in Succs(a, q, i, o) : v[q] = -1 \/ v[q] + Count(a, p) =< m[p]
  <2>1. v[q] =< Min(A(q)) <=> \A x \in A(q) : v[q] =< x
    BY <1>2, <1>3
  <2>2. (\A x \in A(q) : v[q] =< x)
          <=> \A p \in Succs(a, q, i, o) : v[q] =< AtLeastMinus1(m[p] - Count(a, p))
    BY <1>4 DEF Allowance
  <2>3. Succs(a, q, i, o) \subseteq States
    BY DEF Succs
  <2> HIDE DEF A
  <2> QED BY <1>5, <2>1, <2>2, <2>3
<1> HIDE DEF A
<1>7. (\A q \in States : v[q] =< Backward(a, m, i, o, Uniform(k - 1))[q])
        <=> \A q \in States : \A p \in Succs(a, q, i, o) :
              v[q] = -1 \/ v[q] + Count(a, p) =< m[p]
  BY <1>1, <1>6
<1>8. (\A q \in States : \A p \in Succs(a, q, i, o) : v[q] = -1 \/ v[q] + Count(a, p) =< m[p])
        <=> \A p \in States : \A q \in ActivePreds(a, v, i, o, p) : v[q] + Count(a, p) =< m[p]
  BY DEF Succs, ActivePreds
<1> QED BY <1>7, <1>8 DEF Leq, RunsBelow

(***************************************************************************)
(* The Galois connection between the two directions of actioner.apply, on  *)
(* safe vectors: stepping forward from v stays below m if and only if v is *)
(* below the backward step from m.  It is what makes cpre_inplace, which   *)
(* only applies actions backward, compute the controllable predecessors of *)
(* a game whose moves are forward.                                         *)
(***************************************************************************)
THEOREM Galois ==
  ASSUME NEW a \in Automata, NEW i \in Inputs, NEW o \in Outputs, NEW k \in 1 .. TopK,
         NEW v \in Safe(k), NEW m \in Safe(k)
  PROVE  Leq(Forward(a, v, i, o, k), m) <=> Leq(v, Backward(a, m, i, o, Uniform(k - 1)))
<1>1. v \in Vectors /\ m \in Vectors
  BY DEF Safe, Down
<1> QED BY <1>1, ForwardBelow, BelowBackward
=============================================================================
