-------------------------- MODULE SynthesisProofs --------------------------
(***************************************************************************)
(* Proofs about Synthesis, for every solved game, every state and letter,  *)
(* and about Aiger, the circuits that it writes. They follow the program.  *)
(*                                                                         *)
(* The circuits: for every list of sources and every BDD over them,        *)
(* bdd2aig returns a signal that is true exactly for the valuations of the *)
(* BDD (Bdd2AigSound). Truth is read off Known, the signals determined by  *)
(* the first gates. Gates are only ever appended, and each reads earlier   *)
(* signals, so what a signal computes never changes (TruthGrows); add_gate *)
(* returns the conjunction of its arguments in each of its cases           *)
(* (AndSound); and bdd2aig, by induction on the number of variables that   *)
(* the BDD depends on, returns what it should and leaves a cache whose     *)
(* entries are right (LevelSound).                                         *)
(*                                                                         *)
(* The exploration: ExplorationInv says what states, todo and trans hold   *)
(* at any moment; at its end the strategy is closed (StrategyIsClosed).    *)
(*                                                                         *)
(* The construction: FixedInv says that the transitions that agree with    *)
(* the functions already fixed still answer every state and input          *)
(* (NothingIsLost), CircuitInv that the circuit computes each of those     *)
(* functions.                                                              *)
(*                                                                         *)
(* The play: PlayInv says that the latches hold the number of a state that *)
(* is above the vector the game has reached, or equal to it in the winning *)
(* region circuit. It gives CircuitIsSafe, RegionIsExact and               *)
(* VectorIsReadable.                                                       *)
(*                                                                         *)
(* The last three and the first suppose that solve has not raised K        *)
(* (NoRaise); SynthesisRaisedK shows why.                                  *)
(***************************************************************************)
EXTENDS Synthesis, KBoundedGameProofs, FiniteSetTheorems, SequenceTheorems

(***************************************************************************)
(* The sources of a circuit: each variable is read at an even signal of    *)
(* its own, before those of the gates.                                     *)
(***************************************************************************)
Wired(vs) == vs \in Seq(Nat)

(* A source has an even signal of its own, after the constants 0 and 1. *)
LEMMA SourceFacts ==
  ASSUME NEW vs, Wired(vs)
  PROVE  /\ Len(vs) \in Nat
         /\ Variables(vs) \subseteq Nat /\ IsFiniteSet(Variables(vs))
         /\ \A b \in Variables(vs) : /\ Signal(vs, b) \in 2 .. 2 * Len(vs)
                                    /\ Signal(vs, b) % 2 = 0
         /\ \A b, d \in Variables(vs) : Signal(vs, b) = Signal(vs, d) => b = d
<1> DEFINE s == vs
           At(b) == CHOOSE n \in DOMAIN s : s[n] = b
<1>1. s \in Seq(Nat) /\ Len(s) \in Nat /\ DOMAIN s = 1 .. Len(s)
  BY DEF Wired
<1>2. Variables(vs) = {s[n] : n \in DOMAIN s}
  BY DEF Variables, ToSet
<1> HIDE DEF s
<1>3. Variables(vs) \subseteq Nat
  BY <1>1, <1>2
<1>4. IsFiniteSet(Variables(vs))
  <2>1. IsFiniteSet(1 .. Len(s))
    BY <1>1, FS_Interval
  <2> DEFINE f == [n \in 1 .. Len(s) |-> s[n]]
  <2>2. f \in Surjection(1 .. Len(s), Variables(vs))
    BY <1>1, <1>2 DEF Surjection
  <2> HIDE DEF f
  <2> QED BY <2>1, <2>2, FS_Surjection
<1>5. ASSUME NEW b \in Variables(vs) PROVE At(b) \in 1 .. Len(s) /\ s[At(b)] = b
  <2>1. \E n \in DOMAIN s : s[n] = b
    BY <1>2
  <2>2. At(b) \in DOMAIN s /\ s[At(b)] = b
    BY <2>1
  <2> QED BY <2>2, <1>1
<1>6. \A b : Signal(vs, b) = 2 * At(b)
  BY DEF Signal, s
<1> HIDE DEF At
<1>7. ASSUME NEW b \in Variables(vs)
      PROVE  Signal(vs, b) \in 2 .. 2 * Len(s) /\ Signal(vs, b) % 2 = 0
  <2>1. At(b) \in 1 .. Len(s)
    BY <1>5
  <2>2. (2 * At(b)) % 2 = 0
    BY <2>1, <1>1
  <2> QED BY <2>1, <2>2, <1>1, <1>6
<1>8. ASSUME NEW b \in Variables(vs), NEW d \in Variables(vs), Signal(vs, b) = Signal(vs, d)
      PROVE  b = d
  <2>1. At(b) \in 1 .. Len(s) /\ At(d) \in 1 .. Len(s) /\ 2 * At(b) = 2 * At(d)
    BY <1>5, <1>6, <1>8
  <2>2. At(b) = At(d)
    BY <2>1, <1>1
  <2> QED BY <2>2, <1>5
<1> QED BY <1>1, <1>3, <1>4, <1>7, <1>8 DEF s

(* The signals of gates are even and grow by 2 from a gate to the next. *)
LEMMA GateSignalFacts ==
  ASSUME NEW vs, Wired(vs), NEW n \in Nat
  PROVE  /\ GateSignal(vs, n) \in Nat /\ GateSignal(vs, n) % 2 = 0
         /\ GateSignal(vs, n + 1) = GateSignal(vs, n) + 2
         /\ GateSignal(vs, n) >= 2 * n
         /\ \A m \in Nat : n =< m => GateSignal(vs, n) =< GateSignal(vs, m)
         /\ \A m \in Nat : n < m => GateSignal(vs, n) + 2 =< GateSignal(vs, m)
<1>1. Len(vs) \in Nat
  BY SourceFacts
<1>2. \A m \in Nat : GateSignal(vs, m) = 2 * (Len(vs) + m)
  BY DEF GateSignal
<1>3. PICK N \in Nat : \A m \in Nat : GateSignal(vs, m) = 2 * (N + m)
  BY <1>1, <1>2
<1>4. (2 * (N + n)) % 2 = 0
  OBVIOUS
<1>5. \A m \in Nat : GateSignal(vs, m) = 2 * N + 2 * m
  BY <1>3
<1>6. GateSignal(vs, n) \in Nat /\ GateSignal(vs, n) % 2 = 0
  BY <1>3, <1>4
<1>7. GateSignal(vs, n + 1) = GateSignal(vs, n) + 2 /\ GateSignal(vs, n) >= 2 * n
  BY <1>5
<1>8. ASSUME NEW m \in Nat
      PROVE  /\ n =< m => GateSignal(vs, n) =< GateSignal(vs, m)
             /\ n < m => GateSignal(vs, n) + 2 =< GateSignal(vs, m)
  BY <1>5
<1> QED BY <1>6, <1>7, <1>8

(***************************************************************************)
(* The negation of a signal, and what it means.                            *)
(***************************************************************************)
LEMMA FlipFacts ==
  ASSUME NEW s \in Nat
  PROVE  /\ Flip(s) \in Nat
         /\ \A T : Holds(T, Flip(s)) <=> ~ Holds(T, s)
         /\ \A k \in Nat : k % 2 = 0 /\ s < k => Flip(s) < k
<1>1. CASE s % 2 = 0
  <2>1. Flip(s) = s + 1 /\ (s + 1) % 2 = 1 /\ (s + 1) - 1 = s
    BY <1>1 DEF Flip
  <2>2. \A T : Holds(T, Flip(s)) <=> s \notin T
    BY <2>1 DEF Holds
  <2>3. \A T : Holds(T, s) <=> s \in T
    BY <1>1 DEF Holds
  <2>4. \A k \in Nat : k % 2 = 0 /\ s < k => s + 1 < k
    BY <1>1
  <2> QED BY <2>1, <2>2, <2>3, <2>4
<1>2. CASE s % 2 # 0
  <2>1. Flip(s) = s - 1 /\ s - 1 \in Nat /\ (s - 1) % 2 = 0
    BY <1>2 DEF Flip
  <2>2. \A T : Holds(T, Flip(s)) <=> s - 1 \in T
    BY <2>1 DEF Holds
  <2>3. \A T : Holds(T, s) <=> s - 1 \notin T
    BY <1>2 DEF Holds
  <2> QED BY <2>1, <2>2, <2>3
<1> QED BY <1>1, <1>2

(***************************************************************************)
(* The recursion that evaluates the gates.                                 *)
(***************************************************************************)
Sides(gates, n, T) == Holds(T, gates[n][1]) /\ Holds(T, gates[n][2])

KnownSteps(vs, gates, x, K) ==
  /\ K[0] = {Signal(vs, b) : b \in x \cap Variables(vs)}
  /\ \A n \in Nat : K[n + 1] = IF Sides(gates, n + 1, K[n])
                               THEN K[n] \cup {GateSignal(vs, n + 1)} ELSE K[n]

(***************************************************************************)
(* Known is defined by recursion on the gates: it exists, and each gate    *)
(* adds its signal or the negation of it.                                  *)
(***************************************************************************)
LEMMA KnownRecursion ==
  ASSUME NEW vs, Wired(vs), NEW gates, NEW x
  PROVE  /\ Known(vs, gates, x) \in [Nat -> SUBSET Nat]
         /\ KnownSteps(vs, gates, x, Known(vs, gates, x))
<1> DEFINE S == SUBSET Nat
           base == {Signal(vs, b) : b \in x \cap Variables(vs)}
           step == [p \in Nat \X S |-> IF Sides(gates, p[1] + 1, p[2])
                                       THEN p[2] \cup {GateSignal(vs, p[1] + 1)} ELSE p[2]]
           Eq(g) == g = [n \in Nat |->
                           IF n = 0 THEN base
                           ELSE LET T == g[n - 1]
                                IN  IF Holds(T, gates[n][1]) /\ Holds(T, gates[n][2])
                                    THEN T \cup {GateSignal(vs, n)} ELSE T]
<1>1. base \in S
  BY SourceFacts
<1>2. step \in [Nat \X S -> S]
  <2>1. \A n \in Nat : GateSignal(vs, n + 1) \in Nat
    BY GateSignalFacts
  <2> QED BY <2>1
<1>3. PICK f \in [Nat -> S] : StepsFrom(f, base, step)
  <2> HIDE DEF S, base, step
  <2> QED BY <1>1, <1>2, PrimitiveRecursion
<1>4. \A n \in Nat : f[n + 1] = IF Sides(gates, n + 1, f[n])
                                THEN f[n] \cup {GateSignal(vs, n + 1)} ELSE f[n]
  <2>1. ASSUME NEW n \in Nat PROVE f[n + 1] = step[<<n, f[n]>>] /\ <<n, f[n]>> \in Nat \X S
    <3> HIDE DEF step, base, S
    <3> QED BY <1>3 DEF StepsFrom
  <2> QED BY <2>1
<1>5. f[0] = base
  BY <1>3 DEF StepsFrom
<1>6. Eq(f)
  <2>1. ASSUME NEW n \in Nat
        PROVE  f[n] = IF n = 0 THEN base
                      ELSE LET T == f[n - 1]
                           IN  IF Holds(T, gates[n][1]) /\ Holds(T, gates[n][2])
                               THEN T \cup {GateSignal(vs, n)} ELSE T
    <3> HIDE DEF base
    <3>1. CASE n = 0
      BY <3>1, <1>5
    <3>2. CASE n # 0
      <4>1. n - 1 \in Nat /\ (n - 1) + 1 = n
        BY <3>2
      <4>2. f[n] = IF Sides(gates, n, f[n - 1])
                   THEN f[n - 1] \cup {GateSignal(vs, n)} ELSE f[n - 1]
        BY <4>1, <1>4
      <4> QED BY <4>2, <3>2 DEF Sides
    <3> QED BY <3>1, <3>2
  <2> HIDE DEF base
  <2> QED BY <2>1
<1>7. Eq(Known(vs, gates, x))
  <2>1. Known(vs, gates, x) = CHOOSE g : Eq(g)
    BY DEF Known
  <2> HIDE DEF Eq
  <2> QED BY <2>1, <1>6
<1> DEFINE K == Known(vs, gates, x)
<1>8. DOMAIN K = Nat /\ K[0] = base
  <2> HIDE DEF base
  <2> QED BY <1>7
<1>9. ASSUME NEW n \in Nat
      PROVE  K[n + 1] = IF Sides(gates, n + 1, K[n])
                        THEN K[n] \cup {GateSignal(vs, n + 1)} ELSE K[n]
  <2>1. n + 1 \in Nat /\ n + 1 # 0 /\ (n + 1) - 1 = n
    OBVIOUS
  <2> HIDE DEF base, K
  <2>2. K = [m \in Nat |->
               IF m = 0 THEN base
               ELSE LET T == K[m - 1]
                    IN  IF Holds(T, gates[m][1]) /\ Holds(T, gates[m][2])
                        THEN T \cup {GateSignal(vs, m)} ELSE T]
    BY <1>7 DEF K
  <2> QED BY <2>1, <2>2 DEF Sides
<1>10. \A n \in Nat : K[n] \in S
  <2> DEFINE U == {n \in Nat : K[n] \in S}
  <2>1. 0 \in U
    BY <1>1, <1>8
  <2>2. ASSUME NEW n \in Nat, n \in U PROVE n + 1 \in U
    <3>1. GateSignal(vs, n + 1) \in Nat
      BY GateSignalFacts
    <3> HIDE DEF K, base
    <3>2. K[n] \in SUBSET Nat
      BY <2>2
    <3>3. K[n + 1] \in SUBSET Nat
      BY <3>1, <3>2, <1>9
    <3> QED BY <3>3
  <2>3. Nat \subseteq U
    <3> HIDE DEF U
    <3> QED BY <2>1, <2>2, Induction
  <2> QED BY <2>3
<1> HIDE DEF K, base, S
<1>11. K \in [Nat -> S]
  <2>1. K = [n \in Nat |-> K[n]]
    BY <1>7, <1>8 DEF K
  <2> QED BY <2>1, <1>10
<1>12. KnownSteps(vs, gates, x, K)
  BY <1>8, <1>9 DEF KnownSteps, base
<1> QED BY <1>11, <1>12 DEF K, S

(***************************************************************************)
(* After n gates only signals up to that of the n-th are true, and later   *)
(* gates do not change them.                                               *)
(***************************************************************************)
LEMMA KnownBelow ==
  ASSUME NEW vs, Wired(vs), NEW gates, NEW x
  PROVE  \A n \in Nat : \A s \in Known(vs, gates, x)[n] :
           s \in Nat /\ 2 =< s /\ s =< GateSignal(vs, n)
<1> DEFINE K == Known(vs, gates, x)
           U == {n \in Nat : \A s \in K[n] : s \in Nat /\ 2 =< s /\ s =< GateSignal(vs, n)}
<1>1. KnownSteps(vs, gates, x, K)
  BY KnownRecursion
<1> HIDE DEF K
<1>2. 0 \in U
  <2>1. GateSignal(vs, 0) = 2 * Len(vs) /\ Len(vs) \in Nat
    <3>1. Len(vs) \in Nat
      BY SourceFacts
    <3> QED BY <3>1 DEF GateSignal
  <2>2. ASSUME NEW s \in K[0] PROVE s \in Nat /\ 2 =< s /\ s =< GateSignal(vs, 0)
    <3>1. PICK b \in Variables(vs) : s = Signal(vs, b)
      BY <1>1 DEF KnownSteps
    <3>2. s \in 2 .. 2 * Len(vs)
      BY <3>1, SourceFacts
    <3> QED BY <3>2, <2>1
  <2> QED BY <2>2
<1>3. ASSUME NEW n \in Nat, n \in U PROVE n + 1 \in U
  <2>1. /\ GateSignal(vs, n) \in Nat /\ GateSignal(vs, n + 1) = GateSignal(vs, n) + 2
    BY GateSignalFacts
  <2>2. ASSUME NEW s \in K[n + 1] PROVE s \in Nat /\ 2 =< s /\ s =< GateSignal(vs, n + 1)
    <3>1. s \in K[n] \/ s = GateSignal(vs, n + 1)
      BY <1>1 DEF KnownSteps
    <3>2. s \in K[n] => s \in Nat /\ 2 =< s /\ s =< GateSignal(vs, n)
      BY <1>3
    <3> QED BY <3>1, <3>2, <2>1
  <2> QED BY <2>2
<1>4. Nat \subseteq U
  <2> HIDE DEF U
  <2> QED BY <1>2, <1>3, Induction
<1> QED BY <1>4 DEF K

(* A later gate does not change what is known of an earlier signal. *)
LEMMA KnownStable ==
  ASSUME NEW vs, Wired(vs), NEW gates, NEW x, NEW n \in Nat, NEW m \in Nat, n =< m,
         NEW s \in Nat, s < GateSignal(vs, n + 1)
  PROVE  s \in Known(vs, gates, x)[m] <=> s \in Known(vs, gates, x)[n]
<1> DEFINE K == Known(vs, gates, x)
           U == {k \in Nat : n =< k => (s \in K[k] <=> s \in K[n])}
<1>1. KnownSteps(vs, gates, x, K)
  BY KnownRecursion
<1> HIDE DEF K
<1>2. 0 \in U
  OBVIOUS
<1>3. ASSUME NEW k \in Nat, k \in U PROVE k + 1 \in U
  <2>1. CASE n =< k
    <3>1. GateSignal(vs, n + 1) =< GateSignal(vs, k + 1) /\ GateSignal(vs, n + 1) \in Nat
          /\ GateSignal(vs, k + 1) \in Nat
      <4>1. n + 1 \in Nat /\ k + 1 \in Nat /\ n + 1 =< k + 1
        BY <2>1
      <4> QED BY <4>1, GateSignalFacts
    <3>2. s # GateSignal(vs, k + 1)
      BY <3>1
    <3>3. s \in K[k + 1] <=> s \in K[k]
      BY <3>2, <1>1 DEF KnownSteps
    <3> QED BY <3>3, <2>1, <1>3
  <2>2. CASE ~ (n =< k)
    BY <2>2
  <2> QED BY <2>1, <2>2
<1>4. m \in U
  <2> HIDE DEF U
  <2> QED BY <1>2, <1>3, Induction
<1> QED BY <1>4 DEF K

(***************************************************************************)
(* What is known after n gates depends on these gates only.                *)
(***************************************************************************)
LEMMA KnownPrefix ==
  ASSUME NEW vs, Wired(vs), NEW gates, NEW more, NEW x, NEW m \in Nat,
         \A n \in 1 .. m : more[n] = gates[n]
  PROVE  Known(vs, more, x)[m] = Known(vs, gates, x)[m]
<1> DEFINE K == Known(vs, gates, x)
           L == Known(vs, more, x)
           U == {n \in Nat : n =< m => L[n] = K[n]}
<1>1. KnownSteps(vs, gates, x, K) /\ KnownSteps(vs, more, x, L)
  BY KnownRecursion
<1> HIDE DEF K, L
<1>2. 0 \in U
  BY <1>1 DEF KnownSteps
<1>3. ASSUME NEW n \in Nat, n \in U PROVE n + 1 \in U
  <2>1. CASE n + 1 =< m
    <3>1. L[n] = K[n] /\ more[n + 1] = gates[n + 1]
      BY <1>3, <2>1
    <3>2. Sides(more, n + 1, L[n]) <=> Sides(gates, n + 1, K[n])
      BY <3>1 DEF Sides
    <3>3. L[n + 1] = K[n + 1]
      BY <3>1, <3>2, <1>1 DEF KnownSteps
    <3> QED BY <3>3
  <2>2. CASE ~ (n + 1 =< m)
    BY <2>2
  <2> QED BY <2>1, <2>2
<1>4. m \in U
  <2> HIDE DEF U
  <2> QED BY <1>2, <1>3, Induction
<1> QED BY <1>4 DEF K, L

(***************************************************************************)
(* The value of a signal.  Constants, variables and gates mean what they   *)
(* should, and new gates change nothing.                                   *)
(***************************************************************************)
Truth(vs, gates, x, s) == Holds(Known(vs, gates, x)[Len(gates)], s)

Free(vs, gates) == GateSignal(vs, Len(gates) + 1)

Prefix(gates, more) == Len(gates) =< Len(more) /\ \A n \in 1 .. Len(gates) : more[n] = gates[n]

(* A signal of a circuit keeps its truth value when gates are appended. *)
LEMMA TruthGrows ==
  ASSUME NEW vs, Wired(vs), NEW gates, NEW more, NEW x, Len(gates) \in Nat, Len(more) \in Nat,
         Prefix(gates, more), NEW s \in Nat, s < Free(vs, gates)
  PROVE  Truth(vs, more, x, s) <=> Truth(vs, gates, x, s)
<1> DEFINE n == Len(gates)
           m == Len(more)
<1>1. Known(vs, more, x)[n] = Known(vs, gates, x)[n]
  <2>1. \A k \in 1 .. n : more[k] = gates[k]
    BY DEF Prefix
  <2> HIDE DEF n
  <2>2. n \in Nat
    BY DEF n
  <2> QED BY <2>1, <2>2, KnownPrefix
<1>2. \A r \in Nat : r < Free(vs, gates) =>
        (r \in Known(vs, more, x)[m] <=> r \in Known(vs, more, x)[n])
  <2>1. n =< m
    BY DEF Prefix
  <2> QED BY <2>1, KnownStable DEF Free
<1>3. CASE s % 2 = 0
  BY <1>1, <1>2, <1>3 DEF Truth, Holds
<1>4. CASE s % 2 # 0
  <2>1. s - 1 \in Nat /\ s - 1 < Free(vs, gates)
    <3>1. Free(vs, gates) \in Nat
      BY GateSignalFacts DEF Free
    <3> QED BY <1>4, <3>1
  <2> QED BY <1>1, <1>2, <1>4, <2>1 DEF Truth, Holds
<1> QED BY <1>3, <1>4

(***************************************************************************)
(* The constants, the negations and the sources have the truth values that *)
(* AIGER gives them.                                                       *)
(***************************************************************************)
LEMMA TruthBasics ==
  ASSUME NEW vs, Wired(vs), NEW gates, Len(gates) \in Nat, NEW x
  PROVE  /\ ~ Truth(vs, gates, x, 0) /\ Truth(vs, gates, x, 1)
         /\ \A s \in Nat : Truth(vs, gates, x, Flip(s)) <=> ~ Truth(vs, gates, x, s)
         /\ \A b \in Variables(vs) : Truth(vs, gates, x, Signal(vs, b)) <=> b \in x
         /\ \A b \in Variables(vs) : Signal(vs, b) < Free(vs, gates)
<1> DEFINE K == Known(vs, gates, x)
<1>1. 0 \notin K[Len(gates)]
  BY KnownBelow
<1>2. ~ Truth(vs, gates, x, 0) /\ Truth(vs, gates, x, 1)
  <2>1. 0 % 2 = 0 /\ 1 % 2 # 0 /\ 1 - 1 = 0
    OBVIOUS
  <2> QED BY <1>1, <2>1 DEF Truth, Holds
<1>3. \A s \in Nat : Truth(vs, gates, x, Flip(s)) <=> ~ Truth(vs, gates, x, s)
  BY FlipFacts DEF Truth
<1>4. ASSUME NEW b \in Variables(vs)
      PROVE  (Truth(vs, gates, x, Signal(vs, b)) <=> b \in x) /\ Signal(vs, b) < Free(vs, gates)
  <2>1. Signal(vs, b) \in 2 .. 2 * Len(vs) /\ Signal(vs, b) % 2 = 0 /\ Len(vs) \in Nat
    BY SourceFacts
  <2>2. GateSignal(vs, 0) = 2 * Len(vs) /\ GateSignal(vs, 0) \in Nat
    BY <2>1 DEF GateSignal
  <2>3. /\ Signal(vs, b) < GateSignal(vs, 0 + 1) /\ GateSignal(vs, 0 + 1) \in Nat
        /\ Signal(vs, b) < Free(vs, gates)
    <3>1. GateSignal(vs, 0 + 1) = GateSignal(vs, 0) + 2
      BY GateSignalFacts
    <3>2. Len(gates) + 1 \in Nat /\ 0 =< Len(gates) + 1
      OBVIOUS
    <3>3. GateSignal(vs, 0) + 2 =< Free(vs, gates) /\ Free(vs, gates) \in Nat
      <4>1. 0 < Len(gates) + 1
        OBVIOUS
      <4> QED BY <4>1, <3>2, GateSignalFacts DEF Free
    <3> QED BY <2>1, <2>2, <3>1, <3>3
  <2>4. Signal(vs, b) \in K[Len(gates)] <=> Signal(vs, b) \in K[0]
    BY <2>1, <2>3, KnownStable
  <2>5. K[0] = {Signal(vs, d) : d \in x \cap Variables(vs)}
    <3>1. KnownSteps(vs, gates, x, K)
      BY KnownRecursion
    <3> QED BY <3>1 DEF KnownSteps
  <2>6. Signal(vs, b) \in K[0] <=> b \in x
    BY <2>5, SourceFacts
  <2> QED BY <2>1, <2>3, <2>4, <2>6 DEF Truth, Holds
<1> QED BY <1>2, <1>3, <1>4

(* A gate is the conjunction of its two inputs. *)
LEMMA TruthOfGate ==
  ASSUME NEW vs, Wired(vs), NEW gates, Len(gates) \in Nat, NEW x, NEW n \in 1 .. Len(gates),
         NEW a \in Nat, NEW b \in Nat, gates[n] = <<a, b>>,
         a < GateSignal(vs, n), b < GateSignal(vs, n)
  PROVE  Truth(vs, gates, x, GateSignal(vs, n))
           <=> Truth(vs, gates, x, a) /\ Truth(vs, gates, x, b)
<1> DEFINE K == Known(vs, gates, x)
           g == GateSignal(vs, n)
<1>1. n - 1 \in Nat /\ (n - 1) + 1 = n /\ n \in Nat
  OBVIOUS
<1>2. /\ g \in Nat /\ g % 2 = 0
      /\ GateSignal(vs, n + 1) = g + 2
      /\ g = GateSignal(vs, n - 1) + 2 /\ GateSignal(vs, n - 1) \in Nat
  <2>1. g \in Nat /\ g % 2 = 0 /\ GateSignal(vs, n + 1) = g + 2
    BY <1>1, GateSignalFacts
  <2>2. GateSignal(vs, (n - 1) + 1) = GateSignal(vs, n - 1) + 2 /\ GateSignal(vs, n - 1) \in Nat
    BY <1>1, GateSignalFacts
  <2> QED BY <2>1, <2>2, <1>1
<1>3. K[n] = IF Sides(gates, n, K[n - 1]) THEN K[n - 1] \cup {g} ELSE K[n - 1]
  <2>1. K[(n - 1) + 1] = IF Sides(gates, (n - 1) + 1, K[n - 1])
                         THEN K[n - 1] \cup {GateSignal(vs, (n - 1) + 1)} ELSE K[n - 1]
    <3>1. KnownSteps(vs, gates, x, K)
      BY KnownRecursion
    <3> HIDE DEF K
    <3> QED BY <3>1, <1>1 DEF KnownSteps
  <2> QED BY <2>1, <1>1
<1>4. g \notin K[n - 1]
  <2>1. \A s \in K[n - 1] : s \in Nat /\ s =< GateSignal(vs, n - 1)
    BY <1>1, KnownBelow
  <2> QED BY <2>1, <1>2
<1>5. g \in K[Len(gates)] <=> g \in K[n]
  <2>1. g < GateSignal(vs, n + 1) /\ n =< Len(gates)
    BY <1>2
  <2> HIDE DEF g, K
  <2>2. g \in Known(vs, gates, x)[Len(gates)] <=> g \in Known(vs, gates, x)[n]
    BY <2>1, <1>1, <1>2, KnownStable
  <2> QED BY <2>2 DEF K
<1>6. ASSUME NEW s \in Nat, s < g
      PROVE  Holds(K[n - 1], s) <=> Holds(K[Len(gates)], s)
  <2>1. \A r \in Nat : r < g => (r \in K[Len(gates)] <=> r \in K[n - 1])
    <3>1. n - 1 =< Len(gates) /\ g = GateSignal(vs, (n - 1) + 1)
      BY <1>1
    <3> HIDE DEF g
    <3> QED BY <3>1, <1>1, KnownStable
  <2>2. CASE s % 2 = 0
    BY <1>6, <2>1, <2>2 DEF Holds
  <2>3. CASE s % 2 # 0
    <3>1. s - 1 \in Nat /\ s - 1 < g
      <4> HIDE DEF g
      <4>1. s # 0
        BY <2>3
      <4> QED BY <4>1, <1>6, <1>2
    <3> QED BY <3>1, <2>1, <2>3 DEF Holds
  <2> QED BY <2>2, <2>3
<1>7. Sides(gates, n, K[n - 1]) <=> Holds(K[n - 1], a) /\ Holds(K[n - 1], b)
  BY DEF Sides
<1>8. Truth(vs, gates, x, g) <=> g \in K[Len(gates)]
  BY <1>2 DEF Truth, Holds
<1> HIDE DEF g, K
<1> QED BY <1>3, <1>4, <1>5, <1>6, <1>7, <1>8 DEF Truth, g, K

(***************************************************************************)
(* add_gate returns a signal of the conjunction, in a circuit that goes on *)
(* from the one it is given and is still well formed.                      *)
(***************************************************************************)
GatesOK(vs, gates) ==
  /\ gates \in Seq(Nat \X Nat)
  /\ \A n \in 1 .. Len(gates) : /\ 1 < gates[n][1] /\ gates[n][1] < gates[n][2]
                                /\ gates[n][2] < GateSignal(vs, n)
                                /\ Flip(gates[n][1]) # gates[n][2]
  /\ \A n, m \in 1 .. Len(gates) : gates[n] = gates[m] => n = m

(***************************************************************************)
(* add_gate, when it makes a gate: the gate goes to the end of the list,   *)
(* and its signal is the conjunction of the two.                           *)
(***************************************************************************)
LEMMA NewGateSound ==
  ASSUME NEW vs, Wired(vs), NEW net \in Nets, GatesOK(vs, net.gates),
         NEW a \in Nat, NEW b \in Nat, 1 < a, a < b, b < Free(vs, net.gates), Flip(a) # b,
         \A n \in 1 .. Len(net.gates) : net.gates[n] # <<a, b>>,
         NEW r, r = NewGate(vs, net, a, b)
  PROVE  /\ r \in [net : Nets, signal : Nat] /\ r.net.cache = net.cache
         /\ GatesOK(vs, r.net.gates) /\ Prefix(net.gates, r.net.gates)
         /\ r.signal < Free(vs, r.net.gates)
         /\ \A x : Truth(vs, r.net.gates, x, r.signal)
                     <=> Truth(vs, net.gates, x, a) /\ Truth(vs, net.gates, x, b)
<1> DEFINE g == net.gates
           h == Append(g, <<a, b>>)
           L == Len(g)
<1>1. g \in Seq(Nat \X Nat) /\ L \in Nat /\ net.cache \in SUBSET ((SUBSET SUBSET Nat) \X Nat)
  BY DEF Nets
<1>2. /\ h \in Seq(Nat \X Nat) /\ Len(h) = L + 1
      /\ \A n \in 1 .. L : h[n] = g[n]
      /\ h[L + 1] = <<a, b>>
  BY <1>1
<1>3. r.net = [gates |-> h, cache |-> net.cache] /\ r.signal = GateSignal(vs, L + 1)
      /\ r = [net |-> r.net, signal |-> r.signal]
  BY DEF NewGate, Nets
<1>4. GateSignal(vs, L + 1) \in Nat /\ Free(vs, g) = GateSignal(vs, L + 1)
      /\ Free(vs, h) = GateSignal(vs, L + 1) + 2
  <2>1. L + 1 \in Nat
    BY <1>1
  <2>2. GateSignal(vs, (L + 1) + 1) = GateSignal(vs, L + 1) + 2 /\ GateSignal(vs, L + 1) \in Nat
    BY <2>1, GateSignalFacts
  <2> HIDE DEF h
  <2> QED BY <2>2, <1>2 DEF Free
<1> HIDE DEF g, h, L
<1>5. r.net.gates = h /\ r.net.cache = net.cache
  BY <1>3
<1>6. r \in [net : Nets, signal : Nat]
  <2>1. r.net \in Nets
    BY <1>1, <1>2, <1>3 DEF Nets
  <2> QED BY <2>1, <1>3, <1>4
<1>7. Prefix(g, h)
  <2>1. L =< Len(h)
    BY <1>1, <1>2
  <2> QED BY <2>1, <1>2 DEF Prefix, L
<1>8. GatesOK(vs, h)
  <2>1. ASSUME NEW n \in 1 .. Len(h)
        PROVE  /\ 1 < h[n][1] /\ h[n][1] < h[n][2]
               /\ h[n][2] < GateSignal(vs, n)
               /\ Flip(h[n][1]) # h[n][2]
    <3>1. CASE n = L + 1
      <4>1. h[n] = <<a, b>>
        BY <3>1, <1>2
      <4>2. b < GateSignal(vs, n)
        BY <3>1, <1>4 DEF g
      <4> QED BY <4>1, <4>2
    <3>2. CASE n # L + 1
      <4>1. n \in 1 .. L
        <5>1. L \in Nat /\ Len(h) = L + 1
          BY <1>1, <1>2
        <5> QED BY <5>1, <3>2
      <4>2. h[n] = g[n]
        BY <4>1, <1>2
      <4> QED BY <4>1, <4>2 DEF GatesOK, g, L
    <3> QED BY <3>1, <3>2
  <2>2. ASSUME NEW n \in 1 .. Len(h), NEW m \in 1 .. Len(h), h[n] = h[m]
        PROVE  n = m
    <3>1. \A k \in 1 .. Len(h) : k \in 1 .. L \/ k = L + 1
      BY <1>1, <1>2
    <3>2. \A k \in 1 .. L : h[k] # <<a, b>>
      BY <1>2 DEF g, L
    <3>3. CASE n = L + 1 \/ m = L + 1
      BY <3>1, <3>2, <3>3, <2>2, <1>2
    <3>4. CASE n \in 1 .. L /\ m \in 1 .. L
      <4>1. g[n] = g[m]
        BY <3>4, <2>2, <1>2
      <4> QED BY <4>1, <3>4 DEF GatesOK, g, L
    <3> QED BY <3>1, <3>3, <3>4
  <2> QED BY <2>1, <2>2, <1>2 DEF GatesOK
<1>9. ASSUME NEW x
      PROVE  Truth(vs, h, x, r.signal) <=> Truth(vs, g, x, a) /\ Truth(vs, g, x, b)
  <2>1. Len(h) \in Nat /\ L + 1 \in 1 .. Len(h) /\ h[L + 1] = <<a, b>>
    BY <1>1, <1>2
  <2>2. a < GateSignal(vs, L + 1) /\ b < GateSignal(vs, L + 1)
    BY <1>4 DEF g
  <2>3. Truth(vs, h, x, GateSignal(vs, L + 1)) <=> Truth(vs, h, x, a) /\ Truth(vs, h, x, b)
    BY <2>1, <2>2, TruthOfGate
  <2>4. /\ Truth(vs, h, x, a) <=> Truth(vs, g, x, a)
        /\ Truth(vs, h, x, b) <=> Truth(vs, g, x, b)
    <3>1. Len(g) \in Nat /\ a < Free(vs, g) /\ b < Free(vs, g)
      BY <1>1, <1>4, <2>2 DEF L
    <3> QED BY <3>1, <2>1, <1>7, TruthGrows
  <2> QED BY <2>3, <2>4, <1>3
<1>10. r.signal < Free(vs, h)
  BY <1>3, <1>4
<1> QED BY <1>5, <1>6, <1>7, <1>8, <1>9, <1>10 DEF g

(* Being a prefix is reflexive and transitive. *)
LEMMA PrefixFacts ==
  ASSUME NEW S, NEW g \in Seq(S)
  PROVE  /\ Prefix(g, g)
         /\ \A h, k : Prefix(g, h) /\ Prefix(h, k) /\ Len(h) \in Nat /\ Len(k) \in Nat => Prefix(g, k)
BY DEF Prefix

AndOf(vs, net, s1, s2, r) ==
  /\ r \in [net : Nets, signal : Nat] /\ r.net.cache = net.cache
  /\ GatesOK(vs, r.net.gates) /\ Prefix(net.gates, r.net.gates)
  /\ r.signal < Free(vs, r.net.gates)
  /\ \A x : Truth(vs, r.net.gates, x, r.signal)
              <=> Truth(vs, net.gates, x, s1) /\ Truth(vs, net.gates, x, s2)

(***************************************************************************)
(* add_gate with its arguments in order: simplified, found among the gates *)
(* or made, the signal returned is the conjunction.                        *)
(***************************************************************************)
LEMMA OrderedAndSound ==
  ASSUME NEW vs, Wired(vs), NEW net \in Nets, GatesOK(vs, net.gates),
         NEW a \in Nat, NEW b \in Nat, a =< b, b < Free(vs, net.gates),
         NEW r, r = OrderedAnd(vs, net, a, b)
  PROVE  AndOf(vs, net, a, b, r)
<1> DEFINE g == net.gates
           same == {n \in DOMAIN g : g[n] = <<a, b>>}
<1>1. a < Free(vs, g)
  <2>1. Free(vs, g) \in Nat
    <3>1. Len(g) + 1 \in Nat
      BY DEF Nets
    <3> HIDE DEF g
    <3> QED BY <3>1, GateSignalFacts DEF Free
  <2> HIDE DEF g
  <2>2. b < Free(vs, g)
    BY DEF g
  <2> QED BY <2>1, <2>2
<1>2. r = IF a = 0 \/ (a # 1 /\ Flip(a) = b) THEN Found(net, 0)
          ELSE IF a = 1 \/ a = b THEN Found(net, b)
          ELSE IF same # {} THEN Found(net, GateSignal(vs, CHOOSE n \in same : TRUE))
          ELSE NewGate(vs, net, a, b)
  BY DEF OrderedAnd
<1>3. g \in Seq(Nat \X Nat) /\ Len(g) \in Nat /\ DOMAIN g = 1 .. Len(g)
  BY DEF Nets
<1>4. Free(vs, g) \in Nat /\ 1 < Free(vs, g)
  <2>1. Len(g) + 1 \in Nat
    BY <1>3
  <2>2. GateSignal(vs, Len(g) + 1) \in Nat /\ GateSignal(vs, Len(g) + 1) >= 2 * (Len(g) + 1)
    BY <2>1, GateSignalFacts
  <2> HIDE DEF g
  <2> QED BY <2>2, <1>3 DEF Free
<1>5. \A x : /\ ~ Truth(vs, g, x, 0) /\ Truth(vs, g, x, 1)
             /\ Truth(vs, g, x, Flip(a)) <=> ~ Truth(vs, g, x, a)
  BY <1>1, <1>3, TruthBasics
<1>6. Prefix(g, g)
  BY <1>3, PrefixFacts
<1>7. ASSUME NEW s \in Nat, s < Free(vs, g), r = Found(net, s),
             \A x : Truth(vs, g, x, s) <=> Truth(vs, g, x, a) /\ Truth(vs, g, x, b)
      PROVE  AndOf(vs, net, a, b, r)
  <2>1. r.net = net /\ r.signal = s /\ r = [net |-> net, signal |-> s]
    BY <1>7 DEF Found
  <2>2. r \in [net : Nets, signal : Nat]
    BY <2>1
  <2> QED BY <2>1, <2>2, <1>1, <1>6, <1>7 DEF AndOf
<1>8. CASE a = 0 \/ (a # 1 /\ Flip(a) = b)
  <2>1. \A x : ~ (Truth(vs, g, x, a) /\ Truth(vs, g, x, b))
    BY <1>5, <1>8
  <2>2. r = Found(net, 0)
    BY <1>2, <1>8
  <2> QED BY <2>1, <2>2, <1>4, <1>5, <1>7
<1>9. CASE ~ (a = 0 \/ (a # 1 /\ Flip(a) = b)) /\ (a = 1 \/ a = b)
  <2>1. \A x : Truth(vs, g, x, b) <=> Truth(vs, g, x, a) /\ Truth(vs, g, x, b)
    BY <1>5, <1>9
  <2>2. r = Found(net, b)
    BY <1>2, <1>9
  <2> QED BY <2>1, <2>2, <1>1, <1>7
<1>10. CASE ~ (a = 0 \/ (a # 1 /\ Flip(a) = b)) /\ ~ (a = 1 \/ a = b) /\ same # {}
  <2>1. PICK n \in same : n = CHOOSE k \in same : TRUE
    BY <1>10
  <2>2. n \in 1 .. Len(g) /\ g[n] = <<a, b>>
    BY <2>1, <1>3
  <2>3. r = Found(net, GateSignal(vs, n))
    BY <1>2, <1>10, <2>1
  <2>4. b < GateSignal(vs, n) /\ a < GateSignal(vs, n) /\ GateSignal(vs, n) \in Nat
    <3>1. g[n][2] < GateSignal(vs, n) /\ g[n][1] < g[n][2]
      BY <2>2 DEF GatesOK
    <3>2. GateSignal(vs, n) \in Nat
      BY <2>2, GateSignalFacts
    <3> QED BY <3>1, <3>2, <2>2, <1>1
  <2>5. GateSignal(vs, n) < Free(vs, g)
    <3>1. n \in Nat /\ Len(g) + 1 \in Nat /\ n < Len(g) + 1
      BY <2>2, <1>3
    <3>2. GateSignal(vs, n) + 2 =< GateSignal(vs, Len(g) + 1)
      BY <3>1, GateSignalFacts
    <3> HIDE DEF g
    <3> QED BY <3>2, <2>4, <1>4 DEF Free
  <2>6. \A x : Truth(vs, g, x, GateSignal(vs, n)) <=> Truth(vs, g, x, a) /\ Truth(vs, g, x, b)
    BY <1>1, <1>3, <2>2, <2>4, TruthOfGate
  <2> QED BY <2>3, <2>4, <2>5, <2>6, <1>7
<1>11. CASE ~ (a = 0 \/ (a # 1 /\ Flip(a) = b)) /\ ~ (a = 1 \/ a = b) /\ same = {}
  <2>1. r = NewGate(vs, net, a, b)
    BY <1>2, <1>11
  <2>2. \A n \in 1 .. Len(g) : g[n] # <<a, b>>
    BY <1>3, <1>11
  <2>3. 1 < a /\ a < b /\ Flip(a) # b
    BY <1>1, <1>11
  <2> HIDE DEF g
  <2> QED BY <2>1, <2>2, <2>3, <1>1, NewGateSound DEF AndOf, g
<1> QED BY <1>8, <1>9, <1>10, <1>11

(* add_gate swaps its arguments into order first. *)
LEMMA AndSound ==
  ASSUME NEW vs, Wired(vs), NEW net \in Nets, GatesOK(vs, net.gates),
         NEW s1 \in Nat, NEW s2 \in Nat, s1 < Free(vs, net.gates), s2 < Free(vs, net.gates),
         NEW r, r = And(vs, net, s1, s2)
  PROVE  AndOf(vs, net, s1, s2, r)
<1>1. CASE s1 < s2
  <2>1. r = OrderedAnd(vs, net, s1, s2)
    BY <1>1 DEF And
  <2> QED BY <2>1, <1>1, OrderedAndSound
<1>2. CASE ~ (s1 < s2)
  <2>1. r = OrderedAnd(vs, net, s2, s1) /\ s2 =< s1
    BY <1>2 DEF And
  <2>2. AndOf(vs, net, s2, s1, r)
    BY <2>1, OrderedAndSound
  <2> QED BY <2>2 DEF AndOf
<1> QED BY <1>1, <1>2

(***************************************************************************)
(* BDDs.  The cofactors of f, and the variables that f depends on.         *)
(***************************************************************************)
Deps(V, f) == {b \in V : DependsOn(f, b)}

(***************************************************************************)
(* The cofactors of f with respect to b: f with b fixed to false, and to   *)
(* true.                                                                   *)
(***************************************************************************)
LEMMA CofactorFacts ==
  ASSUME NEW V, NEW f \in SUBSET SUBSET V, NEW b \in V
  PROVE  /\ Low(f, b) \in SUBSET SUBSET V /\ High(f, b) \in SUBSET SUBSET V
         /\ \A y \in SUBSET V : /\ y \in Low(f, b) <=> y \ {b} \in f
                                /\ y \in High(f, b) <=> y \cup {b} \in f
<1>1. \A y : y \in High(f, b) <=> \E x \in f : b \in x /\ (y = x \/ y = x \ {b})
  BY DEF High
<1>2. \A y : y \in Low(f, b) <=> \E x \in f : b \notin x /\ (y = x \/ y = x \cup {b})
  BY DEF Low
<1>3. ASSUME NEW y \in SUBSET V PROVE y \in Low(f, b) <=> y \ {b} \in f
  <2>1. ASSUME NEW x \in f, b \notin x, y = x \/ y = x \cup {b} PROVE y \ {b} = x
    BY <2>1
  <2>2. b \notin y \ {b} /\ (y = y \ {b} \/ y = (y \ {b}) \cup {b})
    OBVIOUS
  <2>3. ASSUME y \in Low(f, b) PROVE y \ {b} \in f
    <3>1. PICK x \in f : b \notin x /\ (y = x \/ y = x \cup {b})
      BY <2>3, <1>2
    <3>2. y \ {b} = x
      BY <3>1, <2>1
    <3> QED BY <3>2
  <2>4. y \ {b} \in f => y \in Low(f, b)
    BY <2>2, <1>2
  <2> QED BY <2>3, <2>4
<1>4. ASSUME NEW y \in SUBSET V PROVE y \in High(f, b) <=> y \cup {b} \in f
  <2>1. ASSUME NEW x \in f, b \in x, y = x \/ y = x \ {b} PROVE y \cup {b} = x
    BY <2>1
  <2>2. b \in y \cup {b} /\ (y = y \cup {b} \/ y = (y \cup {b}) \ {b})
    OBVIOUS
  <2>3. ASSUME y \in High(f, b) PROVE y \cup {b} \in f
    <3>1. PICK x \in f : b \in x /\ (y = x \/ y = x \ {b})
      BY <2>3, <1>1
    <3>2. y \cup {b} = x
      BY <3>1, <2>1
    <3> QED BY <3>2
  <2>4. y \cup {b} \in f => y \in High(f, b)
    BY <2>2, <1>1
  <2> QED BY <2>3, <2>4
<1> QED BY <1>1, <1>2, <1>3, <1>4

(* f depends on b when some valuation shows it. *)
LEMMA DependsFacts ==
  ASSUME NEW V, NEW f \in SUBSET SUBSET V, NEW b \in V
  PROVE  DependsOn(f, b) <=> \E y \in SUBSET V : ~ (y \ {b} \in f <=> y \cup {b} \in f)
<1>1. ASSUME NEW x \in f, (IF b \in x THEN x \ {b} ELSE x \cup {b}) \notin f
      PROVE  \E y \in SUBSET V : ~ (y \ {b} \in f <=> y \cup {b} \in f)
  <2>1. x \in SUBSET V /\ (b \in x => x \cup {b} = x) /\ (b \notin x => x \ {b} = x)
    OBVIOUS
  <2> QED BY <1>1, <2>1
<1>2. ASSUME NEW y \in SUBSET V, ~ (y \ {b} \in f <=> y \cup {b} \in f)
      PROVE  \E x \in f : (IF b \in x THEN x \ {b} ELSE x \cup {b}) \notin f
  <2>1. /\ (y \ {b}) \cup {b} = y \cup {b} /\ (y \cup {b}) \ {b} = y \ {b}
        /\ b \in y \cup {b} /\ b \notin y \ {b}
    OBVIOUS
  <2>2. CASE y \ {b} \in f /\ y \cup {b} \notin f
    <3> DEFINE z == y \ {b}
    <3>1. z \in f /\ b \notin z /\ z \cup {b} \notin f
      BY <2>1, <2>2
    <3> HIDE DEF z
    <3> QED BY <3>1
  <2>3. CASE y \ {b} \notin f /\ y \cup {b} \in f
    <3> DEFINE z == y \cup {b}
    <3>1. z \in f /\ b \in z /\ z \ {b} \notin f
      BY <2>1, <2>3
    <3> HIDE DEF z
    <3> QED BY <3>1
  <2> QED BY <1>2, <2>2, <2>3
<1> QED BY <1>1, <1>2 DEF DependsOn

(* A cofactor depends on no more than f, and no longer on b. *)
LEMMA CofactorDeps ==
  ASSUME NEW V, NEW f \in SUBSET SUBSET V, NEW b \in V
  PROVE  /\ Deps(V, Low(f, b)) \subseteq Deps(V, f) \ {b}
         /\ Deps(V, High(f, b)) \subseteq Deps(V, f) \ {b}
<1> DEFINE g == Low(f, b)
           h == High(f, b)
<1>1. /\ g \in SUBSET SUBSET V /\ h \in SUBSET SUBSET V
      /\ \A y \in SUBSET V : (y \in g <=> y \ {b} \in f) /\ (y \in h <=> y \cup {b} \in f)
  BY CofactorFacts
<1> HIDE DEF g, h
<1>2. ASSUME NEW d \in V, DependsOn(g, d) PROVE d # b /\ DependsOn(f, d)
  <2>1. PICK y \in SUBSET V : ~ (y \ {d} \in g <=> y \cup {d} \in g)
    BY <1>1, <1>2, DependsFacts
  <2>2. y \ {d} \in SUBSET V /\ y \cup {d} \in SUBSET V
    OBVIOUS
  <2>3. ~ ((y \ {d}) \ {b} \in f <=> (y \cup {d}) \ {b} \in f)
    BY <2>1, <2>2, <1>1
  <2>4. d # b
    <3>1. (y \ {b}) \ {b} = (y \cup {b}) \ {b}
      OBVIOUS
    <3> QED BY <2>3, <3>1
  <2> DEFINE z == y \ {b}
  <2>5. z \in SUBSET V /\ z \ {d} = (y \ {d}) \ {b} /\ z \cup {d} = (y \cup {d}) \ {b}
    BY <2>4
  <2> HIDE DEF z
  <2>6. \E w \in SUBSET V : ~ (w \ {d} \in f <=> w \cup {d} \in f)
    BY <2>3, <2>5
  <2>7. DependsOn(f, d)
    BY <2>6, DependsFacts
  <2> QED BY <2>4, <2>7
<1>3. ASSUME NEW d \in V, DependsOn(h, d) PROVE d # b /\ DependsOn(f, d)
  <2>1. PICK y \in SUBSET V : ~ (y \ {d} \in h <=> y \cup {d} \in h)
    BY <1>1, <1>3, DependsFacts
  <2>2. y \ {d} \in SUBSET V /\ y \cup {d} \in SUBSET V
    OBVIOUS
  <2>3. ~ ((y \ {d}) \cup {b} \in f <=> (y \cup {d}) \cup {b} \in f)
    BY <2>1, <2>2, <1>1
  <2>4. d # b
    <3>1. (y \ {b}) \cup {b} = (y \cup {b}) \cup {b}
      OBVIOUS
    <3> QED BY <2>3, <3>1
  <2> DEFINE z == y \cup {b}
  <2>5. z \in SUBSET V /\ z \ {d} = (y \ {d}) \cup {b} /\ z \cup {d} = (y \cup {d}) \cup {b}
    BY <2>4
  <2> HIDE DEF z
  <2>6. \E w \in SUBSET V : ~ (w \ {d} \in f <=> w \cup {d} \in f)
    BY <2>3, <2>5
  <2>7. DependsOn(f, d)
    BY <2>6, DependsFacts
  <2> QED BY <2>4, <2>7
<1> QED BY <1>2, <1>3 DEF Deps, g, h

(***************************************************************************)
(* A BDD over finitely many variables that depends on none is a constant:  *)
(* one valuation leads to every other by changing a variable at a time.    *)
(***************************************************************************)
LEMMA Constant ==
  ASSUME NEW V, IsFiniteSet(V), NEW f \in SUBSET SUBSET V, Deps(V, f) = {}
  PROVE  f = {} \/ f = SUBSET V
<1> DEFINE Apart(x, y) == (x \ y) \cup (y \ x)
           U == {n \in Nat : \A x \in f, y \in SUBSET V : Cardinality(Apart(x, y)) = n => y \in f}
<1>1. \A x, y \in SUBSET V : IsFiniteSet(Apart(x, y)) /\ Cardinality(Apart(x, y)) \in Nat
  <2>1. ASSUME NEW x \in SUBSET V, NEW y \in SUBSET V
        PROVE  IsFiniteSet(Apart(x, y))
    <3>1. Apart(x, y) \subseteq V
      OBVIOUS
    <3> HIDE DEF Apart
    <3> QED BY <3>1, FS_Subset
  <2> HIDE DEF Apart
  <2> QED BY <2>1, FS_CardinalityType
<1>2. 0 \in U
  <2>1. ASSUME NEW x \in f, NEW y \in SUBSET V, Cardinality(Apart(x, y)) = 0 PROVE y \in f
    <3>1. Apart(x, y) = {}
      <4>1. IsFiniteSet(Apart(x, y))
        BY <1>1
      <4> HIDE DEF Apart
      <4> QED BY <4>1, <2>1, FS_EmptySet
    <3>2. x = y
      BY <3>1
    <3> QED BY <3>2
  <2> QED BY <2>1
<1>3. ASSUME NEW n \in Nat, n \in U PROVE n + 1 \in U
  <2>1. ASSUME NEW x \in f, NEW y \in SUBSET V, Cardinality(Apart(x, y)) = n + 1 PROVE y \in f
    <3>1. IsFiniteSet(Apart(x, y)) /\ Apart(x, y) # {}
      <4>1. IsFiniteSet(Apart(x, y))
        BY <1>1
      <4>2. n + 1 # 0
        OBVIOUS
      <4> HIDE DEF Apart
      <4> QED BY <4>1, <4>2, <2>1, FS_EmptySet
    <3>2. PICK b : b \in Apart(x, y)
      BY <3>1
    <3>3. b \in V
      BY <3>2
    <3> DEFINE z == IF b \in x THEN x \ {b} ELSE x \cup {b}
    <3>4. z \in f
      BY <3>3 DEF Deps, DependsOn
    <3>5. Apart(z, y) = Apart(x, y) \ {b}
      BY <3>2
    <3>6. Cardinality(Apart(z, y)) = n
      <4> HIDE DEF Apart, z
      <4>1. Cardinality(Apart(x, y) \ {b}) = Cardinality(Apart(x, y)) - 1
        BY <3>1, <3>2, FS_RemoveElement
      <4> QED BY <4>1, <3>5, <2>1
    <3> HIDE DEF z, Apart
    <3> QED BY <3>4, <3>6, <1>3
  <2> HIDE DEF Apart
  <2> QED BY <2>1
<1>4. Nat \subseteq U
  <2> HIDE DEF U
  <2> QED BY <1>2, <1>3, Induction
<1>5. ASSUME NEW x \in f, NEW y \in SUBSET V PROVE y \in f
  <2> HIDE DEF Apart
  <2>1. Cardinality(Apart(x, y)) \in U
    BY <1>1, <1>4
  <2> QED BY <2>1
<1> QED BY <1>5

(***************************************************************************)
(* So BDDs that are no constants have a root.                              *)
(***************************************************************************)
LEMMA RootFacts ==
  ASSUME NEW V \in SUBSET Nat, IsFiniteSet(V), NEW f \in SUBSET SUBSET V, f # {}, f # SUBSET V
  PROVE  Root(V, f) \in Deps(V, f)
<1>1. Deps(V, f) # {}
  BY Constant
<1>2. Deps(V, f) \in SUBSET Nat
  BY DEF Deps
<1>3. PICK b \in Deps(V, f) : \A d \in Deps(V, f) : b =< d
  BY <1>1, <1>2, LeastNatural
<1>4. b \in V /\ DependsOn(f, b) /\ \A d \in V : d < b => ~ DependsOn(f, d)
  BY <1>2, <1>3 DEF Deps
<1> QED BY <1>4 DEF Root, Deps

(***************************************************************************)
(* The recursion of bdd2aig exists: its calls of depth d use those of      *)
(* depth d - 1 only.                                                       *)
(***************************************************************************)
SignalOf(E) == CHOOSE s \in E : TRUE

Call(vs, d, below, net, f) ==
  IF f = {} THEN Found(net, 0)
  ELSE IF f = SUBSET Variables(vs) \/ d = 0 THEN Found(net, 1)
  ELSE IF Cached(net, f) # {} THEN Found(net, SignalOf(Cached(net, f)))
  ELSE IF Cached(net, Not(Variables(vs), f)) # {}
       THEN Found(net, Flip(SignalOf(Cached(net, Not(Variables(vs), f)))))
  ELSE NewNode(vs, below, net, f)

Level(vs, d, below) ==
  [call \in Nets \X SUBSET SUBSET Variables(vs) |-> Call(vs, d, below, call[1], call[2])]

(***************************************************************************)
(* Build is defined by recursion on the number of variables left: it       *)
(* exists and each level calls the one below.                              *)
(***************************************************************************)
LEMMA BuildRecursion ==
  ASSUME NEW vs
  PROVE  \A n \in Nat : Build(vs)[n] = Level(vs, n, Build(vs)[n - 1])
<1> DEFINE Eq(g) == g = [n \in Nat |-> Level(vs, n, g[n - 1])]
           Fits(m, g) == DOMAIN g = 0 .. m /\ \A n \in 0 .. m : g[n] = Level(vs, n, g[n - 1])
           T == {m \in Nat : \E g : Fits(m, g)}
           F == [m \in Nat |-> CHOOSE g : Fits(m, g)]
<1>1. ASSUME NEW h, NEW k PROVE Level(vs, 0, h) = Level(vs, 0, k)
  BY DEF Level, Call
<1>2. \A m \in Nat : \E g : Fits(m, g)
  <2>1. 0 \in T
    <3> DEFINE g == [n \in 0 .. 0 |-> Level(vs, 0, vs)]
    <3>1. DOMAIN g = 0 .. 0 /\ g[0] = Level(vs, 0, vs)
      OBVIOUS
    <3> HIDE DEF g
    <3>2. \A n \in 0 .. 0 : g[n] = Level(vs, n, g[n - 1])
      <4>1. g[0] = Level(vs, 0, g[0 - 1])
        BY <3>1, <1>1
      <4>2. \A n \in 0 .. 0 : n = 0
        OBVIOUS
      <4> QED BY <4>1, <4>2
    <3>3. Fits(0, g)
      BY <3>1, <3>2
    <3> QED BY <3>3
  <2>2. ASSUME NEW m \in Nat, m \in T PROVE m + 1 \in T
    <3>1. PICK g : Fits(m, g)
      BY <2>2
    <3> DEFINE h == [n \in 0 .. m + 1 |-> IF n = m + 1 THEN Level(vs, m + 1, g[m]) ELSE g[n]]
    <3>2. DOMAIN h = 0 .. m + 1 /\ h[m + 1] = Level(vs, m + 1, g[m])
          /\ \A n \in 0 .. m : h[n] = g[n]
      OBVIOUS
    <3> HIDE DEF h
    <3>3. ASSUME NEW n \in 0 .. m + 1 PROVE h[n] = Level(vs, n, h[n - 1])
      <4>1. CASE n = 0
        <5>1. h[0] = g[0] /\ g[0] = Level(vs, 0, g[0 - 1])
          <6>1. 0 \in 0 .. m
            OBVIOUS
          <6> QED BY <6>1, <3>1, <3>2
        <5>2. Level(vs, 0, g[0 - 1]) = Level(vs, 0, h[0 - 1])
          BY <1>1
        <5> QED BY <4>1, <5>1, <5>2
      <4>2. CASE n = m + 1
        <5>1. m \in 0 .. m /\ (m + 1) - 1 = m
          OBVIOUS
        <5>2. h[m] = g[m]
          BY <5>1, <3>2
        <5> QED BY <4>2, <5>1, <5>2, <3>2
      <4>3. CASE n # 0 /\ n # m + 1
        <5>1. n \in 0 .. m /\ n - 1 \in 0 .. m
          BY <4>3
        <5>2. h[n] = g[n] /\ h[n - 1] = g[n - 1] /\ g[n] = Level(vs, n, g[n - 1])
          BY <5>1, <3>1, <3>2
        <5> QED BY <5>2
      <4> QED BY <4>1, <4>2, <4>3
    <3>4. Fits(m + 1, h)
      BY <3>2, <3>3
    <3> HIDE DEF Fits
    <3> QED BY <3>4
  <2> HIDE DEF T
  <2>3. Nat \subseteq T
    BY <2>1, <2>2, Induction
  <2> QED BY <2>3 DEF T
<1>3. \A m \in Nat : Fits(m, F[m])
  <2> HIDE DEF Fits
  <2> QED BY <1>2
<1> HIDE DEF F
<1> DEFINE U == {n \in Nat : \A a, b \in Nat : n =< a /\ n =< b => F[a][n] = F[b][n]}
<1>4. 0 \in U
  <2>1. ASSUME NEW a \in Nat, NEW b \in Nat PROVE F[a][0] = F[b][0]
    <3>1. 0 \in 0 .. a /\ 0 \in 0 .. b
      OBVIOUS
    <3>2. F[a][0] = Level(vs, 0, F[a][0 - 1]) /\ F[b][0] = Level(vs, 0, F[b][0 - 1])
      BY <3>1, <1>3
    <3>3. Level(vs, 0, F[a][0 - 1]) = Level(vs, 0, F[b][0 - 1])
      BY <1>1
    <3> QED BY <3>2, <3>3
  <2> QED BY <2>1
<1>5. ASSUME NEW n \in Nat, n \in U PROVE n + 1 \in U
  <2>1. ASSUME NEW a \in Nat, NEW b \in Nat, n + 1 =< a, n + 1 =< b
        PROVE  F[a][n + 1] = F[b][n + 1]
    <3>1. n + 1 \in 0 .. a /\ n + 1 \in 0 .. b /\ (n + 1) - 1 = n /\ n =< a /\ n =< b
      BY <2>1
    <3>2. F[a][n] = F[b][n]
      BY <3>1, <1>5
    <3>3. F[a][n + 1] = Level(vs, n + 1, F[a][n]) /\ F[b][n + 1] = Level(vs, n + 1, F[b][n])
      BY <3>1, <1>3
    <3> QED BY <3>2, <3>3
  <2> QED BY <2>1
<1>6. \A n, a, b \in Nat : n =< a /\ n =< b => F[a][n] = F[b][n]
  <2>1. Nat \subseteq U
    <3> HIDE DEF U
    <3> QED BY <1>4, <1>5, Induction
  <2> QED BY <2>1
<1> DEFINE f == [n \in Nat |-> F[n][n]]
<1>7. ASSUME NEW n \in Nat PROVE f[n] = Level(vs, n, f[n - 1])
  <2>1. n \in 0 .. n
    OBVIOUS
  <2>2. f[n] = Level(vs, n, F[n][n - 1])
    BY <2>1, <1>3
  <2>3. CASE n = 0
    <3>1. Level(vs, 0, F[0][0 - 1]) = Level(vs, 0, f[0 - 1])
      BY <1>1
    <3> HIDE DEF f
    <3> QED BY <2>2, <2>3, <3>1
  <2>4. CASE n # 0
    <3>1. n - 1 \in Nat /\ n - 1 =< n /\ n - 1 =< n - 1
      BY <2>4
    <3>2. f[n - 1] = F[n][n - 1]
      BY <3>1, <1>6
    <3> HIDE DEF f
    <3> QED BY <2>2, <3>2
  <2> QED BY <2>3, <2>4
<1>8. Eq(f)
  <2>1. f = [n \in Nat |-> f[n]]
    OBVIOUS
  <2> HIDE DEF f
  <2> QED BY <2>1, <1>7
<1>9. Eq(Build(vs))
  <2>1. Build(vs) = CHOOSE g : Eq(g)
    BY DEF Build, Level, Call, SignalOf
  <2> HIDE DEF Eq, f
  <2> QED BY <2>1, <1>8
<1>10. ASSUME NEW n \in Nat PROVE Build(vs)[n] = Level(vs, n, Build(vs)[n - 1])
  <2> DEFINE B == Build(vs)
  <2>1. B = [k \in Nat |-> Level(vs, k, B[k - 1])]
    BY <1>9
  <2> HIDE DEF B
  <2>2. B[n] = Level(vs, n, B[n - 1])
    BY <2>1
  <2> QED BY <2>2 DEF B
<1> QED BY <1>10

(***************************************************************************)
(* bdd2aig is sound: the signal it returns is true on the valuations of    *)
(* the BDD, and so is what it leaves in the cache.                         *)
(***************************************************************************)
Computes(vs, gates, s, f) ==
  s \in Nat /\ s < Free(vs, gates) /\ \A x \in SUBSET Variables(vs) : Truth(vs, gates, x, s) <=> x \in f

NetOK(vs, net) ==
  /\ net \in Nets /\ GatesOK(vs, net.gates)
  /\ \A e \in net.cache : e[1] \in SUBSET SUBSET Variables(vs) => Computes(vs, net.gates, e[2], e[1])

Built(vs, net, f, r) ==
  /\ r \in [net : Nets, signal : Nat] /\ NetOK(vs, r.net) /\ Prefix(net.gates, r.net.gates)
  /\ Computes(vs, r.net.gates, r.signal, f)

(***************************************************************************)
(* What a list of gates computes, it computes after more gates were        *)
(* appended.                                                               *)
(***************************************************************************)
LEMMA PrefixGrows ==
  ASSUME NEW vs, Wired(vs), NEW g \in Seq(Nat \X Nat), NEW h \in Seq(Nat \X Nat), Prefix(g, h)
  PROVE  /\ Free(vs, g) \in Nat /\ Free(vs, h) \in Nat /\ Free(vs, g) =< Free(vs, h)
         /\ \A s \in Nat : s < Free(vs, g) =>
              s < Free(vs, h) /\ \A x : Truth(vs, h, x, s) <=> Truth(vs, g, x, s)
         /\ \A s, f : Computes(vs, g, s, f) => Computes(vs, h, s, f)
<1>1. Len(g) \in Nat /\ Len(h) \in Nat /\ Len(g) =< Len(h)
  BY DEF Prefix
<1>2. Free(vs, g) \in Nat /\ Free(vs, h) \in Nat /\ Free(vs, g) =< Free(vs, h)
  <2>1. Len(g) + 1 \in Nat /\ Len(h) + 1 \in Nat /\ Len(g) + 1 =< Len(h) + 1
    BY <1>1
  <2> QED BY <2>1, GateSignalFacts DEF Free
<1>3. ASSUME NEW s \in Nat, s < Free(vs, g)
      PROVE  s < Free(vs, h) /\ \A x : Truth(vs, h, x, s) <=> Truth(vs, g, x, s)
  <2>1. s < Free(vs, h)
    BY <1>2, <1>3
  <2> QED BY <2>1, <1>1, <1>3, TruthGrows
<1> QED BY <1>2, <1>3 DEF Computes

(* The cache stays right when gates are appended. *)
LEMMA NetGrows ==
  ASSUME NEW vs, Wired(vs), NEW net, NetOK(vs, net), NEW more \in Nets, GatesOK(vs, more.gates),
         Prefix(net.gates, more.gates), more.cache = net.cache
  PROVE  NetOK(vs, more)
<1>1. net.gates \in Seq(Nat \X Nat) /\ more.gates \in Seq(Nat \X Nat)
  BY DEF NetOK, Nets
<1>2. ASSUME NEW e \in more.cache, e[1] \in SUBSET SUBSET Variables(vs)
      PROVE  Computes(vs, more.gates, e[2], e[1])
  <2>1. Computes(vs, net.gates, e[2], e[1])
    BY <1>2 DEF NetOK
  <2> QED BY <2>1, <1>1, PrefixGrows
<1> QED BY <1>2 DEF NetOK

(* Prefixes of three nets in a row. *)
LEMMA PrefixTransitive ==
  ASSUME NEW vs, NEW a, NEW b, NEW d, NetOK(vs, a), NetOK(vs, b), NetOK(vs, d),
         Prefix(a.gates, b.gates), Prefix(b.gates, d.gates)
  PROVE  Prefix(a.gates, d.gates)
<1> DEFINE g == a.gates
           h == b.gates
           k == d.gates
<1>1. Len(g) \in Nat /\ Len(h) \in Nat /\ Len(k) \in Nat
  BY DEF NetOK, Nets
<1> HIDE DEF g, h, k
<1>2. Prefix(g, h) /\ Prefix(h, k)
  BY DEF g, h, k
<1>3. Prefix(g, k)
  BY <1>1, <1>2 DEF Prefix
<1> QED BY <1>3 DEF g, k

(* A gate on top of what has been built. *)
LEMMA AndBuilt ==
  ASSUME NEW vs, Wired(vs), NEW net, NetOK(vs, net),
         NEW s1, NEW s2, NEW f1, NEW f2, Computes(vs, net.gates, s1, f1), Computes(vs, net.gates, s2, f2),
         NEW r, r = And(vs, net, s1, s2)
  PROVE  Built(vs, net, f1 \cap f2, r)
<1>1. /\ s1 \in Nat /\ s2 \in Nat /\ s1 < Free(vs, net.gates) /\ s2 < Free(vs, net.gates)
      /\ net \in Nets /\ GatesOK(vs, net.gates)
  BY DEF Computes, NetOK
<1>2. AndOf(vs, net, s1, s2, r)
  BY <1>1, AndSound
<1>3. NetOK(vs, r.net)
  <2>1. r.net \in Nets /\ GatesOK(vs, r.net.gates) /\ Prefix(net.gates, r.net.gates)
        /\ r.net.cache = net.cache
    BY <1>2 DEF AndOf
  <2> QED BY <2>1, NetGrows
<1>4. Computes(vs, r.net.gates, r.signal, f1 \cap f2)
  BY <1>2 DEF AndOf, Computes
<1> QED BY <1>2, <1>3, <1>4 DEF Built, AndOf

(* Negations, variables and constants. *)
OneVariable(V, b) == {x \in SUBSET V : b \in x}

(***************************************************************************)
(* The constants, negations and variables compute the BDDs that bdd2aig    *)
(* maps to them.                                                           *)
(***************************************************************************)
LEMMA ComputesBasics ==
  ASSUME NEW vs, Wired(vs), NEW net, NetOK(vs, net)
  PROVE  /\ Computes(vs, net.gates, 0, {}) /\ Computes(vs, net.gates, 1, SUBSET Variables(vs))
         /\ \A s : \A f \in SUBSET SUBSET Variables(vs) :
              Computes(vs, net.gates, s, f) => Computes(vs, net.gates, Flip(s), Not(Variables(vs), f))
         /\ \A b \in Variables(vs) :
              Computes(vs, net.gates, Signal(vs, b), OneVariable(Variables(vs), b))
<1> DEFINE g == net.gates
<1>1. g \in Seq(Nat \X Nat) /\ Len(g) \in Nat
  BY DEF NetOK, Nets
<1> HIDE DEF g
<1>2. Free(vs, g) \in Nat /\ 1 < Free(vs, g) /\ Free(vs, g) % 2 = 0
  <2>1. Len(g) + 1 \in Nat
    BY <1>1
  <2>2. /\ GateSignal(vs, Len(g) + 1) \in Nat /\ GateSignal(vs, Len(g) + 1) >= 2 * (Len(g) + 1)
        /\ GateSignal(vs, Len(g) + 1) % 2 = 0
    BY <2>1, GateSignalFacts
  <2> QED BY <2>2, <1>1 DEF Free
<1>3. Computes(vs, g, 0, {}) /\ Computes(vs, g, 1, SUBSET Variables(vs))
  BY <1>1, <1>2, TruthBasics DEF Computes
<1>4. ASSUME NEW s, NEW f \in SUBSET SUBSET Variables(vs), Computes(vs, g, s, f)
      PROVE  Computes(vs, g, Flip(s), Not(Variables(vs), f))
  <2>1. s \in Nat /\ s < Free(vs, g) /\ \A x \in SUBSET Variables(vs) : Truth(vs, g, x, s) <=> x \in f
    BY <1>4 DEF Computes
  <2>2. Flip(s) \in Nat /\ Flip(s) < Free(vs, g)
    BY <2>1, <1>2, FlipFacts
  <2>3. \A x : Truth(vs, g, x, Flip(s)) <=> ~ Truth(vs, g, x, s)
    BY <2>1, <1>1, TruthBasics
  <2> QED BY <2>1, <2>2, <2>3 DEF Computes, Not
<1>5. ASSUME NEW b \in Variables(vs)
      PROVE  Computes(vs, g, Signal(vs, b), OneVariable(Variables(vs), b))
  <2>1. Signal(vs, b) \in Nat
    BY SourceFacts
  <2> QED BY <2>1, <1>1, TruthBasics DEF Computes, OneVariable
<1> QED BY <1>3, <1>4, <1>5 DEF g

(***************************************************************************)
(* One call of bdd2aig for a BDD that is not a constant, when the calls    *)
(* for its two cofactors are right.                                        *)
(***************************************************************************)
LEMMA NodeSound ==
  ASSUME NEW vs, Wired(vs), NEW net, NetOK(vs, net), NEW f \in SUBSET SUBSET Variables(vs),
         f # {}, f # SUBSET Variables(vs), NEW below,
         \A m, h : NetOK(vs, m) /\ h \in {Low(f, Root(Variables(vs), f)), High(f, Root(Variables(vs), f))}
                     => Built(vs, m, h, below[<<m, h>>])
  PROVE  Built(vs, net, f, NewNode(vs, below, net, f))
<1> DEFINE V == Variables(vs)
           b      == Root(V, f)
           var    == OneVariable(V, b)
           low    == below[<<net, Low(f, b)>>]
           low_g  == And(vs, low.net, low.signal, Flip(Signal(vs, b)))
           high   == below[<<low_g.net, High(f, b)>>]
           high_g == And(vs, high.net, high.signal, Signal(vs, b))
           nor    == And(vs, high_g.net, Flip(low_g.signal), Flip(high_g.signal))
           output == Flip(nor.signal)
           r == Found([gates |-> nor.net.gates, cache |-> nor.net.cache \cup {<<f, output>>}],
                      output)
<1>1. NewNode(vs, below, net, f) = r
  BY DEF NewNode
<1>2. b \in V /\ V \in SUBSET Nat
  <2>1. V \in SUBSET Nat /\ IsFiniteSet(V)
    BY SourceFacts
  <2> HIDE DEF V
  <2>2. f \in SUBSET SUBSET V /\ f # {} /\ f # SUBSET V
    BY DEF V
  <2> QED BY <2>1, <2>2, RootFacts DEF Deps
<1>3. /\ Low(f, b) \in SUBSET SUBSET V /\ High(f, b) \in SUBSET SUBSET V
      /\ \A y \in SUBSET V : (y \in Low(f, b) <=> y \ {b} \in f) /\ (y \in High(f, b) <=> y \cup {b} \in f)
  <2> HIDE DEF b
  <2> QED BY <1>2, CofactorFacts
<1> DEFINE l == Low(f, b)
           h == High(f, b)
<1> HIDE DEF r, output, nor, high_g, high, low_g, low, var
<1>4. Built(vs, net, l, low)
  BY DEF low
<1> HIDE DEF b
<1>5. \A m : NetOK(vs, m) => Computes(vs, m.gates, Signal(vs, b), var)
                            /\ Computes(vs, m.gates, Flip(Signal(vs, b)), Not(V, var))
  <2>1. var \in SUBSET SUBSET V
    BY DEF var, OneVariable
  <2>2. ASSUME NEW m, NetOK(vs, m) PROVE Computes(vs, m.gates, Signal(vs, b), var)
    BY <1>2, <2>2, ComputesBasics DEF var
  <2> QED BY <2>1, <2>2, ComputesBasics
<1> HIDE DEF V, l, h
<1>6. Built(vs, low.net, l \cap Not(V, var), low_g)
  <2>1. NetOK(vs, low.net) /\ Computes(vs, low.net.gates, low.signal, l)
    BY <1>4 DEF Built
  <2> QED BY <2>1, <1>5, AndBuilt DEF low_g
<1>7. Built(vs, low_g.net, h, high)
  <2>1. NetOK(vs, low_g.net)
    BY <1>6 DEF Built
  <2> QED BY <2>1 DEF high, h, b, V
<1>8. Built(vs, high.net, h \cap var, high_g)
  <2>1. NetOK(vs, high.net) /\ Computes(vs, high.net.gates, high.signal, h)
    BY <1>7 DEF Built
  <2> QED BY <2>1, <1>5, AndBuilt DEF high_g
<1>9. /\ Computes(vs, high_g.net.gates, Flip(low_g.signal), Not(V, l \cap Not(V, var)))
      /\ Computes(vs, high_g.net.gates, Flip(high_g.signal), Not(V, h \cap var))
  <2>1. /\ l \cap Not(V, var) \in SUBSET SUBSET V /\ h \cap var \in SUBSET SUBSET V
    BY <1>3 DEF l, h
  <2>2. NetOK(vs, low_g.net) /\ NetOK(vs, high.net) /\ NetOK(vs, high_g.net)
    BY <1>6, <1>7, <1>8 DEF Built
  <2>3. Prefix(low_g.net.gates, high_g.net.gates)
    <3>1. Prefix(low_g.net.gates, high.net.gates) /\ Prefix(high.net.gates, high_g.net.gates)
      BY <1>7, <1>8 DEF Built
    <3> QED BY <2>2, <3>1, PrefixTransitive
  <2>4. Computes(vs, high_g.net.gates, low_g.signal, l \cap Not(V, var))
    <3>1. Computes(vs, low_g.net.gates, low_g.signal, l \cap Not(V, var))
      BY <1>6 DEF Built
    <3>2. low_g.net.gates \in Seq(Nat \X Nat) /\ high_g.net.gates \in Seq(Nat \X Nat)
      BY <2>2 DEF NetOK, Nets
    <3> QED BY <2>3, <3>1, <3>2, PrefixGrows
  <2>5. Computes(vs, high_g.net.gates, high_g.signal, h \cap var)
    BY <1>8 DEF Built
  <2> QED BY <2>1, <2>2, <2>4, <2>5, ComputesBasics DEF V
<1> DEFINE both == Not(V, l \cap Not(V, var)) \cap Not(V, h \cap var)
<1>10. Built(vs, high_g.net, both, nor)
  <2>1. NetOK(vs, high_g.net)
    BY <1>8 DEF Built
  <2> HIDE DEF both
  <2> QED BY <2>1, <1>9, AndBuilt DEF nor, both
<1>11. Not(V, both) = f
  <2>1. ASSUME NEW x \in SUBSET V PROVE x \notin both <=> x \in f
    <3>1. CASE b \in x
      <4>1. x \cup {b} = x
        BY <3>1
      <4>2. x \in var /\ x \notin Not(V, var) /\ (x \in h <=> x \in f)
        BY <4>1, <3>1, <1>3 DEF var, OneVariable, Not, h
      <4> QED BY <4>2 DEF Not
    <3>2. CASE b \notin x
      <4>1. x \ {b} = x
        BY <3>2
      <4>2. x \notin var /\ x \in Not(V, var) /\ (x \in l <=> x \in f)
        BY <4>1, <3>2, <1>3 DEF var, OneVariable, Not, l
      <4> QED BY <4>2 DEF Not
    <3> QED BY <3>1, <3>2
  <2>2. f \in SUBSET SUBSET V
    BY DEF V
  <2> QED BY <2>1, <2>2 DEF Not
<1>12. Computes(vs, nor.net.gates, output, f)
  <2>1. both \in SUBSET SUBSET V
    BY DEF Not
  <2>2. NetOK(vs, nor.net) /\ Computes(vs, nor.net.gates, nor.signal, both)
    BY <1>10 DEF Built
  <2>3. Computes(vs, nor.net.gates, Flip(nor.signal), Not(V, both))
    <3> HIDE DEF both
    <3> QED BY <2>1, <2>2, ComputesBasics DEF V
  <2> QED BY <2>3, <1>11 DEF output
<1>13. Prefix(net.gates, nor.net.gates)
  <2>1. /\ NetOK(vs, low.net) /\ NetOK(vs, low_g.net) /\ NetOK(vs, high.net)
        /\ NetOK(vs, high_g.net) /\ NetOK(vs, nor.net)
    BY <1>4, <1>6, <1>7, <1>8, <1>10 DEF Built
  <2>2. /\ Prefix(net.gates, low.net.gates) /\ Prefix(low.net.gates, low_g.net.gates)
        /\ Prefix(low_g.net.gates, high.net.gates) /\ Prefix(high.net.gates, high_g.net.gates)
        /\ Prefix(high_g.net.gates, nor.net.gates)
    BY <1>4, <1>6, <1>7, <1>8, <1>10 DEF Built
  <2>3. Prefix(net.gates, low_g.net.gates)
    BY <2>1, <2>2, PrefixTransitive
  <2>4. Prefix(net.gates, high.net.gates)
    BY <2>1, <2>2, <2>3, PrefixTransitive
  <2>5. Prefix(net.gates, high_g.net.gates)
    BY <2>1, <2>2, <2>4, PrefixTransitive
  <2> QED BY <2>1, <2>2, <2>5, PrefixTransitive
<1> DEFINE after == [gates |-> nor.net.gates, cache |-> nor.net.cache \cup {<<f, output>>}]
<1>14. NetOK(vs, nor.net) /\ nor.net \in Nets
  BY <1>10 DEF Built, NetOK
<1>15. after \in Nets /\ after.gates = nor.net.gates /\ after.cache = nor.net.cache \cup {<<f, output>>}
  <2>1. output \in Nat
    BY <1>12 DEF Computes
  <2>2. f \in SUBSET SUBSET Nat
    BY <1>2 DEF V
  <2>3. nor.net.cache \cup {<<f, output>>} \in SUBSET ((SUBSET SUBSET Nat) \X Nat)
    <3>1. nor.net.cache \in SUBSET ((SUBSET SUBSET Nat) \X Nat)
      BY <1>14 DEF Nets
    <3>2. <<f, output>> \in (SUBSET SUBSET Nat) \X Nat
      BY <2>1, <2>2
    <3> QED BY <3>1, <3>2
  <2>4. after = [gates |-> nor.net.gates, cache |-> nor.net.cache \cup {<<f, output>>}]
    OBVIOUS
  <2> QED BY <2>3, <2>4, <1>14 DEF Nets
<1> HIDE DEF after
<1>16. NetOK(vs, after)
  <2>1. ASSUME NEW e \in after.cache, e[1] \in SUBSET SUBSET Variables(vs)
        PROVE  Computes(vs, after.gates, e[2], e[1])
    <3>1. CASE e \in nor.net.cache
      BY <3>1, <1>14, <1>15, <2>1 DEF NetOK
    <3>2. CASE e = <<f, output>>
      BY <3>2, <1>12, <1>15
    <3> QED BY <3>1, <3>2, <2>1, <1>15
  <2>2. GatesOK(vs, after.gates)
    BY <1>14, <1>15 DEF NetOK
  <2> QED BY <2>1, <2>2, <1>15 DEF NetOK
<1>17. r = [net |-> after, signal |-> output]
  BY DEF r, Found, after
<1>18. Built(vs, net, f, r)
  BY <1>12, <1>13, <1>15, <1>16, <1>17 DEF Built, Computes
<1> QED BY <1>1, <1>18

(***************************************************************************)
(* The cofactors at a variable that f depends on depend on one variable    *)
(* less.                                                                   *)
(***************************************************************************)
LEMMA FewerDeps ==
  ASSUME NEW V, IsFiniteSet(V), NEW f \in SUBSET SUBSET V, NEW b \in Deps(V, f), NEW d \in Nat,
         Cardinality(Deps(V, f)) =< d
  PROVE  /\ d # 0 /\ Cardinality(Deps(V, Low(f, b))) =< d - 1
         /\ Cardinality(Deps(V, High(f, b))) =< d - 1
<1>1. IsFiniteSet(Deps(V, f))
  <2>1. Deps(V, f) \subseteq V
    BY DEF Deps
  <2> QED BY <2>1, FS_Subset
<1>2. /\ IsFiniteSet(Deps(V, f) \ {b}) /\ Cardinality(Deps(V, f) \ {b}) = Cardinality(Deps(V, f)) - 1
      /\ Cardinality(Deps(V, f)) \in Nat
  BY <1>1, FS_RemoveElement, FS_CardinalityType
<1>3. Cardinality(Deps(V, f) \ {b}) \in Nat
  BY <1>2, FS_CardinalityType
<1>4. b \in V
  BY DEF Deps
<1>5. ASSUME NEW g, Deps(V, g) \subseteq Deps(V, f) \ {b} PROVE Cardinality(Deps(V, g)) =< d - 1
  <2>1. Cardinality(Deps(V, g)) \in Nat /\ Cardinality(Deps(V, g)) =< Cardinality(Deps(V, f) \ {b})
    BY <1>2, <1>5, FS_Subset, FS_CardinalityType
  <2> QED BY <2>1, <1>2, <1>3
<1>6. d # 0
  BY <1>2, <1>3
<1> QED BY <1>4, <1>5, <1>6, CofactorDeps

(***************************************************************************)
(* What bdd2aig finds in its cache computes the BDD asked for, or its      *)
(* negation when the negated BDD was found.                                *)
(***************************************************************************)
LEMMA CachedSound ==
  ASSUME NEW vs, NEW net, NetOK(vs, net), NEW f \in SUBSET SUBSET Variables(vs), Cached(net, f) # {}
  PROVE  Computes(vs, net.gates, SignalOf(Cached(net, f)), f)
<1>1. SignalOf(Cached(net, f)) \in Cached(net, f)
  BY DEF SignalOf
<1>2. PICK e \in net.cache : e[1] = f /\ SignalOf(Cached(net, f)) = e[2]
  BY <1>1 DEF Cached
<1> QED BY <1>2 DEF NetOK

BuildsUpTo(vs, d, below) ==
  \A net, f : /\ NetOK(vs, net) /\ f \in SUBSET SUBSET Variables(vs)
              /\ Cardinality(Deps(Variables(vs), f)) =< d
              => Built(vs, net, f, below[<<net, f>>])

(***************************************************************************)
(* bdd2aig is right for BDDs that depend on at most d variables when it is *)
(* right for d - 1.                                                        *)
(***************************************************************************)
LEMMA LevelSound ==
  ASSUME NEW vs, Wired(vs), NEW d \in Nat, NEW below, d # 0 => BuildsUpTo(vs, d - 1, below)
  PROVE  BuildsUpTo(vs, d, Level(vs, d, below))
<1> DEFINE V == Variables(vs)
<1> SUFFICES ASSUME NEW net, NEW f, NetOK(vs, net), f \in SUBSET SUBSET V,
                    Cardinality(Deps(V, f)) =< d
             PROVE  Built(vs, net, f, Level(vs, d, below)[<<net, f>>])
  BY DEF BuildsUpTo
<1>1. V \in SUBSET Nat /\ IsFiniteSet(V)
  BY SourceFacts
<1> DEFINE r == Level(vs, d, below)[<<net, f>>]
<1>2. net \in Nets /\ net.gates \in Seq(Nat \X Nat)
  BY DEF NetOK, Nets
<1>3. r = IF f = {} THEN Found(net, 0)
          ELSE IF f = SUBSET V \/ d = 0 THEN Found(net, 1)
          ELSE IF Cached(net, f) # {} THEN Found(net, SignalOf(Cached(net, f)))
          ELSE IF Cached(net, Not(V, f)) # {}
               THEN Found(net, Flip(SignalOf(Cached(net, Not(V, f)))))
          ELSE NewNode(vs, below, net, f)
  <2>1. r = Call(vs, d, below, net, f)
    <3>1. <<net, f>> \in Nets \X SUBSET SUBSET Variables(vs)
      BY <1>2
    <3> QED BY <3>1 DEF Level
  <2> HIDE DEF r
  <2> QED BY <2>1 DEF Call
<1> HIDE DEF r, V
<1>4. ASSUME NEW s, Computes(vs, net.gates, s, f), r = Found(net, s)
      PROVE  Built(vs, net, f, r)
  <2>1. r = [net |-> net, signal |-> s]
    BY <1>4 DEF Found
  <2>2. Prefix(net.gates, net.gates)
    BY <1>2, PrefixFacts
  <2>3. r.net = net /\ r.signal = s /\ s \in Nat
    BY <2>1, <1>4 DEF Computes
  <2> QED BY <2>1, <2>2, <2>3, <1>2, <1>4 DEF Built
<1>5. ASSUME f = {}
      PROVE  Built(vs, net, f, r)
  BY <1>3, <1>4, <1>5, ComputesBasics
<1>6. ASSUME f # {} /\ (f = SUBSET V \/ d = 0)
      PROVE  Built(vs, net, f, r)
  <2>1. f = SUBSET V
    <3>1. SUFFICES ASSUME d = 0 PROVE f = SUBSET V
      BY <1>6
    <3>2. IsFiniteSet(Deps(V, f))
      <4>1. Deps(V, f) \subseteq V
        BY DEF Deps
      <4> QED BY <4>1, <1>1, FS_Subset
    <3>3. Cardinality(Deps(V, f)) = 0
      <4>1. Cardinality(Deps(V, f)) \in Nat
        BY <3>2, FS_CardinalityType
      <4> QED BY <4>1, <3>1
    <3>4. Deps(V, f) = {}
      BY <3>2, <3>3, FS_EmptySet
    <3> QED BY <3>4, <1>1, <1>6, Constant
  <2>2. Computes(vs, net.gates, 1, f)
    BY <2>1, ComputesBasics DEF V
  <2> QED BY <2>2, <1>3, <1>4, <1>6
<1>7. ASSUME f # {} /\ ~ (f = SUBSET V \/ d = 0)
      PROVE  Built(vs, net, f, r)
  <2>1. CASE Cached(net, f) # {}
    <3>1. Computes(vs, net.gates, SignalOf(Cached(net, f)), f)
      BY <2>1, CachedSound DEF V
    <3> QED BY <3>1, <2>1, <1>3, <1>4, <1>7
  <2>2. CASE Cached(net, f) = {} /\ Cached(net, Not(V, f)) # {}
    <3> DEFINE s == SignalOf(Cached(net, Not(V, f)))
    <3>1. Not(V, f) \in SUBSET SUBSET V /\ Not(V, Not(V, f)) = f
      BY DEF Not
    <3>2. Computes(vs, net.gates, s, Not(V, f))
      BY <3>1, <2>2, CachedSound DEF V
    <3> HIDE DEF s
    <3>3. Computes(vs, net.gates, Flip(s), Not(V, Not(V, f)))
      BY <3>1, <3>2, ComputesBasics DEF V
    <3>4. r = Found(net, Flip(s))
      BY <2>2, <1>3, <1>7 DEF s
    <3> QED BY <3>1, <3>3, <3>4, <1>4
  <2>3. CASE Cached(net, f) = {} /\ Cached(net, Not(V, f)) = {}
    <3>1. r = NewNode(vs, below, net, f)
      BY <2>3, <1>3, <1>7
    <3> DEFINE b == Root(V, f)
    <3>2. b \in Deps(V, f) /\ b \in V
      BY <1>1, <1>7, RootFacts DEF Deps
    <3> HIDE DEF b
    <3>3. ASSUME NEW m, NEW h, NetOK(vs, m), h \in {Low(f, b), High(f, b)}
          PROVE  Built(vs, m, h, below[<<m, h>>])
      <4>0. f \in SUBSET SUBSET V
        BY DEF V
      <4>1. h \in SUBSET SUBSET V
        BY <4>0, <3>2, <3>3, CofactorFacts
      <4>2. Cardinality(Deps(V, h)) =< d - 1
        BY <4>0, <3>2, <3>3, <1>1, FewerDeps DEF V
      <4> QED BY <4>1, <4>2, <3>3, <1>7 DEF BuildsUpTo, V
    <3>4. Built(vs, net, f, NewNode(vs, below, net, f))
      <4>1. f \in SUBSET SUBSET Variables(vs) /\ f # SUBSET Variables(vs) /\ f # {}
        BY <1>7 DEF V
      <4>2. \A m, h : NetOK(vs, m) /\ h \in {Low(f, Root(Variables(vs), f)), High(f, Root(Variables(vs), f))}
                        => Built(vs, m, h, below[<<m, h>>])
        BY <3>3 DEF b, V
      <4> QED BY <4>1, <4>2, NodeSound
    <3> QED BY <3>1, <3>4
  <2> QED BY <2>1, <2>2, <2>3
<1>8. Built(vs, net, f, r)
  BY <1>5, <1>6, <1>7
<1> QED BY <1>8 DEF r

(* bdd2aig is right for BDDs of any number of variables. *)
LEMMA BuildSound ==
  ASSUME NEW vs, Wired(vs)
  PROVE  \A d \in Nat : BuildsUpTo(vs, d, Build(vs)[d])
<1> DEFINE U == {d \in Nat : BuildsUpTo(vs, d, Build(vs)[d])}
<1>1. 0 \in U
  BY BuildRecursion, LevelSound
<1>2. ASSUME NEW d \in Nat, d \in U PROVE d + 1 \in U
  <2>1. d + 1 \in Nat /\ (d + 1) - 1 = d
    OBVIOUS
  <2>2. Build(vs)[d + 1] = Level(vs, d + 1, Build(vs)[d])
    BY <2>1, BuildRecursion
  <2> QED BY <2>1, <2>2, <1>2, LevelSound
<1> HIDE DEF U
<1>3. Nat \subseteq U
  BY <1>1, <1>2, Induction
<1> QED BY <1>3 DEF U

(***************************************************************************)
(* The call of bdd2aig that add_output and add_latch make: from a net that *)
(* is right, it returns one that extends it and is right, and a signal     *)
(* that is true for exactly the valuations of the BDD.                     *)
(***************************************************************************)
THEOREM Bdd2AigSound ==
  ASSUME NEW c, Wired(c.sources), NetOK(c.sources, c.net), NEW f \in SUBSET SUBSET Variables(c.sources)
  PROVE  Built(c.sources, c.net, f, Bdd2Aig(c, f))
<1> DEFINE vs == c.sources
           V == Variables(vs)
<1>1. IsFiniteSet(V)
  BY SourceFacts
<1>2. Deps(V, f) \subseteq V
  BY DEF Deps
<1> HIDE DEF V
<1>3. Cardinality(V) \in Nat /\ Cardinality(Deps(V, f)) =< Cardinality(V)
  BY <1>1, <1>2, FS_Subset, FS_CardinalityType
<1>4. BuildsUpTo(vs, Cardinality(V), Build(vs)[Cardinality(V)])
  BY <1>3, BuildSound
<1>5. f \in SUBSET SUBSET V
  BY DEF V
<1> QED BY <1>3, <1>4, <1>5 DEF BuildsUpTo, Bdd2Aig, V


(***************************************************************************)
(* The actioner of synthesis caps counters at Kfrom: solve has not raised  *)
(* K if the two are to be the same game.                                   *)
(***************************************************************************)
NoRaise == \A s \in Solved : s.K = Kfrom

Ids == 0 .. Len(states) - 1

Here(n, i, o) == Forward(aut, states[n + 1], i, o, Kfrom)

Pending(n, l) == (\E k \in 1 .. Len(todo) : todo[k] = n) \/ (n = src /\ l \in rest)

Answered(n, l) ==
  \/ \E t \in trans : t.src = n /\ t.in = l[1] /\ (mode = "winregion" => t.out = l[2])
  \/ mode = "winregion" /\ \E t \in bad : t.src = n /\ t.in = l[1] /\ t.out = l[2]

GameInv ==
  /\ game \in Solved /\ mode \in game.modes
  /\ pc \in {"explore", "outputs", "latches", "play", "aborted"}

StatesInv ==
  /\ states \in Seq(game.region) /\ states # << >>
  /\ todo \in Seq(Ids) /\ src \in Ids /\ rest \subseteq aut.allowed

TransInv ==
  /\ trans \subseteq [src : Ids, in : Inputs, out : Outputs, dst : Ids]
  /\ \A t \in trans : /\ <<t.in, t.out>> \in aut.allowed
                      /\ mode = "synthesis" => Leq(Here(t.src, t.in, t.out), states[t.dst + 1])
                      /\ mode = "winregion" => Here(t.src, t.in, t.out) = states[t.dst + 1]

BadInv ==
  /\ bad \subseteq [src : Ids, in : Inputs, out : Outputs, succ : Vectors]
  /\ \A t \in bad : /\ <<t.in, t.out>> \in aut.allowed
                    /\ t.succ = Here(t.src, t.in, t.out) /\ t.succ \notin game.region
  /\ mode = "synthesis" => bad = {}

CoveredInv ==
  /\ \A n \in Ids, l \in aut.allowed : Pending(n, l) \/ Answered(n, l)
  /\ pc # "explore" => rest = {} /\ todo = << >>

ExplorationInv == GameInv /\ StatesInv /\ TransInv /\ BadInv /\ CoveredInv

(***************************************************************************)
(* What a solved game is.                                                  *)
(***************************************************************************)
LEMMA GameFacts ==
  ASSUME NEW g \in Solved
  PROVE  /\ g.modes \subseteq {"synthesis", "winregion"}
         /\ g.aut \in Automata /\ IsAutomaton(g.aut)
         /\ Kfrom \in 1 .. TopK /\ g.K \in 1 .. TopK
         /\ g.region \subseteq Safe(g.K) /\ g.region \subseteq Vectors
         /\ g.aut.init \in g.region
         /\ g.aut.allowed \subseteq Inputs \X Outputs
         /\ Controlled(g.aut, g.region, g.K)
         /\ NoRaise => g.K = Kfrom
<1>1. g.modes \subseteq {"synthesis", "winregion"} /\ g.aut \in Automata /\ g.K \in Kfrom .. Kto
  BY SynthesisAssumption
<1>2. g.aut.init \in g.region /\ g.region \subseteq Safe(g.K) /\ Controlled(g.aut, g.region, g.K)
  BY SynthesisAssumption
<1>3. NoRaise => g.K = Kfrom
  BY DEF NoRaise
<1>4. IsAutomaton(g.aut)
  BY <1>1, GameAssumption
<1>5. g.aut.allowed \subseteq Inputs \X Outputs
  BY <1>4 DEF IsAutomaton
<1>6. Kfrom \in 1 .. TopK /\ g.K \in 1 .. TopK
  BY <1>1, SynthesisAssumption, GameAssumption
<1>7. Safe(g.K) \subseteq Vectors
  BY DEF Safe, Down
<1> QED BY <1>1, <1>2, <1>3, <1>4, <1>5, <1>6, <1>7

(***************************************************************************)
(* A new element at the end of a sequence changes nothing before it.       *)
(***************************************************************************)
LEMMA AppendFacts ==
  ASSUME NEW S, NEW s \in Seq(S), NEW x \in S
  PROVE  /\ Append(s, x) \in Seq(S) /\ Append(s, x) # << >>
         /\ Len(Append(s, x)) = Len(s) + 1
         /\ \A n \in 1 .. Len(s) : Append(s, x)[n] = s[n]
         /\ Append(s, x)[Len(s) + 1] = x
OBVIOUS

(***************************************************************************)
(* The sequence of one element.                                            *)
(***************************************************************************)
LEMMA OneElement ==
  ASSUME NEW S, NEW w \in S
  PROVE  <<w>> \in Seq(S)
OBVIOUS

(***************************************************************************)
(* A sequence over a set is one over any larger set.                       *)
(***************************************************************************)
LEMMA SeqInLarger ==
  ASSUME NEW S, NEW T, S \subseteq T, NEW s \in Seq(S)
  PROVE  s \in Seq(T)
<1>1. \A k \in 1 .. Len(s) : s[k] \in T
  OBVIOUS
<1>2. s = [k \in 1 .. Len(s) |-> s[k]] /\ Len(s) \in Nat
  OBVIOUS
<1> QED BY <1>1, <1>2

(***************************************************************************)
(* The last element and those in front of it.                              *)
(***************************************************************************)
LEMMA FrontFacts ==
  ASSUME NEW S, NEW s \in Seq(S), s # << >>
  PROVE  /\ Front(s) \in Seq(S) /\ Last(s) \in S
         /\ Len(Front(s)) = Len(s) - 1
         /\ \A n \in 1 .. Len(s) - 1 : Front(s)[n] = s[n]
         /\ Last(s) = s[Len(s)]
<1>1. Len(s) \in Nat \ {0} /\ s[Len(s)] \in S
  OBVIOUS
<1>2. SubSeq(s, 1, Len(s) - 1) \in Seq(S)
  BY <1>1
<1>3. Len(SubSeq(s, 1, Len(s) - 1)) = Len(s) - 1
  <2>1. 1 \in Int /\ Len(s) - 1 \in Int /\ \A i \in 1 .. Len(s) - 1 : s[i] \in S
    BY <1>1
  <2>2. Len(SubSeq(s, 1, Len(s) - 1))
          = IF 1 =< Len(s) - 1 THEN (Len(s) - 1) - 1 + 1 ELSE 0
    BY <2>1, SubSeqProperties
  <2> DEFINE k == Len(s)
             sub == Len(SubSeq(s, 1, Len(s) - 1))
  <2>3. k \in Nat \ {0} /\ sub = IF 1 =< k - 1 THEN (k - 1) - 1 + 1 ELSE 0
    BY <2>2, <1>1
  <2> HIDE DEF k, sub
  <2>4. sub = k - 1
    BY <2>3
  <2> QED BY <2>4 DEF k, sub
<1>4. \A n \in 1 .. Len(s) - 1 : SubSeq(s, 1, Len(s) - 1)[n] = s[n]
  BY <1>1
<1> QED BY <1>1, <1>2, <1>3, <1>4 DEF Front, Last

(***************************************************************************)
(* The elements of a region that are stored dominate every element of it   *)
(* they are asked for, and belong to it.                                   *)
(***************************************************************************)
LEMMA DominatingFacts ==
  ASSUME NEW w, NEW m \in Dominating(w)
  PROVE  m \in game.region /\ Leq(w, m)
BY DEF Dominating, Maximal

(***************************************************************************)
(* The first of the states that dominate a vector is one of them.          *)
(***************************************************************************)
LEMMA MinOfIds ==
  ASSUME NEW n \in Nat, NEW S \in SUBSET (0 .. n), S # {}
  PROVE  Min(S) \in S
<1>1. S \in SUBSET Int /\ \A x \in S : 0 =< x
  OBVIOUS
<1>2. 0 \in Int /\ S # {}
  OBVIOUS
<1> HIDE DEF Min
<1> QED BY ONLY <1>1, <1>2, MinOfBounded

(***************************************************************************)
(* The exploration starts with an element that dominates the initial       *)
(* vector, or with that vector.                                            *)
(***************************************************************************)
LEMMA ExplorationInit ==
  ASSUME Init
  PROVE  ExplorationInv
<1>1. game \in Solved /\ mode \in game.modes /\ pc = "explore"
  BY DEF Init
<1>2. aut.init \in game.region
  BY <1>1, GameFacts DEF aut
<1>3. PICK w \in game.region : states = <<w>>
  <2>1. PICK w \in IF mode = "synthesis" THEN Dominating(aut.init) ELSE {aut.init} : states = <<w>>
    BY DEF Init
  <2>2. w \in game.region
    BY <2>1, <1>2, DominatingFacts
  <2> QED BY <2>1, <2>2
<1>4. todo = <<0>> /\ src = 0 /\ rest = {} /\ trans = {} /\ bad = {}
  BY DEF Init
<1>5. states \in Seq(game.region) /\ states # << >> /\ Ids = {0}
  <2>1. <<w>> \in Seq(game.region)
    BY OneElement
  <2>2. Len(<<w>>) = 1
    OBVIOUS
  <2>3. states # << >>
    BY <2>1, <2>2, <1>3
  <2>4. 0 .. Len(states) - 1 = {0}
    BY <2>2, <1>3
  <2> QED BY <2>1, <2>3, <2>4, <1>3 DEF Ids
<1>6. GameInv
  BY <1>1 DEF GameInv
<1>7. StatesInv
  BY <1>4, <1>5 DEF StatesInv
<1>8. TransInv /\ BadInv
  BY <1>4 DEF TransInv, BadInv
<1>9. CoveredInv
  <2>1. \A n \in Ids, l \in aut.allowed : Pending(n, l)
    BY <1>4, <1>5 DEF Pending
  <2> QED BY <1>1, <2>1 DEF CoveredInv
<1> QED BY <1>6, <1>7, <1>8, <1>9 DEF ExplorationInv

(***************************************************************************)
(* The next state to be looked at has all its letters still to come.       *)
(***************************************************************************)
LEMMA PopExploration ==
  ASSUME ExplorationInv, Pop
  PROVE  ExplorationInv'
<1>1. pc = "explore" /\ rest = {} /\ todo # << >> /\ src' = Last(todo) /\ todo' = Front(todo)
  BY DEF Pop
<1>2. rest' = aut.allowed
  BY DEF Pop
<1>3. UNCHANGED <<game, mode, pc, states, trans, bad>>
  BY DEF Pop
<1>4. Ids' = Ids /\ aut' = aut
  BY <1>3 DEF Ids, aut
<1>5. GameInv'
  BY <1>3 DEF ExplorationInv, GameInv
<1>6. /\ todo \in Seq(Ids) /\ todo' \in Seq(Ids) /\ src' \in Ids /\ src' = todo[Len(todo)]
      /\ Len(todo') = Len(todo) - 1 /\ \A k \in 1 .. Len(todo) - 1 : todo'[k] = todo[k]
  BY <1>1, FrontFacts DEF ExplorationInv, StatesInv
<1>7. StatesInv'
  BY <1>2, <1>3, <1>4, <1>6 DEF ExplorationInv, StatesInv
<1>8. TransInv' /\ BadInv'
  BY <1>3, <1>4 DEF ExplorationInv, TransInv, BadInv, Here
<1>9. CoveredInv'
  <2>1. ASSUME NEW n \in Ids, NEW l \in aut.allowed
        PROVE  Pending(n, l)' \/ Answered(n, l)'
    <3>1. Pending(n, l) \/ Answered(n, l)
      BY DEF ExplorationInv, CoveredInv
    <3>2. CASE Answered(n, l)
      BY <3>2, <1>3 DEF Answered
    <3>3. CASE Pending(n, l)
      <4>1. PICK k \in 1 .. Len(todo) : todo[k] = n
        BY <3>3, <1>1 DEF Pending
      <4>2. CASE k = Len(todo)
        BY <4>1, <4>2, <1>2, <1>6 DEF Pending
      <4>3. CASE k # Len(todo)
        <5>1. k \in 1 .. Len(todo') /\ todo'[k] = n
          BY <4>1, <4>3, <1>6
        <5> QED BY <5>1 DEF Pending
      <4> QED BY <4>2, <4>3
    <3> QED BY <3>1, <3>2, <3>3
  <2> QED BY <2>1, <1>1, <1>3, <1>4 DEF CoveredInv
<1> QED BY <1>5, <1>7, <1>8, <1>9 DEF ExplorationInv

(***************************************************************************)
(* A step of the exploration keeps the states there are; one it adds waits *)
(* to be looked at.                                                        *)
(***************************************************************************)
LEMMA GrownStates ==
  ASSUME states \in Seq(game.region), states # << >>, todo \in Seq(Ids),
         NEW n, NEW w \in game.region,
         \/ n \in Ids /\ UNCHANGED <<states, todo>>
         \/ n = Len(states) /\ states' = Append(states, w) /\ todo' = Append(todo, Len(states))
  PROVE  /\ states' \in Seq(game.region) /\ states' # << >> /\ Ids \subseteq Ids' /\ n \in Ids'
         /\ \A k \in Ids : states'[k + 1] = states[k + 1]
         /\ todo' \in Seq(Ids')
         /\ \A k \in 1 .. Len(todo) : k \in 1 .. Len(todo') /\ todo'[k] = todo[k]
         /\ \A k \in Ids' : k \in Ids \/ \E j \in 1 .. Len(todo') : todo'[j] = k
<1>1. CASE n \in Ids /\ UNCHANGED <<states, todo>>
  BY <1>1 DEF Ids
<1>2. CASE n = Len(states) /\ states' = Append(states, w) /\ todo' = Append(todo, Len(states))
  <2>1. /\ states' \in Seq(game.region) /\ states' # << >> /\ Len(states') = Len(states) + 1
        /\ \A k \in 1 .. Len(states) : states'[k] = states[k]
    BY <1>2, AppendFacts
  <2>2. Ids \subseteq Ids' /\ n \in Ids'
    BY <2>1, <1>2 DEF Ids
  <2>3. \A k \in Ids : states'[k + 1] = states[k + 1]
    BY <2>1 DEF Ids
  <2>4. todo \in Seq(Ids')
    BY <2>2, SeqInLarger
  <2>5. /\ todo' \in Seq(Ids') /\ Len(todo') = Len(todo) + 1
        /\ \A k \in 1 .. Len(todo) : todo'[k] = todo[k]
        /\ todo'[Len(todo) + 1] = Len(states)
    BY <2>2, <2>4, <1>2, AppendFacts
  <2>6. Len(todo) \in Nat /\ \A k \in 1 .. Len(todo) : k \in 1 .. Len(todo')
    BY <2>5
  <2>7. \A k \in Ids' : k \in Ids \/ k = Len(states)
    BY <2>1 DEF Ids
  <2>8. Len(todo) + 1 \in 1 .. Len(todo')
    BY <2>5, <2>6
  <2> QED BY <2>1, <2>2, <2>3, <2>5, <2>6, <2>7, <2>8
<1> QED BY <1>1, <1>2

(***************************************************************************)
(* One input answered: its transition is new, its letters are done with,   *)
(* and a new state waits to be looked at.                                  *)
(***************************************************************************)
LEMMA ExploreExploration ==
  ASSUME ExplorationInv, NEW i \in Inputs, NEW o \in Outputs, Explore(i, o)
  PROVE  ExplorationInv'
<1> DEFINE succ == Successor(i, o)
           known == DominatedBy(succ)
<1>1. /\ pc = "explore" /\ mode = "synthesis" /\ <<i, o>> \in rest /\ succ \in game.region
      /\ rest' = {l \in rest : l[1] # i}
      /\ UNCHANGED <<game, mode, pc, src, bad>>
  BY DEF Explore
<1>2. \/ known # {} /\ AddTransition(i, o, Min(known)) /\ UNCHANGED <<states, todo>>
      \/ AddTransition(i, o, Len(states)) /\ \E m \in Dominating(succ) : NewState(m)
  BY DEF Explore
<1>3. succ = Here(src, i, o)
  BY DEF Successor, Here
<1>4. PICK n \in 0 .. Len(states), w \in game.region :
        /\ trans' = trans \cup {[src |-> src, in |-> i, out |-> o, dst |-> n]}
        /\ \/ n \in Ids /\ UNCHANGED <<states, todo>>
           \/ n = Len(states) /\ states' = Append(states, w) /\ todo' = Append(todo, Len(states))
        /\ Leq(succ, states'[n + 1])
  <2> HIDE DEF succ
  <2>0. states \in Seq(game.region) /\ Len(states) \in Nat
    BY DEF ExplorationInv, StatesInv
  <2>1. CASE known # {} /\ AddTransition(i, o, Min(known)) /\ UNCHANGED <<states, todo>>
    <3>1. known \in SUBSET (0 .. Len(states)) /\ known \subseteq Ids
      BY <2>0 DEF DominatedBy, Ids
    <3>2. Min(known) \in known
      <4> HIDE DEF known
      <4> QED BY <2>0, <2>1, <3>1, MinOfIds
    <3>3. Leq(succ, states[Min(known) + 1])
      BY <3>2 DEF DominatedBy
    <3>4. Min(known) \in Ids /\ Min(known) \in 0 .. Len(states)
      BY <3>1, <3>2
    <3> HIDE DEF known
    <3> QED BY <2>1, <3>3, <3>4, <1>1 DEF AddTransition
  <2>2. CASE AddTransition(i, o, Len(states)) /\ \E m \in Dominating(succ) : NewState(m)
    <3>1. PICK m \in Dominating(succ) : NewState(m)
      BY <2>2
    <3>2. m \in game.region /\ Leq(succ, m)
      BY <3>1, DominatingFacts
    <3>3. states' = Append(states, m) /\ todo' = Append(todo, Len(states))
      BY <3>1 DEF NewState
    <3>4. states'[Len(states) + 1] = m
      BY <3>2, <3>3, <2>0, AppendFacts
    <3> QED BY <2>0, <2>2, <3>2, <3>3, <3>4 DEF AddTransition
  <2> QED BY <1>2, <2>1, <2>2
<1>5. aut' = aut /\ game' = game /\ mode' = mode /\ bad' = bad /\ src' = src
  BY <1>1 DEF aut
<1>6. /\ states \in Seq(game.region) /\ states # << >> /\ todo \in Seq(Ids) /\ src \in Ids
      /\ rest \subseteq aut.allowed /\ Len(states) \in Nat
  BY DEF ExplorationInv, StatesInv
<1>7. /\ states' \in Seq(game.region) /\ states' # << >> /\ Ids \subseteq Ids' /\ n \in Ids'
      /\ \A k \in Ids : states'[k + 1] = states[k + 1]
      /\ todo' \in Seq(Ids')
      /\ \A k \in 1 .. Len(todo) : k \in 1 .. Len(todo') /\ todo'[k] = todo[k]
      /\ \A k \in Ids' : k \in Ids \/ \E j \in 1 .. Len(todo') : todo'[j] = k
  BY <1>4, <1>6, GrownStates
<1>8. GameInv'
  BY <1>1 DEF ExplorationInv, GameInv
<1>9. StatesInv'
  <2>1. rest' \subseteq aut'.allowed
    BY <1>1, <1>5, <1>6
  <2> QED BY <1>5, <1>6, <1>7, <2>1 DEF StatesInv
<1>10. \A k \in Ids, j \in Inputs, p \in Outputs : Here(k, j, p)' = Here(k, j, p)
  BY <1>5, <1>7 DEF Here
<1>11. TransInv'
  <2> DEFINE new == [src |-> src, in |-> i, out |-> o, dst |-> n]
  <2>1. trans \subseteq [src : Ids, in : Inputs, out : Outputs, dst : Ids]
    BY DEF ExplorationInv, TransInv
  <2>2. trans \subseteq [src : Ids', in : Inputs, out : Outputs, dst : Ids']
    BY <2>1, <1>7
  <2>3. new \in [src : Ids', in : Inputs, out : Outputs, dst : Ids']
    BY <1>6, <1>7
  <2>4. ASSUME NEW t \in trans
        PROVE  /\ <<t.in, t.out>> \in aut.allowed
               /\ Leq(Here(t.src, t.in, t.out)', states'[t.dst + 1])
    <3>1. /\ t.src \in Ids /\ t.dst \in Ids /\ t.in \in Inputs /\ t.out \in Outputs
      BY <2>1
    <3>2. <<t.in, t.out>> \in aut.allowed /\ Leq(Here(t.src, t.in, t.out), states[t.dst + 1])
      BY <1>1 DEF ExplorationInv, TransInv
    <3> QED BY <3>1, <3>2, <1>7, <1>10
  <2>5. ASSUME NEW t \in {new}
        PROVE  /\ <<t.in, t.out>> \in aut.allowed
               /\ Leq(Here(t.src, t.in, t.out)', states'[t.dst + 1])
    <3>1. t.src = src /\ t.in = i /\ t.out = o /\ t.dst = n
      OBVIOUS
    <3>2. Here(t.src, t.in, t.out)' = succ
      BY <3>1, <1>3, <1>6, <1>10
    <3> QED BY <3>1, <3>2, <1>1, <1>4, <1>6
  <2>6. trans' = trans \cup {new}
    BY <1>4
  <2> HIDE DEF new
  <2>7. trans' \subseteq [src : Ids', in : Inputs, out : Outputs, dst : Ids']
    BY <2>2, <2>3, <2>6
  <2>8. ASSUME NEW t \in trans'
        PROVE  <<t.in, t.out>> \in aut'.allowed /\ Leq(Here(t.src, t.in, t.out)', states'[t.dst + 1])
    BY <2>4, <2>5, <2>6, <1>5
  <2>9. mode' = "synthesis" /\ mode' # "winregion"
    BY <1>1
  <2> QED BY <2>7, <2>8, <2>9 DEF TransInv
<1>12. BadInv'
  <2>1. bad = {}
    BY <1>1 DEF ExplorationInv, BadInv
  <2> QED BY <2>1, <1>5, <1>1 DEF BadInv
<1>13. CoveredInv'
  <2>1. ASSUME NEW k \in Ids', NEW l \in aut'.allowed
        PROVE  Pending(k, l)' \/ Answered(k, l)'
    <3>1. CASE k \notin Ids
      <4>1. \E j \in 1 .. Len(todo') : todo'[j] = k
        BY <1>7, <3>1
      <4> QED BY <4>1 DEF Pending
    <3>2. CASE k \in Ids /\ Answered(k, l)
      <4>1. \E t \in trans : t.src = k /\ t.in = l[1]
        BY <3>2, <1>1 DEF Answered
      <4>2. trans \subseteq trans'
        BY <1>4
      <4> QED BY <4>1, <4>2, <1>1 DEF Answered
    <3>3. CASE k \in Ids /\ Pending(k, l)
      <4>1. CASE \E j \in 1 .. Len(todo) : todo[j] = k
        BY <4>1, <1>7 DEF Pending
      <4>2. CASE k = src /\ l \in rest
        <5>1. CASE l[1] = i
          <6>1. [src |-> src, in |-> i, out |-> o, dst |-> n] \in trans'
            BY <1>4
          <6> QED BY <6>1, <5>1, <4>2, <1>1 DEF Answered
        <5>2. CASE l[1] # i
          <6>1. l \in rest'
            BY <1>1, <4>2, <5>2
          <6> QED BY <6>1, <4>2, <1>5 DEF Pending
        <5> QED BY <5>1, <5>2
      <4> QED BY <3>3, <4>1, <4>2 DEF Pending
    <3>4. k \in Ids => Pending(k, l) \/ Answered(k, l)
      BY <1>5 DEF ExplorationInv, CoveredInv
    <3> QED BY <3>1, <3>2, <3>3, <3>4
  <2> QED BY <2>1, <1>1 DEF CoveredInv
<1> QED BY <1>8, <1>9, <1>11, <1>12, <1>13 DEF ExplorationInv

(***************************************************************************)
(* One letter of winregion: it gets a transition when it stays in the      *)
(* region, else it is written down with the vector it leads to.            *)
(***************************************************************************)
LEMMA ExploreAllExploration ==
  ASSUME ExplorationInv, ExploreAll
  PROVE  ExplorationInv'
<1> DEFINE letter == CHOOSE l \in rest : TRUE
<1>0. rest # {} /\ letter \in rest
  BY DEF ExploreAll
<1>1. letter \in aut.allowed /\ aut.allowed \subseteq Inputs \X Outputs /\ IsAutomaton(aut) /\ aut \in Automata
  BY <1>0, GameFacts DEF ExplorationInv, StatesInv, GameInv, aut
<1>2. PICK i \in Inputs, o \in Outputs : letter = <<i, o>>
  BY <1>1
<1> DEFINE succ == Successor(i, o)
           known == {n \in 0 .. Len(states) - 1 : states[n + 1] = succ}
<1>3. letter[1] = i /\ letter[2] = o
  <2> HIDE DEF letter
  <2> QED BY <1>2
<1>4. /\ pc = "explore" /\ mode = "winregion"
      /\ rest' = rest \ {letter}
      /\ UNCHANGED <<game, mode, pc, src>>
  BY DEF ExploreAll
<1>5. \/ /\ succ \in game.region
         /\ \/ known # {} /\ AddTransition(i, o, Min(known)) /\ UNCHANGED <<states, todo>>
            \/ AddTransition(i, o, Len(states)) /\ NewState(succ)
         /\ bad' = bad
      \/ /\ succ \notin game.region
         /\ bad' = bad \cup {[src |-> src, in |-> i, out |-> o, succ |-> succ]}
         /\ UNCHANGED <<states, todo, trans>>
  BY <1>3 DEF ExploreAll
<1>6. aut' = aut /\ game' = game /\ mode' = mode /\ src' = src
  BY <1>4 DEF aut
<1>7. /\ states \in Seq(game.region) /\ states # << >> /\ todo \in Seq(Ids) /\ src \in Ids
      /\ rest \subseteq aut.allowed /\ Len(states) \in Nat
  BY DEF ExplorationInv, StatesInv
<1>8. succ = Here(src, i, o) /\ succ \in Vectors
  <2>1. states[src + 1] \in game.region
    BY <1>7 DEF Ids
  <2>2. game \in Solved
    BY DEF ExplorationInv, GameInv
  <2>3. states[src + 1] \in Vectors /\ Kfrom \in 1 .. TopK
    BY <2>1, <2>2, GameFacts
  <2> QED BY <1>1, <2>3, ForwardType DEF Successor, Here
<1> HIDE DEF letter, succ, known
<1>9. GameInv'
  BY <1>4 DEF ExplorationInv, GameInv
<1>10. rest' \subseteq aut'.allowed
  BY <1>4, <1>6, <1>7
<1>11. CASE succ \in game.region
  <2>1. PICK n \in 0 .. Len(states) :
          /\ trans' = trans \cup {[src |-> src, in |-> i, out |-> o, dst |-> n]}
          /\ \/ n \in Ids /\ UNCHANGED <<states, todo>>
             \/ n = Len(states) /\ states' = Append(states, succ) /\ todo' = Append(todo, Len(states))
          /\ states'[n + 1] = succ
    <3>1. CASE known # {} /\ AddTransition(i, o, Min(known)) /\ UNCHANGED <<states, todo>>
      <4>1. known \in SUBSET (0 .. Len(states)) /\ known \subseteq Ids
        BY <1>7 DEF known, Ids
      <4>2. Min(known) \in known
        BY <1>7, <3>1, <4>1, MinOfIds
      <4>3. states[Min(known) + 1] = succ
        BY <4>2 DEF known
      <4>4. Min(known) \in Ids /\ Min(known) \in 0 .. Len(states)
        BY <4>1, <4>2
      <4> QED BY <3>1, <4>3, <4>4 DEF AddTransition
    <3>2. CASE AddTransition(i, o, Len(states)) /\ NewState(succ)
      <4>1. states' = Append(states, succ) /\ todo' = Append(todo, Len(states))
        BY <3>2 DEF NewState
      <4>2. states'[Len(states) + 1] = succ
        BY <1>11, <4>1, <1>7, AppendFacts
      <4> QED BY <1>7, <3>2, <4>1, <4>2 DEF AddTransition
    <3> QED BY <1>5, <1>11, <3>1, <3>2
  <2>2. bad' = bad
    BY <1>5, <1>11
  <2>3. /\ states' \in Seq(game.region) /\ states' # << >> /\ Ids \subseteq Ids' /\ n \in Ids'
        /\ \A k \in Ids : states'[k + 1] = states[k + 1]
        /\ todo' \in Seq(Ids')
        /\ \A k \in 1 .. Len(todo) : k \in 1 .. Len(todo') /\ todo'[k] = todo[k]
        /\ \A k \in Ids' : k \in Ids \/ \E j \in 1 .. Len(todo') : todo'[j] = k
    BY <2>1, <1>7, <1>11, GrownStates
  <2>4. StatesInv'
    BY <1>6, <1>7, <1>10, <2>3 DEF StatesInv
  <2>5. \A k \in Ids, j \in Inputs, p \in Outputs : Here(k, j, p)' = Here(k, j, p)
    BY <1>6, <2>3 DEF Here
  <2>6. TransInv'
    <3>1. trans \subseteq [src : Ids, in : Inputs, out : Outputs, dst : Ids]
      BY DEF ExplorationInv, TransInv
    <3>2. trans \subseteq [src : Ids', in : Inputs, out : Outputs, dst : Ids']
      BY <3>1, <2>3
    <3>3. ASSUME NEW t \in trans
          PROVE  /\ <<t.in, t.out>> \in aut.allowed
                 /\ Here(t.src, t.in, t.out)' = states'[t.dst + 1]
      <4>1. /\ t.src \in Ids /\ t.dst \in Ids /\ t.in \in Inputs /\ t.out \in Outputs
        BY <3>1
      <4>2. <<t.in, t.out>> \in aut.allowed /\ Here(t.src, t.in, t.out) = states[t.dst + 1]
        BY <1>4 DEF ExplorationInv, TransInv
      <4> QED BY <4>1, <4>2, <2>3, <2>5
    <3>4. ASSUME NEW t, t = [src |-> src, in |-> i, out |-> o, dst |-> n]
          PROVE  /\ t \in [src : Ids', in : Inputs, out : Outputs, dst : Ids']
                 /\ <<t.in, t.out>> \in aut.allowed
                 /\ Here(t.src, t.in, t.out)' = states'[t.dst + 1]
      <4>1. t.src = src /\ t.in = i /\ t.out = o /\ t.dst = n
        BY <3>4
      <4>2. Here(t.src, t.in, t.out)' = succ
        BY <4>1, <1>7, <1>8, <2>5
      <4>3. t \in [src : Ids', in : Inputs, out : Outputs, dst : Ids']
        BY <3>4, <1>7, <2>3
      <4> QED BY <4>1, <4>2, <4>3, <1>1, <1>2, <2>1
    <3>5. \A t \in trans' : t \in trans \/ t = [src |-> src, in |-> i, out |-> o, dst |-> n]
      BY <2>1
    <3>6. trans' \subseteq [src : Ids', in : Inputs, out : Outputs, dst : Ids']
      BY <3>2, <3>4, <3>5
    <3>7. ASSUME NEW t \in trans'
          PROVE  <<t.in, t.out>> \in aut'.allowed /\ Here(t.src, t.in, t.out)' = states'[t.dst + 1]
      BY <3>3, <3>4, <3>5, <1>6
    <3>8. mode' # "synthesis"
      BY <1>4
    <3> QED BY <3>6, <3>7, <3>8 DEF TransInv
  <2>7. BadInv'
    <3>1. bad \subseteq [src : Ids', in : Inputs, out : Outputs, succ : Vectors]
      BY <2>3 DEF ExplorationInv, BadInv
    <3>2. ASSUME NEW t \in bad
          PROVE  /\ <<t.in, t.out>> \in aut.allowed
                 /\ t.succ = Here(t.src, t.in, t.out)' /\ t.succ \notin game.region
      BY <2>5 DEF ExplorationInv, BadInv
    <3>3. mode' # "synthesis"
      BY <1>4
    <3> QED BY <3>1, <3>2, <3>3, <2>2, <1>6 DEF BadInv
  <2>8. CoveredInv'
    <3>1. ASSUME NEW k \in Ids', NEW l \in aut'.allowed
          PROVE  Pending(k, l)' \/ Answered(k, l)'
      <4>1. CASE k \notin Ids
        <5>1. \E j \in 1 .. Len(todo') : todo'[j] = k
          BY <2>3, <4>1
        <5> QED BY <5>1 DEF Pending
      <4>2. CASE k \in Ids /\ Answered(k, l)
        <5>1. trans \subseteq trans'
          BY <2>1
        <5> QED BY <5>1, <4>2, <2>2, <1>6 DEF Answered
      <4>3. CASE k \in Ids /\ Pending(k, l)
        <5>1. CASE \E j \in 1 .. Len(todo) : todo[j] = k
          BY <5>1, <2>3 DEF Pending
        <5>2. CASE k = src /\ l = letter
          <6>1. [src |-> src, in |-> i, out |-> o, dst |-> n] \in trans'
            BY <2>1
          <6> QED BY <6>1, <5>2, <1>3, <1>4 DEF Answered
        <5>3. CASE k = src /\ l \in rest /\ l # letter
          <6>1. l \in rest'
            BY <1>4, <5>3
          <6> QED BY <6>1, <5>3, <1>6 DEF Pending
        <5> QED BY <4>3, <5>1, <5>2, <5>3 DEF Pending
      <4>4. k \in Ids => Pending(k, l) \/ Answered(k, l)
        BY <1>6 DEF ExplorationInv, CoveredInv
      <4> QED BY <4>1, <4>2, <4>3, <4>4
    <3> QED BY <3>1, <1>4 DEF CoveredInv
  <2> QED BY <1>9, <2>4, <2>6, <2>7, <2>8 DEF ExplorationInv
<1>12. CASE succ \notin game.region
  <2>1. bad' = bad \cup {[src |-> src, in |-> i, out |-> o, succ |-> succ]}
    BY <1>5, <1>12
  <2>2. UNCHANGED <<states, todo, trans>>
    BY <1>5, <1>12
  <2>3. Ids' = Ids
    BY <2>2 DEF Ids
  <2>4. StatesInv'
    BY <1>6, <1>7, <1>10, <2>2, <2>3 DEF StatesInv
  <2>5. \A k, j, p : Here(k, j, p)' = Here(k, j, p)
    BY <1>6, <2>2 DEF Here
  <2>6. TransInv'
    BY <1>6, <2>2, <2>3, <2>5 DEF ExplorationInv, TransInv
  <2>7. BadInv'
    <3>1. bad \subseteq [src : Ids', in : Inputs, out : Outputs, succ : Vectors]
      BY <2>3 DEF ExplorationInv, BadInv
    <3>2. ASSUME NEW t \in bad
          PROVE  /\ <<t.in, t.out>> \in aut.allowed
                 /\ t.succ = Here(t.src, t.in, t.out)' /\ t.succ \notin game.region
      BY <2>5 DEF ExplorationInv, BadInv
    <3>3. ASSUME NEW t, t = [src |-> src, in |-> i, out |-> o, succ |-> succ]
          PROVE  /\ t \in [src : Ids', in : Inputs, out : Outputs, succ : Vectors]
                 /\ <<t.in, t.out>> \in aut.allowed
                 /\ t.succ = Here(t.src, t.in, t.out)' /\ t.succ \notin game.region
      <4>1. t.src = src /\ t.in = i /\ t.out = o /\ t.succ = succ
        BY <3>3
      <4>2. Here(t.src, t.in, t.out)' = succ
        BY <4>1, <1>8, <2>5
      <4>3. t \in [src : Ids', in : Inputs, out : Outputs, succ : Vectors]
        BY <3>3, <1>7, <1>8, <2>3
      <4> QED BY <4>1, <4>2, <4>3, <1>1, <1>2, <1>12
    <3>4. \A t \in bad' : t \in bad \/ t = [src |-> src, in |-> i, out |-> o, succ |-> succ]
      BY <2>1
    <3>5. bad' \subseteq [src : Ids', in : Inputs, out : Outputs, succ : Vectors]
      BY <3>1, <3>3, <3>4
    <3>6. ASSUME NEW t \in bad'
          PROVE  /\ <<t.in, t.out>> \in aut'.allowed
                 /\ t.succ = Here(t.src, t.in, t.out)' /\ t.succ \notin game'.region
      BY <3>2, <3>3, <3>4, <1>6
    <3>7. mode' # "synthesis"
      BY <1>4
    <3> QED BY <3>5, <3>6, <3>7 DEF BadInv
  <2>8. CoveredInv'
    <3>1. ASSUME NEW k \in Ids, NEW l \in aut.allowed
          PROVE  Pending(k, l)' \/ Answered(k, l)'
      <4>1. CASE Answered(k, l)
        <5>1. bad \subseteq bad'
          BY <2>1
        <5> QED BY <5>1, <4>1, <2>2, <1>6 DEF Answered
      <4>2. CASE k = src /\ l = letter
        <5>1. PICK t \in bad' : t = [src |-> src, in |-> i, out |-> o, succ |-> succ]
          BY <2>1
        <5>2. t.src = k /\ t.in = l[1] /\ t.out = l[2]
          BY <5>1, <4>2, <1>3
        <5> QED BY <5>2, <1>4 DEF Answered
      <4>3. CASE Pending(k, l) /\ ~ (k = src /\ l = letter)
        BY <4>3, <1>4, <1>6, <2>2 DEF Pending
      <4>4. Pending(k, l) \/ Answered(k, l)
        BY DEF ExplorationInv, CoveredInv
      <4> QED BY <4>1, <4>2, <4>3, <4>4
    <3> QED BY <3>1, <1>4, <1>6, <2>3 DEF CoveredInv
  <2> QED BY <1>9, <2>4, <2>6, <2>7, <2>8 DEF ExplorationInv
<1> QED BY <1>11, <1>12

(***************************************************************************)
(* After the exploration its results stay as they are.                     *)
(***************************************************************************)
LEMMA EncodeExploration ==
  ASSUME ExplorationInv, Encode \/ Abort
  PROVE  ExplorationInv'
<1>1. rest = {} /\ todo = << >> /\ pc' \in {"outputs", "aborted"} /\ UNCHANGED <<game, mode, explored>>
  BY DEF Encode, Abort
<1>2. UNCHANGED <<game, mode, states, todo, src, rest, trans, bad>>
  BY <1>1 DEF explored
<1>3. Ids' = Ids /\ aut' = aut /\ \A n, i, o : Here(n, i, o)' = Here(n, i, o)
  BY <1>2 DEF Ids, aut, Here
<1>4. GameInv'
  BY <1>1 DEF ExplorationInv, GameInv
<1>5. StatesInv' /\ TransInv' /\ BadInv'
  BY <1>2, <1>3 DEF ExplorationInv, StatesInv, TransInv, BadInv
<1>6. CoveredInv'
  BY <1>1, <1>2, <1>3 DEF ExplorationInv, CoveredInv, Pending, Answered
<1> QED BY <1>4, <1>5, <1>6 DEF ExplorationInv

(***************************************************************************)
(* Steps that leave the game and what was explored alone keep the          *)
(* invariant of the exploration.                                           *)
(***************************************************************************)
LEMMA LaterExploration ==
  ASSUME ExplorationInv, UNCHANGED <<game, mode, explored>>, pc # "explore" \/ pc' = pc,
         pc' \in {"explore", "outputs", "latches", "play", "aborted"}
  PROVE  ExplorationInv'
<1>1. UNCHANGED <<game, mode, states, todo, src, rest, trans, bad>>
  BY DEF explored
<1>2. Ids' = Ids /\ aut' = aut /\ \A n, i, o : Here(n, i, o)' = Here(n, i, o)
  BY <1>1 DEF Ids, aut, Here
<1>3. GameInv'
  BY <1>1 DEF ExplorationInv, GameInv
<1>4. StatesInv' /\ TransInv' /\ BadInv'
  BY <1>1, <1>2 DEF ExplorationInv, StatesInv, TransInv, BadInv
<1>5. \A n, l : /\ Pending(n, l)' <=> Pending(n, l)
                /\ Answered(n, l)' <=> Answered(n, l)
  BY <1>1 DEF Pending, Answered
<1>6. CoveredInv'
  BY <1>1, <1>2, <1>5 DEF ExplorationInv, CoveredInv
<1> QED BY <1>3, <1>4, <1>6 DEF ExplorationInv

(***************************************************************************)
(* Every step preserves what the exploration has established.              *)
(***************************************************************************)
LEMMA ExplorationStep ==
  ASSUME ExplorationInv, [Next]_vars
  PROVE  ExplorationInv'
<1>1. pc \in {"explore", "outputs", "latches", "play", "aborted"}
  BY DEF ExplorationInv, GameInv
<1>2. CASE Pop
  BY <1>2, PopExploration
<1>3. ASSUME NEW i \in Inputs, NEW o \in Outputs, Explore(i, o)
      PROVE  ExplorationInv'
  BY <1>3, ExploreExploration
<1>4. CASE ExploreAll
  BY <1>4, ExploreAllExploration
<1>5. CASE Abort \/ Encode
  BY <1>5, EncodeExploration
<1>6. CASE FixOutput \/ AddRegionOutput \/ OutputsDone \/ FixLatch \/ LatchesDone
  <2>1. UNCHANGED <<game, mode, explored>> /\ pc # "explore"
        /\ pc' \in {"explore", "outputs", "latches", "play", "aborted"}
    BY <1>6, <1>1 DEF FixOutput, AddRegionOutput, OutputsDone, FixLatch, LatchesDone
  <2> QED BY <2>1, LaterExploration
<1>7. ASSUME NEW i \in Inputs, Play(i)
      PROVE  ExplorationInv'
  <2>1. UNCHANGED <<game, mode, explored>> /\ pc # "explore" /\ pc' = pc
    BY <1>7 DEF Play, Move
  <2> QED BY <2>1, <1>1, LaterExploration
<1>8. ASSUME NEW i \in Inputs, NEW o \in Outputs, PlayLetter(i, o)
      PROVE  ExplorationInv'
  <2>1. UNCHANGED <<game, mode, explored>> /\ pc # "explore" /\ pc' = pc
    BY <1>8 DEF PlayLetter, Move
  <2> QED BY <2>1, <1>1, LaterExploration
<1>9. CASE UNCHANGED vars \/ Aborted
  <2>1. UNCHANGED <<game, mode, explored>> /\ pc' = pc
    BY <1>9 DEF vars, Aborted
  <2> QED BY <2>1, <1>1, LaterExploration
<1> QED BY <1>2, <1>3, <1>4, <1>5, <1>6, <1>7, <1>8, <1>9 DEF Next, Exploration

(***************************************************************************)
(* When everything has been looked at, every state has a transition for    *)
(* every input: it belongs to the region, in which some letter leads to an *)
(* element of it.                                                          *)
(***************************************************************************)
LEMMA AllInputsAnswered ==
  ASSUME NoRaise, ExplorationInv, pc # "explore", NEW n \in Ids, NEW i \in Inputs
  PROVE  \E t \in trans : t.src = n /\ t.in = i
<1>1. game \in Solved /\ mode \in game.modes /\ aut = game.aut
  BY DEF ExplorationInv, GameInv, aut
<1>2. states[n + 1] \in game.region
  BY DEF ExplorationInv, StatesInv, Ids
<1>3. PICK o \in Answers(aut, i) : Forward(aut, states[n + 1], i, o, Kfrom) \in game.region
  BY <1>1, <1>2, GameFacts DEF Controlled
<1>4. <<i, o>> \in aut.allowed /\ o \in Outputs
  BY <1>3 DEF Answers
<1>5. ~ Pending(n, <<i, o>>)
  BY DEF ExplorationInv, CoveredInv, StatesInv, Pending
<1>6. Answered(n, <<i, o>>)
  BY <1>4, <1>5 DEF ExplorationInv, CoveredInv
<1>7. ASSUME NEW t \in bad, t.src = n, t.in = i, t.out = o
      PROVE  FALSE
  <2>1. t.succ = Here(n, i, o) /\ t.succ \notin game.region
    BY <1>7 DEF ExplorationInv, BadInv
  <2> QED BY <2>1, <1>3 DEF Here
<1>8. <<i, o>>[1] = i /\ <<i, o>>[2] = o
  OBVIOUS
<1> QED BY <1>6, <1>7, <1>8 DEF Answered

(***************************************************************************)
(* The strategy that is turned into a circuit is closed: the vector of     *)
(* each target dominates where its letter leads to, and every state has a  *)
(* transition for every input (the inductive certificate of synthesis).    *)
(***************************************************************************)
LEMMA ExplorationImpliesClosed ==
  ASSUME NoRaise, ExplorationInv
  PROVE  StrategyClosed
<1>1. game \in Solved /\ mode \in game.modes /\ aut = game.aut
  BY DEF ExplorationInv, GameInv, aut
<1>2. game.K = Kfrom /\ mode \in {"synthesis", "winregion"} /\ game.region \subseteq Vectors
  BY <1>1, GameFacts
<1>3. ASSUME NEW t \in trans
      PROVE  Leq(Forward(aut, states[t.src + 1], t.in, t.out, game.K), states[t.dst + 1])
  <2>1. t.dst \in Ids
    BY DEF ExplorationInv, TransInv
  <2>2. states[t.dst + 1] \in Vectors
    BY <2>1, <1>2 DEF ExplorationInv, StatesInv, Ids
  <2>3. Leq(states[t.dst + 1], states[t.dst + 1])
    BY <2>2, LeqOrder
  <2>4. Leq(Here(t.src, t.in, t.out), states[t.dst + 1])
    BY <1>2, <2>3 DEF ExplorationInv, TransInv
  <2> QED BY <2>4, <1>2 DEF Here
<1>4. pc # "explore" =>
        \A n \in 0 .. Len(states) - 1, i \in Inputs : \E t \in trans : t.src = n /\ t.in = i
  BY AllInputsAnswered DEF Ids
<1> QED BY <1>3, <1>4 DEF StrategyClosed

(***************************************************************************)
(* What actioner and the exploration of synthesize() and                   *)
(* winning_region_output() have found at any moment: the states are in the *)
(* region, every transition is a move of the game, every letter of a state *)
(* that has left the worklist has an answer.                               *)
(***************************************************************************)
THEOREM ExplorationAlways ==
  Spec => []ExplorationInv
<1>1. Init => ExplorationInv
  BY ExplorationInit
<1>2. ExplorationInv /\ [Next]_vars => ExplorationInv'
  BY ExplorationStep
<1> QED BY <1>1, <1>2, PTL DEF Spec

(***************************************************************************)
(* StrategyClosed, for every game: when the worklist of synthesis is       *)
(* empty, every explored state answers every input with a successor that   *)
(* is explored as well, provided solve did not raise K.                    *)
(***************************************************************************)
THEOREM StrategyIsClosed ==
  ASSUME NoRaise
  PROVE  Spec => []StrategyClosed
<1>1. ExplorationInv => StrategyClosed
  BY ExplorationImpliesClosed
<1> QED BY <1>1, ExplorationAlways, PTL

(***************************************************************************)
(* The powers of 2, which the recursion defines, outgrow the numbers.      *)
(***************************************************************************)
LEMMA PowersOf2 ==
  /\ PowerOf2 \in [Nat -> Nat \ {0}] /\ PowerOf2[0] = 1
  /\ \A n \in Nat : PowerOf2[n + 1] = 2 * PowerOf2[n]
  /\ \A n \in Nat : PowerOf2[n] >= n
<1> DEFINE P == Nat \ {0}
           step == [p \in Nat \X P |-> 2 * p[2]]
           Eq(g) == g = [n \in Nat |-> IF n = 0 THEN 1 ELSE 2 * g[n - 1]]
<1>1. step \in [Nat \X P -> P] /\ 1 \in P
  OBVIOUS
<1>2. PICK f \in [Nat -> P] : StepsFrom(f, 1, step)
  <2> HIDE DEF P, step
  <2> QED BY <1>1, PrimitiveRecursion
<1>3. \A n \in Nat : f[n + 1] = 2 * f[n]
  BY <1>2 DEF StepsFrom
<1>4. f = [n \in Nat |-> IF n = 0 THEN 1 ELSE 2 * f[n - 1]]
  <2>1. ASSUME NEW n \in Nat PROVE f[n] = IF n = 0 THEN 1 ELSE 2 * f[n - 1]
    <3>1. CASE n = 0
      BY <3>1, <1>2 DEF StepsFrom
    <3>2. CASE n # 0
      <4>1. n - 1 \in Nat /\ (n - 1) + 1 = n
        BY <3>2
      <4> QED BY <4>1, <3>2, <1>3
    <3> QED BY <3>1, <3>2
  <2> QED BY <2>1
<1>5. PowerOf2 = [n \in Nat |-> IF n = 0 THEN 1 ELSE 2 * PowerOf2[n - 1]]
  <2>1. \E g : Eq(g)
    BY <1>4
  <2>2. Eq(CHOOSE g : Eq(g))
    BY <2>1
  <2> QED BY <2>2 DEF PowerOf2
<1>6. PowerOf2[0] = 1 /\ \A n \in Nat : PowerOf2[n + 1] = 2 * PowerOf2[n]
  <2>1. ASSUME NEW n \in Nat PROVE PowerOf2[n + 1] = 2 * PowerOf2[n]
    <3>1. n + 1 \in Nat /\ n + 1 # 0 /\ (n + 1) - 1 = n
      OBVIOUS
    <3> HIDE DEF PowerOf2
    <3> QED BY <3>1, <1>5
  <2> QED BY <2>1, <1>5
<1> DEFINE T == {n \in Nat : PowerOf2[n] \in P /\ PowerOf2[n] >= n /\ PowerOf2[n] >= 1}
<1>7. Nat \subseteq T
  <2>1. 0 \in T
    BY <1>6
  <2>2. ASSUME NEW n \in Nat, n \in T PROVE n + 1 \in T
    BY <1>6, <2>2
  <2> HIDE DEF T
  <2> QED BY <2>1, <2>2, Induction
<1>8. PowerOf2 \in [Nat -> P]
  BY <1>5, <1>7
<1> QED BY <1>6, <1>7, <1>8

(***************************************************************************)
(* A finite set of integers has a bound.                                   *)
(***************************************************************************)
LEMMA FiniteIsBounded ==
  ASSUME NEW S \in SUBSET Int, IsFiniteSet(S)
  PROVE  \E m \in Int : \A x \in S : x =< m
<1>1. PICK seq \in Seq(S) : \A x \in S : \E n \in 1 .. Len(seq) : seq[n] = x
  BY DEF IsFiniteSet
<1>2. Len(seq) \in Nat /\ \A n \in 1 .. Len(seq) : seq[n] \in Int
  <2>1. Len(seq) \in Nat /\ \A n \in 1 .. Len(seq) : seq[n] \in S
    BY <1>1
  <2> QED BY <2>1
<1> DEFINE Bounds(k, m) == \A n \in 1 .. Len(seq) : n =< k => seq[n] =< m
           T == {k \in Nat : \E m \in Int : Bounds(k, m)}
<1>3. 0 \in T
  <2>1. Bounds(0, 0)
    BY <1>2
  <2> QED BY <2>1
<1>4. ASSUME NEW k \in Nat, k \in T PROVE k + 1 \in T
  <2>1. PICK m \in Int : Bounds(k, m)
    BY <1>4
  <2>2. CASE k + 1 \notin 1 .. Len(seq)
    <3>1. Bounds(k + 1, m)
      BY <2>1, <2>2, <1>2
    <3> HIDE DEF Bounds
    <3> QED BY <3>1
  <2>3. CASE k + 1 \in 1 .. Len(seq)
    <3> DEFINE b == IF seq[k + 1] =< m THEN m ELSE seq[k + 1]
    <3>1. b \in Int /\ m =< b /\ seq[k + 1] =< b
      BY <2>3, <1>2
    <3>2. Bounds(k + 1, b)
      <4>1. ASSUME NEW n \in 1 .. Len(seq), n =< k + 1 PROVE seq[n] =< b
        <5> HIDE DEF b
        <5>1. CASE n = k + 1
          BY <5>1, <3>1
        <5>2. CASE n # k + 1
          <6>1. n =< k
            BY <4>1, <5>2
          <6>2. seq[n] =< m /\ seq[n] \in Int
            BY <6>1, <2>1, <1>2
          <6> QED BY <6>2, <3>1
        <5> QED BY <5>1, <5>2
      <4> QED BY <4>1
    <3> HIDE DEF b, Bounds
    <3> QED BY <3>1, <3>2
  <2> QED BY <2>2, <2>3
<1>5. Len(seq) \in T
  <2> HIDE DEF T
  <2> QED BY <1>2, <1>3, <1>4, Induction
<1>6. PICK m \in Int : Bounds(Len(seq), m)
  BY <1>5
<1>7. ASSUME NEW x \in S PROVE x =< m
  <2>1. PICK n \in 1 .. Len(seq) : seq[n] = x
    BY <1>1
  <2> QED BY <2>1, <1>2, <1>6
<1> QED BY <1>7

(***************************************************************************)
(* The number of bits is large enough for what they have to tell apart.    *)
(***************************************************************************)
LEMMA Log2UpFacts ==
  ASSUME NEW n \in Nat
  PROVE  Log2Up(n) \in Nat /\ PowerOf2[Log2Up(n)] >= n
<1> DEFINE S == {b \in 0 .. n : PowerOf2[b] >= n}
<1>1. n \in S
  BY PowersOf2
<1>2. Min(S) \in S
  <2>1. S \in SUBSET (0 .. n) /\ S # {}
    BY <1>1
  <2> HIDE DEF S
  <2> QED BY <2>1, MinOfIds
<1>3. Log2Up(n) = Min(S)
  BY DEF Log2Up
<1> HIDE DEF S
<1> QED BY <1>2, <1>3 DEF S

(***************************************************************************)
(* The variables of the atomic propositions come before those of the       *)
(* encoding, and these are pairwise different.                             *)
(***************************************************************************)
LEMMA FirstBitFacts ==
  FirstBit \in Nat /\ \A b \in InBits \cup OutBits : b < FirstBit
<1> DEFINE S == {-1} \cup InBits \cup OutBits
<1>1. S \in SUBSET Int /\ S # {} /\ -1 \in S
  BY SynthesisAssumption
<1>2. IsFiniteSet(S)
  <2>1. IsFiniteSet({-1})
    BY FS_Singleton
  <2>2. IsFiniteSet({-1} \cup InBits)
    BY <2>1, SynthesisAssumption, FS_Union
  <2> QED BY <2>2, SynthesisAssumption, FS_Union
<1> HIDE DEF S
<1>3. PICK m \in Int : \A x \in S : x =< m
  BY <1>1, <1>2, FiniteIsBounded
<1>4. Max(S) \in S /\ \A y \in S : y =< Max(S)
  BY <1>1, <1>3, MaxOfBounded
<1>5. Max(S) \in Int /\ -1 =< Max(S)
  BY <1>1, <1>4
<1>6. FirstBit = Max(S) + 1
  BY DEF FirstBit, S
<1>7. \A b \in InBits \cup OutBits : b =< Max(S) /\ b \in Int
  <2>1. InBits \cup OutBits \subseteq S
    BY DEF S
  <2> QED BY <1>1, <1>4, <2>1
<1> QED BY <1>5, <1>6, <1>7

(***************************************************************************)
(* The variables of states and of successors are all different, differ     *)
(* from those of inputs and outputs, and are enough to number the states.  *)
(***************************************************************************)
LEMMA VariablesDiffer ==
  ASSUME states \in Seq(game.region)
  PROVE  /\ mapping_bits \in Nat /\ PowerOf2[mapping_bits] >= Len(states)
         /\ Bits \subseteq Nat
         /\ InBits \subseteq Nat /\ OutBits \subseteq Nat /\ Ys \subseteq Nat /\ Zs \subseteq Nat
         /\ InBits \cap OutBits = {} /\ Ys \cap Zs = {}
         /\ (InBits \cup OutBits) \cap (Ys \cup Zs) = {}
         /\ \A k, j \in Bits : (Y(k) = Y(j) => k = j) /\ (Z(k) = Z(j) => k = j)
<1>1. Len(states) \in Nat
  OBVIOUS
<1>2. mapping_bits \in Nat /\ PowerOf2[mapping_bits] >= Len(states)
  BY <1>1, Log2UpFacts DEF mapping_bits
<1>3. Bits \subseteq Nat
  BY <1>2 DEF Bits
<1>4. FirstBit \in Nat /\ \A b \in InBits \cup OutBits : b < FirstBit
  BY FirstBitFacts
<1>5. \A k, j \in Bits : /\ Y(k) \in Nat /\ Z(k) \in Nat /\ Y(k) >= FirstBit /\ Z(k) >= FirstBit
                         /\ Y(k) # Z(j) /\ (Y(k) = Y(j) => k = j) /\ (Z(k) = Z(j) => k = j)
  BY <1>3, <1>4 DEF Y, Z
<1>6. InBits \subseteq Nat /\ OutBits \subseteq Nat /\ InBits \cap OutBits = {}
  BY SynthesisAssumption
<1>7. Ys \subseteq Nat /\ Zs \subseteq Nat /\ Ys \cap Zs = {}
  BY <1>5 DEF Ys, Zs
<1>8. (InBits \cup OutBits) \cap (Ys \cup Zs) = {}
  <2>1. ASSUME NEW b \in InBits \cup OutBits, b \in Ys \cup Zs PROVE FALSE
    <3>1. PICK k \in Bits : b = Y(k) \/ b = Z(k)
      BY <2>1 DEF Ys, Zs
    <3> QED BY <3>1, <1>4, <1>5, <1>6
  <2> QED BY <2>1
<1> QED BY <1>2, <1>3, <1>5, <1>6, <1>7, <1>8

(***************************************************************************)
(* Either candidate for a function of b leaves a solution wherever there   *)
(* was one.                                                                *)
(***************************************************************************)
LEMMA FixKeeps ==
  ASSUME NEW r, NEW cube, NEW V, NEW b \in cube,
         \A x \in r : x \ cube \in SUBSET V,
         NEW f \in Candidates(r, b, V, cube)
  PROVE  /\ Fix(r, b, f, cube) \subseteq r
         /\ Exist(Fix(r, b, f, cube), cube) = Exist(r, cube)
<1>1. Fix(r, b, f, cube) \subseteq r
  BY DEF Fix
<1>2. ASSUME NEW x \in r PROVE \E y \in Fix(r, b, f, cube) : y \ cube = x \ cube
  <2>1. CASE f = Exist(RestrictTo(r, b), cube)
    <3>1. \A p : p \in f <=> \E y \in r : b \in y /\ y \ cube = p
      <4>1. \A p : p \in f <=> \E z \in RestrictTo(r, b) : p = z \ cube
        BY <2>1 DEF Exist
      <4>2. \A z : z \in RestrictTo(r, b) <=> \E y \in r : b \in y /\ z = y \ {b}
        BY DEF RestrictTo
      <4>3. \A y : (y \ {b}) \ cube = y \ cube
        OBVIOUS
      <4>4. ASSUME NEW p, p \in f PROVE \E y \in r : b \in y /\ y \ cube = p
        <5>1. PICK z \in RestrictTo(r, b) : p = z \ cube
          BY <4>1, <4>4
        <5>2. PICK y \in r : b \in y /\ z = y \ {b}
          BY <4>2
        <5> QED BY <5>1, <5>2, <4>3
      <4>5. ASSUME NEW p, NEW y \in r, b \in y, y \ cube = p PROVE p \in f
        <5>1. y \ {b} \in RestrictTo(r, b)
          BY <4>2, <4>5
        <5>2. p = (y \ {b}) \ cube
          BY <4>3, <4>5
        <5> QED BY <5>1, <5>2, <4>1
      <4> QED BY <4>4, <4>5
    <3>2. CASE x \ cube \in f
      <4>1. PICK y \in r : b \in y /\ y \ cube = x \ cube
        BY <3>1, <3>2
      <4>2. y \in Fix(r, b, f, cube)
        BY <4>1, <3>2 DEF Fix
      <4> QED BY <4>1, <4>2
    <3>3. CASE x \ cube \notin f
      <4>1. x \in Fix(r, b, f, cube)
        BY <3>1, <3>3 DEF Fix
      <4> QED BY <4>1
    <3> QED BY <3>2, <3>3
  <2>2. CASE f = Not(V, Exist(RestrictNot(r, b), cube))
    <3>1. \A p \in SUBSET V : p \in f <=> ~ \E y \in r : b \notin y /\ y \ cube = p
      <4>1. \A p \in SUBSET V : p \in f <=> ~ \E z \in RestrictNot(r, b) : p = z \ cube
        BY <2>2 DEF Exist, Not
      <4> QED BY <4>1 DEF RestrictNot
    <3>2. x \ cube \in SUBSET V
      OBVIOUS
    <3>3. CASE x \ cube \in f
      <4>1. x \in Fix(r, b, f, cube)
        BY <3>1, <3>2, <3>3 DEF Fix
      <4> QED BY <4>1
    <3>4. CASE x \ cube \notin f
      <4>1. PICK y \in r : b \notin y /\ y \ cube = x \ cube
        BY <3>1, <3>2, <3>4
      <4>2. y \in Fix(r, b, f, cube)
        BY <4>1, <3>4 DEF Fix
      <4> QED BY <4>1, <4>2
    <3> QED BY <3>3, <3>4
  <2> QED BY <2>1, <2>2 DEF Candidates
<1>3. Exist(Fix(r, b, f, cube), cube) = Exist(r, cube)
  BY <1>1, <1>2 DEF Exist
<1> QED BY <1>1, <1>3

(***************************************************************************)
(* What the phases after the exploration keep of the transitions.  Own is  *)
(* what a circuit decides besides its next state.                          *)
(***************************************************************************)
Own == IF mode = "synthesis" THEN OutBits ELSE {}

Projected(X) == Exist(Exist(X, Zs), Own)

FixedInv ==
  /\ pc = "outputs" =>
       /\ encoding = Encoding
       /\ part \subseteq Exist(Encoding, Zs) /\ Exist(part, Own) = Projected(Encoding)
       /\ left \subseteq IF mode = "synthesis" THEN OutBits ELSE RegionOutputs
       /\ mode = "winregion" => part = Exist(Encoding, Zs)
  /\ pc = "latches" =>
       /\ encoding \subseteq Encoding /\ Projected(encoding) = Projected(Encoding)
       /\ part \subseteq Exist(encoding, Own) /\ Exist(part, Zs) = Projected(encoding)
       /\ left \subseteq Zs
  /\ pc = "play" => encoding \subseteq Encoding /\ Projected(encoding) = Projected(Encoding)

(***************************************************************************)
(* The encoding of transitions is over the variables of its four parts,    *)
(* which can be told apart.                                                *)
(***************************************************************************)
LEMMA EncodingFacts ==
  ASSUME ExplorationInv
  PROVE  /\ \A t \in trans : /\ Code(t.src) \subseteq Ys /\ PrimedCode(t.dst) \subseteq Zs
                             /\ t.in \subseteq InBits /\ t.out \subseteq OutBits
         /\ \A x \in Encoding : x \subseteq InBits \cup OutBits \cup Ys \cup Zs
         /\ \A x \in Exist(Encoding, Zs) : x \subseteq InBits \cup OutBits \cup Ys
<1>1. ASSUME NEW n PROVE Code(n) \subseteq Ys /\ PrimedCode(n) \subseteq Zs
  BY DEF Code, PrimedCode, Ys, Zs
<1>2. ASSUME NEW t \in trans PROVE t.in \subseteq InBits /\ t.out \subseteq OutBits
  BY SynthesisAssumption DEF ExplorationInv, TransInv
<1>3. ASSUME NEW x \in Encoding PROVE x \subseteq InBits \cup OutBits \cup Ys \cup Zs
  BY <1>1, <1>2 DEF Encoding
<1>4. ASSUME NEW x \in Exist(Encoding, Zs) PROVE x \subseteq InBits \cup OutBits \cup Ys
  BY <1>3 DEF Exist
<1> QED BY <1>1, <1>2, <1>3, <1>4

(* Projection is monotonic, and two projections commute. *)
LEMMA ExistFacts ==
  ASSUME NEW X, NEW W, NEW C, NEW D, X \subseteq W
  PROVE  /\ Exist(X, C) \subseteq Exist(W, C)
         /\ Exist(Exist(X, C), D) = Exist(Exist(X, D), C)
<1>1. Exist(X, C) \subseteq Exist(W, C)
  BY DEF Exist
<1>2. \A A, B : Exist(Exist(X, A), B) = {(x \ A) \ B : x \in X}
  BY DEF Exist
<1>3. \A x : (x \ C) \ D = (x \ D) \ C
  OBVIOUS
<1>4. {(x \ C) \ D : x \in X} = {(x \ D) \ C : x \in X}
  BY <1>3
<1> QED BY <1>1, <1>2, <1>4

(* The least variable of those that are left. *)
LEMMA MinOfVariables ==
  ASSUME NEW S \in SUBSET Nat, S # {}
  PROVE  Min(S) \in S
<1>1. S \in SUBSET Int /\ \A x \in S : 0 =< x
  OBVIOUS
<1>2. 0 \in Int /\ S # {}
  OBVIOUS
<1> HIDE DEF Min
<1> QED BY ONLY <1>1, <1>2, MinOfBounded

(***************************************************************************)
(* The encoding depends only on the game, the mode and what was explored.  *)
(***************************************************************************)
LEMMA SameVariables ==
  ASSUME UNCHANGED <<game, mode, explored>>
  PROVE  /\ Ys' = Ys /\ Zs' = Zs /\ Own' = Own /\ Encoding' = Encoding /\ Ids' = Ids
         /\ mapping_bits' = mapping_bits /\ Bits' = Bits /\ aut' = aut
         /\ \A n : Code(n)' = Code(n) /\ PrimedCode(n)' = PrimedCode(n)
<1>1. UNCHANGED <<game, mode, states, trans>>
  BY DEF explored
<1>2. mapping_bits' = mapping_bits /\ Bits' = Bits
  BY <1>1 DEF mapping_bits, Bits
<1>3. Ys' = Ys /\ Zs' = Zs
  BY <1>2 DEF Ys, Zs
<1>4. \A n : Code(n)' = Code(n) /\ PrimedCode(n)' = PrimedCode(n)
  BY <1>2 DEF Code, PrimedCode
<1>5. Encoding' = Encoding
  BY <1>1, <1>2 DEF Encoding, Code, PrimedCode
<1> QED BY <1>1, <1>2, <1>3, <1>4, <1>5 DEF Own, Ids, aut

(***************************************************************************)
(* A circuit under construction.                                           *)
(***************************************************************************)
CircuitOK(c) ==
  /\ DOMAIN c = {"sources", "net", "outputs", "next"}
  /\ Wired(c.sources) /\ NetOK(c.sources, c.net)
  /\ \A name \in DOMAIN c.outputs : /\ c.outputs[name] \in Nat
                                    /\ c.outputs[name] < Free(c.sources, c.net.gates)
  /\ \A b \in DOMAIN c.next : c.next[b] \in Nat /\ c.next[b] < Free(c.sources, c.net.gates)

Says(c, s, x) == Truth(c.sources, c.net.gates, x, s)

(* The signals of c mean in d what they meant. *)
Extends(c, d) ==
  /\ d.sources = c.sources
  /\ \A s \in Nat : s < Free(c.sources, c.net.gates) =>
       \A x : Says(d, s, x) <=> Says(c, s, x)

IsWith(h, g, name, s) ==
  /\ DOMAIN h = DOMAIN g \cup {name} /\ h[name] = s
  /\ \A n \in DOMAIN g : n # name => h[n] = g[n]

(* With defines one name, and keeps the others. *)
LEMMA WithFacts ==
  ASSUME NEW g, NEW name, NEW s
  PROVE  IsWith(With(g, name, s), g, name, s)
BY DEF With, IsWith

(* Building a BDD extends the circuit and returns a signal for the BDD. *)
LEMMA BuiltExtends ==
  ASSUME NEW c, CircuitOK(c), NEW f \in SUBSET SUBSET Variables(c.sources), NEW r, r = Bdd2Aig(c, f),
         NEW d, d.sources = c.sources, d.net = r.net
  PROVE  /\ Wired(d.sources) /\ NetOK(d.sources, d.net)
         /\ r.signal \in Nat /\ r.signal < Free(d.sources, d.net.gates)
         /\ Computes(d.sources, d.net.gates, r.signal, f)
         /\ Extends(c, d)
         /\ \A s \in Nat : s < Free(c.sources, c.net.gates) => s < Free(d.sources, d.net.gates)
<1>1. Wired(c.sources) /\ NetOK(c.sources, c.net)
  BY DEF CircuitOK
<1>2. Built(c.sources, c.net, f, r)
  BY <1>1, Bdd2AigSound
<1>3. NetOK(d.sources, d.net) /\ Prefix(c.net.gates, d.net.gates)
      /\ Computes(d.sources, d.net.gates, r.signal, f)
  BY <1>2 DEF Built
<1>4. c.net.gates \in Seq(Nat \X Nat) /\ d.net.gates \in Seq(Nat \X Nat)
  BY <1>1, <1>3 DEF NetOK, Nets
<1>5. \A s \in Nat : s < Free(c.sources, c.net.gates) =>
        /\ s < Free(d.sources, d.net.gates)
        /\ \A x : Truth(c.sources, d.net.gates, x, s) <=> Truth(c.sources, c.net.gates, x, s)
  BY <1>1, <1>3, <1>4, PrefixGrows
<1> QED BY <1>1, <1>3, <1>5 DEF Extends, Says, Computes

(***************************************************************************)
(* add_output extends the circuit: the new output computes the BDD, the    *)
(* others are as before.                                                   *)
(***************************************************************************)
LEMMA AddOutputFacts ==
  ASSUME NEW c, CircuitOK(c), NEW name, NEW f \in SUBSET SUBSET Variables(c.sources),
         NEW d, d = AddOutput(c, name, f)
  PROVE  /\ CircuitOK(d) /\ Extends(c, d)
         /\ DOMAIN d.outputs = DOMAIN c.outputs \cup {name} /\ d.next = c.next
         /\ \A n \in DOMAIN c.outputs : n # name => d.outputs[n] = c.outputs[n]
         /\ Computes(d.sources, d.net.gates, d.outputs[name], f)
<1> DEFINE r == Bdd2Aig(c, f)
<1>1. DOMAIN c = {"sources", "net", "outputs", "next"}
  BY DEF CircuitOK
<1>2. d = [c EXCEPT !.net = r.net, !.outputs = With(@, name, r.signal)]
  BY DEF AddOutput
<1> HIDE DEF r
<1>3. /\ d.net = r.net /\ d.outputs = With(c.outputs, name, r.signal)
      /\ d.sources = c.sources /\ d.next = c.next /\ DOMAIN d = DOMAIN c
  BY <1>1, <1>2
<1>4. /\ Wired(d.sources) /\ NetOK(d.sources, d.net)
      /\ r.signal \in Nat /\ r.signal < Free(d.sources, d.net.gates)
      /\ Computes(d.sources, d.net.gates, r.signal, f)
      /\ Extends(c, d)
      /\ \A s \in Nat : s < Free(c.sources, c.net.gates) => s < Free(d.sources, d.net.gates)
  BY <1>3, BuiltExtends DEF r
<1>5. /\ DOMAIN d.outputs = DOMAIN c.outputs \cup {name} /\ d.outputs[name] = r.signal
      /\ \A n \in DOMAIN c.outputs : n # name => d.outputs[n] = c.outputs[n]
  <2>1. IsWith(d.outputs, c.outputs, name, r.signal)
    BY <1>3, WithFacts
  <2> QED BY <2>1 DEF IsWith
<1>6. CircuitOK(d)
  <2>1. \A n \in DOMAIN d.outputs : /\ d.outputs[n] \in Nat
                                    /\ d.outputs[n] < Free(d.sources, d.net.gates)
    BY <1>4, <1>5 DEF CircuitOK
  <2>2. \A b \in DOMAIN d.next : d.next[b] \in Nat /\ d.next[b] < Free(d.sources, d.net.gates)
    BY <1>3, <1>4 DEF CircuitOK
  <2> QED BY <2>1, <2>2, <1>1, <1>3, <1>4 DEF CircuitOK
<1> QED BY <1>3, <1>4, <1>5, <1>6

(***************************************************************************)
(* add_latch extends the circuit: the new latch computes the BDD, the      *)
(* others are as before.                                                   *)
(***************************************************************************)
LEMMA AddLatchFacts ==
  ASSUME NEW c, CircuitOK(c), NEW b, NEW f \in SUBSET SUBSET Variables(c.sources),
         NEW d, d = AddLatch(c, b, f)
  PROVE  /\ CircuitOK(d) /\ Extends(c, d)
         /\ DOMAIN d.next = DOMAIN c.next \cup {b} /\ d.outputs = c.outputs
         /\ \A n \in DOMAIN c.next : n # b => d.next[n] = c.next[n]
         /\ Computes(d.sources, d.net.gates, d.next[b], f)
<1> DEFINE r == Bdd2Aig(c, f)
<1>1. DOMAIN c = {"sources", "net", "outputs", "next"}
  BY DEF CircuitOK
<1>2. d = [c EXCEPT !.net = r.net, !.next = With(@, b, r.signal)]
  BY DEF AddLatch
<1> HIDE DEF r
<1>3. /\ d.net = r.net /\ d.next = With(c.next, b, r.signal)
      /\ d.sources = c.sources /\ d.outputs = c.outputs /\ DOMAIN d = DOMAIN c
  BY <1>1, <1>2
<1>4. /\ Wired(d.sources) /\ NetOK(d.sources, d.net)
      /\ r.signal \in Nat /\ r.signal < Free(d.sources, d.net.gates)
      /\ Computes(d.sources, d.net.gates, r.signal, f)
      /\ Extends(c, d)
      /\ \A s \in Nat : s < Free(c.sources, c.net.gates) => s < Free(d.sources, d.net.gates)
  BY <1>3, BuiltExtends DEF r
<1>5. /\ DOMAIN d.next = DOMAIN c.next \cup {b} /\ d.next[b] = r.signal
      /\ \A n \in DOMAIN c.next : n # b => d.next[n] = c.next[n]
  <2>1. IsWith(d.next, c.next, b, r.signal)
    BY <1>3, WithFacts
  <2> QED BY <2>1 DEF IsWith
<1>6. CircuitOK(d)
  <2>1. \A n \in DOMAIN d.outputs : /\ d.outputs[n] \in Nat
                                    /\ d.outputs[n] < Free(d.sources, d.net.gates)
    BY <1>3, <1>4 DEF CircuitOK
  <2>2. \A n \in DOMAIN d.next : d.next[n] \in Nat /\ d.next[n] < Free(d.sources, d.net.gates)
    BY <1>4, <1>5 DEF CircuitOK
  <2> QED BY <2>1, <2>2, <1>1, <1>3, <1>4 DEF CircuitOK
<1> QED BY <1>3, <1>4, <1>5, <1>6

(***************************************************************************)
(* cube_to_vector: the elements of S, each once.                           *)
(***************************************************************************)
LEMMA SortedFacts ==
  ASSUME NEW S \in SUBSET Nat, \A b \in S : b < FirstBit
  PROVE  Sorted(S) \in Seq(Nat) /\ ToSet(Sorted(S)) = S
<1> DEFINE Q == Seq(Nat)
           step == [p \in Nat \X Q |-> IF p[1] \in S THEN Append(p[2], p[1]) ELSE p[2]]
           Eq(g) == g = [n \in Nat |->
                           IF n = 0 THEN << >>
                           ELSE IF n - 1 \in S THEN Append(g[n - 1], n - 1) ELSE g[n - 1]]
           seen == CHOOSE g : Eq(g)
<1>1. step \in [Nat \X Q -> Q] /\ << >> \in Q
  OBVIOUS
<1>2. PICK f \in [Nat -> Q] : StepsFrom(f, << >>, step)
  <2> HIDE DEF Q, step
  <2> QED BY <1>1, PrimitiveRecursion
<1>3. \A n \in Nat : f[n + 1] = IF n \in S THEN Append(f[n], n) ELSE f[n]
  <2>1. ASSUME NEW n \in Nat PROVE f[n + 1] = step[<<n, f[n]>>] /\ <<n, f[n]>> \in Nat \X Q
    <3> HIDE DEF step, Q
    <3> QED BY <1>2 DEF StepsFrom
  <2> QED BY <2>1
<1>4. Eq(f)
  <2>1. ASSUME NEW n \in Nat
        PROVE  f[n] = IF n = 0 THEN << >>
                      ELSE IF n - 1 \in S THEN Append(f[n - 1], n - 1) ELSE f[n - 1]
    <3>1. CASE n = 0
      BY <3>1, <1>2 DEF StepsFrom
    <3>2. CASE n # 0
      <4>1. n - 1 \in Nat /\ (n - 1) + 1 = n
        BY <3>2
      <4> QED BY <4>1, <3>2, <1>3
    <3> QED BY <3>1, <3>2
  <2> QED BY <2>1
<1>5. Eq(seen)
  <2> HIDE DEF Eq
  <2> QED BY <1>4
<1>6. Sorted(S) = seen[FirstBit]
  BY DEF Sorted
<1>7. seen[0] = << >> /\ \A n \in Nat : seen[n + 1] = IF n \in S THEN Append(seen[n], n) ELSE seen[n]
  <2> HIDE DEF seen
  <2>1. seen[0] = << >>
    BY <1>5
  <2>2. ASSUME NEW n \in Nat
        PROVE  seen[n + 1] = IF n \in S THEN Append(seen[n], n) ELSE seen[n]
    <3>1. n + 1 \in Nat /\ n + 1 # 0 /\ (n + 1) - 1 = n
      OBVIOUS
    <3> QED BY <3>1, <1>5
  <2> QED BY <2>1, <2>2
<1> HIDE DEF seen
<1> DEFINE U == {n \in Nat : seen[n] \in Q /\ ToSet(seen[n]) = {b \in S : b < n}}
<1>8. 0 \in U
  <2>1. ToSet(<< >>) = {}
    BY DEF ToSet
  <2>2. {b \in S : b < 0} = {}
    <3>1. \A b \in S : b \in Nat
      OBVIOUS
    <3>2. \A b \in Nat : ~ (b < 0)
      OBVIOUS
    <3> QED BY <3>1, <3>2
  <2>3. << >> \in Q
    OBVIOUS
  <2> QED BY <2>1, <2>2, <2>3, <1>7
<1>9. ASSUME NEW n \in Nat, n \in U PROVE n + 1 \in U
  <2> DEFINE s == seen[n]
             t == seen[n + 1]
  <2>1. s \in Q /\ ToSet(s) = {b \in S : b < n}
    BY <1>9
  <2>2. CASE n \in S
    <3>1. t = Append(s, n)
      BY <1>7, <2>2
    <3> HIDE DEF s, t
    <3>2. t \in Q /\ ToSet(t) = ToSet(s) \cup {n}
      <4>1. /\ t \in Seq(Nat) /\ Len(t) = Len(s) + 1 /\ \A k \in 1 .. Len(s) : t[k] = s[k]
            /\ t[Len(s) + 1] = n
        BY <2>1, <3>1, AppendFacts
      <4>2. Len(s) \in Nat /\ DOMAIN s = 1 .. Len(s) /\ DOMAIN t = 1 .. Len(s) + 1
        BY <4>1, <2>1
      <4>3. ASSUME NEW x \in ToSet(t) PROVE x \in ToSet(s) \cup {n}
        <5>1. PICK k \in 1 .. Len(s) + 1 : x = t[k]
          BY <4>2 DEF ToSet
        <5>2. CASE k = Len(s) + 1
          BY <5>1, <5>2, <4>1
        <5>3. CASE k # Len(s) + 1
          <6>1. k \in 1 .. Len(s)
            <7> DEFINE L == Len(s)
            <7>1. L \in Nat /\ k \in 1 .. L + 1 /\ k # L + 1
              BY <4>2, <5>3
            <7> HIDE DEF L
            <7>2. k \in 1 .. L
              BY <7>1
            <7> QED BY <7>2 DEF L
          <6> QED BY <6>1, <5>1, <4>1, <4>2 DEF ToSet
        <5> QED BY <5>2, <5>3
      <4>4. ASSUME NEW x \in ToSet(s) \cup {n} PROVE x \in ToSet(t)
        <5>1. PICK k \in 1 .. Len(s) + 1 : x = t[k]
          <6>1. CASE x = n
            <7>1. Len(s) + 1 \in 1 .. Len(s) + 1
              <8>1. Len(s) \in Nat
                BY <4>2
              <8> QED BY ONLY <8>1
            <7> QED BY <6>1, <7>1, <4>1
          <6>2. CASE x \in ToSet(s)
            <7>1. PICK k \in 1 .. Len(s) : x = s[k]
              BY <6>2, <4>2 DEF ToSet
            <7>2. k \in 1 .. Len(s) + 1
              BY <4>2
            <7> QED BY <7>1, <7>2, <4>1
          <6> QED BY <6>1, <6>2
        <5> QED BY <5>1, <4>2 DEF ToSet
      <4>5. ToSet(t) = ToSet(s) \cup {n}
        BY <4>3, <4>4
      <4> QED BY <4>1, <4>5
    <3>3. {b \in S : b < n} \cup {n} = {b \in S : b < n + 1}
      <4>1. \A b \in S : b < n + 1 <=> b < n \/ b = n
        OBVIOUS
      <4> QED BY <4>1, <2>2
    <3>4. t \in Q /\ ToSet(t) = {b \in S : b < n + 1}
      BY <2>1, <3>2, <3>3
    <3> QED BY <3>4 DEF t
  <2>3. CASE n \notin S
    <3>1. t = s
      BY <1>7, <2>3
    <3>2. {b \in S : b < n} = {b \in S : b < n + 1}
      <4>1. \A b \in S : b < n + 1 <=> b < n
        BY <2>3
      <4> QED BY <4>1
    <3> QED BY <3>1, <3>2, <2>1
  <2> QED BY <2>2, <2>3
<1>10. FirstBit \in U
  <2> HIDE DEF U
  <2> QED BY <1>8, <1>9, Induction, FirstBitFacts
<1>11. {b \in S : b < FirstBit} = S
  OBVIOUS
<1> QED BY <1>6, <1>10, <1>11

(***************************************************************************)
(* The circuit before anything has been added to it.                       *)
(***************************************************************************)
LEMMA NewCircuitFacts ==
  ASSUME NEW inputs \in Seq(Nat), NEW latch \in Seq(Nat), NEW c, c = NewCircuit(inputs, latch)
  PROVE  /\ CircuitOK(c) /\ DOMAIN c.outputs = {} /\ DOMAIN c.next = {}
         /\ Variables(c.sources) = ToSet(inputs) \cup ToSet(latch)
<1> DEFINE s == inputs \o latch
<1>1. /\ c.sources = s /\ c.net = [gates |-> << >>, cache |-> {}]
      /\ c.outputs = << >> /\ c.next = << >>
      /\ DOMAIN c = {"sources", "net", "outputs", "next"}
  BY DEF NewCircuit
<1>2. /\ s \in Seq(Nat) /\ Len(s) = Len(inputs) + Len(latch)
      /\ \A n \in 1 .. Len(s) : s[n] = IF n =< Len(inputs) THEN inputs[n] ELSE latch[n - Len(inputs)]
  BY ConcatProperties
<1> HIDE DEF s
<1>3. ToSet(s) = ToSet(inputs) \cup ToSet(latch)
  <2>1. /\ Len(inputs) \in Nat /\ Len(latch) \in Nat /\ DOMAIN inputs = 1 .. Len(inputs)
        /\ DOMAIN latch = 1 .. Len(latch) /\ DOMAIN s = 1 .. Len(s)
    BY <1>2
  <2>2. ASSUME NEW n \in 1 .. Len(latch)
        PROVE  s[n + Len(inputs)] = latch[n] /\ n + Len(inputs) \in 1 .. Len(s)
    <3>1. /\ n + Len(inputs) \in 1 .. Len(s) /\ ~ (n + Len(inputs) =< Len(inputs))
          /\ (n + Len(inputs)) - Len(inputs) = n
      BY <1>2, <2>1
    <3> QED BY <3>1, <1>2
  <2>3. \A n \in 1 .. Len(inputs) : s[n] = inputs[n] /\ n \in 1 .. Len(s)
    BY <1>2, <2>1
  <2>4. \A n \in 1 .. Len(s) : s[n] \in ToSet(inputs) \cup ToSet(latch)
    <3>1. ASSUME NEW n \in 1 .. Len(s) PROVE s[n] \in ToSet(inputs) \cup ToSet(latch)
      <4>1. CASE n =< Len(inputs)
        <5>1. n \in 1 .. Len(inputs) /\ s[n] = inputs[n]
          BY <4>1, <1>2, <2>1
        <5> QED BY <5>1, <2>1 DEF ToSet
      <4>2. CASE ~ (n =< Len(inputs))
        <5>1. n - Len(inputs) \in 1 .. Len(latch) /\ s[n] = latch[n - Len(inputs)]
          BY <4>2, <1>2, <2>1
        <5> QED BY <5>1, <2>1 DEF ToSet
      <4> QED BY <4>1, <4>2
    <3> QED BY <3>1
  <2>5. ASSUME NEW x \in ToSet(inputs) \cup ToSet(latch) PROVE x \in ToSet(s)
    <3>1. CASE x \in ToSet(inputs)
      <4>1. PICK n \in 1 .. Len(inputs) : x = inputs[n]
        BY <3>1, <2>1 DEF ToSet
      <4> QED BY <4>1, <2>1, <2>3 DEF ToSet
    <3>2. CASE x \in ToSet(latch)
      <4>1. PICK n \in 1 .. Len(latch) : x = latch[n]
        BY <3>2, <2>1 DEF ToSet
      <4>2. s[n + Len(inputs)] = x /\ n + Len(inputs) \in DOMAIN s
        BY <4>1, <2>1, <2>2
      <4> QED BY <4>2 DEF ToSet
    <3> QED BY <3>1, <3>2
  <2>6. ToSet(s) \subseteq ToSet(inputs) \cup ToSet(latch)
    BY <2>1, <2>4 DEF ToSet
  <2> QED BY <2>5, <2>6
<1>4. NetOK(s, c.net)
  <2>1. /\ c.net.gates = << >> /\ c.net.cache = {} /\ c.net \in Nets
    <3>1. << >> \in Seq(Nat \X Nat)
      OBVIOUS
    <3> QED BY <3>1, <1>1 DEF Nets
  <2>2. Len(<< >>) = 0 /\ << >> \in Seq(Nat \X Nat)
    OBVIOUS
  <2>3. GatesOK(s, << >>)
    BY <2>2 DEF GatesOK
  <2> QED BY <2>1, <2>3 DEF NetOK
<1>5. DOMAIN c.outputs = {} /\ DOMAIN c.next = {}
  BY <1>1
<1>6. CircuitOK(c)
  BY <1>1, <1>2, <1>4, <1>5 DEF CircuitOK, Wired
<1> QED BY <1>1, <1>3, <1>5, <1>6 DEF Variables

(***************************************************************************)
(* What the circuit computes while it is built: an output or a latch that  *)
(* has been dealt with is the function of the rest that the remaining      *)
(* transitions agree with; an output of the winning region is the BDD it   *)
(* stands for.                                                             *)
(***************************************************************************)
Reads == (IF mode = "synthesis" THEN InBits ELSE InBits \cup OutBits) \cup Ys

RegionFunction(name) ==
  IF name = SafeOutput THEN Exist(Encoding, Zs) ELSE VectorEncoding(name[1], name[2])

OutputsLeft == IF pc = "outputs" THEN left ELSE {}

LatchesLeft == IF pc = "outputs" THEN Zs ELSE IF pc = "latches" THEN left ELSE {}

AgreedOutputs == IF pc = "outputs" THEN part ELSE Exist(encoding, Zs)

AgreedLatches == IF pc = "play" THEN Exist(encoding, Own) ELSE part

OutputsChosen ==
  /\ DOMAIN circuit.outputs = {<<"out", b>> : b \in OutBits \ OutputsLeft}
  /\ \A b \in OutBits \ OutputsLeft : \A x \in AgreedOutputs :
       b \in x <=> Says(circuit, circuit.outputs[<<"out", b>>], x \ OutBits)

RegionOutputsMade ==
  /\ DOMAIN circuit.outputs = RegionOutputs \ OutputsLeft
  /\ \A name \in RegionOutputs \ OutputsLeft :
       Computes(circuit.sources, circuit.net.gates, circuit.outputs[name], RegionFunction(name))

LatchesChosen ==
  /\ DOMAIN circuit.next = {z - 1 : z \in Zs \ LatchesLeft}
  /\ \A z \in Zs \ LatchesLeft : \A x \in AgreedLatches :
       z \in x <=> Says(circuit, circuit.next[z - 1], x \ Zs)

CircuitInv ==
  /\ CircuitOK(circuit)
  /\ pc = "explore" => DOMAIN circuit.next = {}
  /\ pc \in {"outputs", "latches", "play"} =>
       /\ Variables(circuit.sources) = Reads
       /\ mode = "synthesis" => OutputsChosen
       /\ mode = "winregion" => RegionOutputsMade
       /\ LatchesChosen

(* The candidates for a function are functions of the variables. *)
LEMMA CandidatesType ==
  ASSUME NEW r, NEW cube, NEW V, NEW b, \A x \in r : x \ cube \in SUBSET V,
         NEW f \in Candidates(r, b, V, cube)
  PROVE  f \in SUBSET SUBSET V
<1>1. \A x \in r : (x \ {b}) \ cube \in SUBSET V
  OBVIOUS
<1>2. Exist(RestrictTo(r, b), cube) \in SUBSET SUBSET V
  BY <1>1 DEF Exist, RestrictTo
<1>3. \A g : Not(V, g) \in SUBSET SUBSET V
  BY DEF Not
<1> QED BY <1>2, <1>3 DEF Candidates

(***************************************************************************)
(* What the circuit has to compute depends only on the game, the mode and  *)
(* what was explored.                                                      *)
(***************************************************************************)
LEMMA SameReads ==
  ASSUME UNCHANGED <<game, mode, explored>>
  PROVE  /\ Reads' = Reads /\ RegionOutputs' = RegionOutputs
         /\ \A name : RegionFunction(name)' = RegionFunction(name)
<1>1. /\ Ys' = Ys /\ Zs' = Zs /\ Encoding' = Encoding /\ UNCHANGED <<mode, bad>>
      /\ Bits' = Bits
  BY SameVariables DEF explored
<1>2. \A q, n : VectorEncoding(q, n)' = VectorEncoding(q, n)
  BY <1>1 DEF VectorEncoding, Code
<1>3. RegionOutputs' = RegionOutputs
  BY DEF RegionOutputs, vec_bits
<1>4. Reads' = Reads
  BY <1>1 DEF Reads
<1>5. \A name : RegionFunction(name)' = RegionFunction(name)
  BY <1>1, <1>2 DEF RegionFunction
<1> QED BY <1>3, <1>4, <1>5

(***************************************************************************)
(* Encode starts the outputs with all transitions.                         *)
(***************************************************************************)
LEMMA EncodeFunctions ==
  ASSUME ExplorationInv, Encode
  PROVE  FixedInv' /\ CircuitInv'
<1>1. /\ encoding' = Encoding /\ part' = Exist(Encoding, Zs) /\ pc' = "outputs"
      /\ left' = IF mode = "synthesis" THEN OutBits ELSE RegionOutputs
      /\ UNCHANGED <<game, mode, explored>>
  BY DEF Encode
<1>2. /\ Ys' = Ys /\ Zs' = Zs /\ Own' = Own /\ Encoding' = Encoding
      /\ Reads' = Reads /\ RegionOutputs' = RegionOutputs
  BY <1>1, SameVariables, SameReads
<1>3. mode \in {"synthesis", "winregion"} /\ mode' = mode
  BY <1>1, GameFacts DEF ExplorationInv, GameInv
<1>4. FixedInv'
  BY <1>1, <1>2, <1>3 DEF FixedInv, Projected, Exist
<1>5. /\ mapping_bits \in Nat /\ Bits \subseteq Nat
      /\ InBits \subseteq Nat /\ OutBits \subseteq Nat /\ Ys \subseteq Nat
  BY VariablesDiffer DEF ExplorationInv, StatesInv
<1> DEFINE inputs == IF mode = "synthesis" THEN InBits ELSE InBits \cup OutBits
           latch == [k \in 1 .. mapping_bits |-> Y(k - 1)]
<1>6. Sorted(inputs) \in Seq(Nat) /\ ToSet(Sorted(inputs)) = inputs
  <2>1. inputs \in SUBSET Nat /\ \A b \in inputs : b < FirstBit
    BY <1>5, FirstBitFacts
  <2> HIDE DEF inputs
  <2> QED BY <2>1, SortedFacts
<1>7. latch \in Seq(Nat) /\ ToSet(latch) = Ys
  <2>1. Bits = 0 .. mapping_bits - 1
    BY DEF Bits
  <2>2. \A k \in 1 .. mapping_bits : k - 1 \in Bits
    BY <2>1, <1>5
  <2>3. \A k \in Bits : k + 1 \in 1 .. mapping_bits /\ (k + 1) - 1 = k
    BY <2>1, <1>5
  <2>4. \A k \in 1 .. mapping_bits : Y(k - 1) \in Nat
    BY <2>2, <1>5 DEF Ys
  <2>5. latch \in Seq(Nat)
    BY <2>4, <1>5
  <2>6. \A y \in Ys : \E k \in 1 .. mapping_bits : y = latch[k]
    BY <2>3 DEF Ys
  <2>7. \A k \in 1 .. mapping_bits : latch[k] \in Ys
    BY <2>2 DEF Ys
  <2> QED BY <2>5, <2>6, <2>7 DEF ToSet
<1>8. circuit' = NewCircuit(Sorted(inputs), latch)
  BY DEF Encode
<1> HIDE DEF latch
<1>9. /\ CircuitOK(circuit') /\ DOMAIN circuit'.outputs = {} /\ DOMAIN circuit'.next = {}
      /\ Variables(circuit'.sources) = inputs \cup Ys
  <2> HIDE DEF inputs
  <2> QED BY <1>6, <1>7, <1>8, NewCircuitFacts
<1>10. Variables(circuit'.sources) = Reads'
  BY <1>2, <1>9 DEF Reads
<1>11. mode = "synthesis" => OutputsChosen'
  BY <1>1, <1>9 DEF OutputsChosen, OutputsLeft
<1>12. mode = "winregion" => RegionOutputsMade'
  BY <1>1, <1>2, <1>9 DEF RegionOutputsMade, OutputsLeft
<1>13. LatchesChosen'
  BY <1>1, <1>9 DEF LatchesChosen, LatchesLeft
<1>14. CircuitInv'
  BY <1>1, <1>3, <1>9, <1>10, <1>11, <1>12, <1>13 DEF CircuitInv
<1> QED BY <1>4, <1>14

(***************************************************************************)
(* FixOutput: the function chosen for b is what is left of the             *)
(* transitions, of which every state and input keeps one.                  *)
(***************************************************************************)
LEMMA FixOutputFunctions ==
  ASSUME ExplorationInv, FixedInv, CircuitInv, FixOutput
  PROVE  FixedInv' /\ CircuitInv'
<1> DEFINE b == Min(left)
           V == InBits \cup Ys
<1>1. /\ pc = "outputs" /\ mode = "synthesis" /\ left # {} /\ pc' = "outputs"
      /\ left' = left \ {b}
      /\ UNCHANGED <<game, mode, explored, encoding>>
  BY DEF FixOutput
<1>2. PICK f \in Candidates(part, b, V, OutBits) :
        circuit' = AddOutput(circuit, <<"out", b>>, f) /\ part' = Fix(part, b, f, OutBits)
  BY DEF FixOutput
<1>3. /\ encoding = Encoding /\ part \subseteq Exist(Encoding, Zs)
      /\ Exist(part, OutBits) = Projected(Encoding) /\ left \subseteq OutBits /\ Own = OutBits
  BY <1>1 DEF FixedInv, Own
<1>4. /\ Ys' = Ys /\ Zs' = Zs /\ Own' = Own /\ Encoding' = Encoding
      /\ Reads' = Reads /\ UNCHANGED mode
  BY <1>1, SameVariables, SameReads
<1>5. b \in left /\ b \in OutBits
  <2>1. left \in SUBSET Nat
    BY <1>3, SynthesisAssumption
  <2> QED BY <2>1, <1>1, <1>3, MinOfVariables
<1> HIDE DEF b
<1>6. \A x \in part : x \ OutBits \in SUBSET V
  BY <1>3, EncodingFacts
<1>7. Fix(part, b, f, OutBits) \subseteq part
      /\ Exist(Fix(part, b, f, OutBits), OutBits) = Exist(part, OutBits)
  <2> HIDE DEF V
  <2> QED BY <1>5, <1>6, FixKeeps
<1>8. FixedInv'
  BY <1>1, <1>2, <1>3, <1>4, <1>7 DEF FixedInv, Projected
<1>9. /\ CircuitOK(circuit) /\ Variables(circuit.sources) = V /\ OutputsChosen /\ LatchesChosen
  BY <1>1 DEF CircuitInv, Reads
<1>10. f \in SUBSET SUBSET V
  <2> HIDE DEF V
  <2> QED BY <1>6, CandidatesType
<1>11. /\ CircuitOK(circuit') /\ Extends(circuit, circuit')
       /\ DOMAIN circuit'.outputs = DOMAIN circuit.outputs \cup {<<"out", b>>}
       /\ circuit'.next = circuit.next
       /\ \A n \in DOMAIN circuit.outputs : n # <<"out", b>> => circuit'.outputs[n] = circuit.outputs[n]
       /\ Computes(circuit'.sources, circuit'.net.gates, circuit'.outputs[<<"out", b>>], f)
  <2>1. f \in SUBSET SUBSET Variables(circuit.sources)
    BY <1>9, <1>10
  <2> QED BY <2>1, <1>2, <1>9, AddOutputFacts
<1>12. Variables(circuit'.sources) = V /\ V = Reads'
  BY <1>1, <1>4, <1>9, <1>11 DEF Extends, Reads
<1>13. OutputsChosen'
  <2>1. OutBits \ left' = (OutBits \ left) \cup {b}
    BY <1>1, <1>5
  <2>2. DOMAIN circuit'.outputs = {<<"out", d>> : d \in OutBits \ left'}
    <3>1. DOMAIN circuit.outputs = {<<"out", d>> : d \in OutBits \ left}
      BY <1>1, <1>9 DEF OutputsChosen, OutputsLeft
    <3> QED BY <3>1, <2>1, <1>11
  <2>3. ASSUME NEW d \in OutBits \ left', NEW x \in part'
        PROVE  d \in x <=> Says(circuit', circuit'.outputs[<<"out", d>>], x \ OutBits)
    <3>1. x \in part /\ x \ OutBits \in SUBSET V
      BY <1>2, <1>6, <1>7
    <3>2. CASE d = b
      <4>1. d \in x <=> x \ OutBits \in f
        BY <1>2, <3>2 DEF Fix
      <4>2. x \ OutBits \in f <=> Says(circuit', circuit'.outputs[<<"out", b>>], x \ OutBits)
        BY <1>11, <1>12, <3>1 DEF Computes, Says
      <4> QED BY <3>2, <4>1, <4>2
    <3>3. CASE d # b
      <4>1. d \in OutBits \ left /\ <<"out", d>> # <<"out", b>>
        BY <2>1, <3>3
      <4>2. d \in x <=> Says(circuit, circuit.outputs[<<"out", d>>], x \ OutBits)
        BY <4>1, <3>1, <1>1, <1>9 DEF OutputsChosen, OutputsLeft, AgreedOutputs
      <4>3. <<"out", d>> \in DOMAIN circuit.outputs
        BY <4>1, <1>1, <1>9 DEF OutputsChosen, OutputsLeft
      <4>4. circuit'.outputs[<<"out", d>>] = circuit.outputs[<<"out", d>>]
        BY <4>1, <4>3, <1>11
      <4>5. Says(circuit', circuit.outputs[<<"out", d>>], x \ OutBits)
              <=> Says(circuit, circuit.outputs[<<"out", d>>], x \ OutBits)
        BY <4>3, <1>9, <1>11 DEF CircuitOK, Extends
      <4> QED BY <4>2, <4>4, <4>5
    <3> QED BY <3>2, <3>3
  <2> QED BY <2>2, <2>3, <1>1 DEF OutputsChosen, OutputsLeft, AgreedOutputs
<1>14. LatchesChosen'
  BY <1>1, <1>4, <1>9, <1>11 DEF LatchesChosen, LatchesLeft
<1>15. CircuitInv'
  BY <1>1, <1>4, <1>11, <1>12, <1>13, <1>14 DEF CircuitInv
<1> QED BY <1>8, <1>15

(***************************************************************************)
(* AddRegionOutput: another output of the winning region's circuit.        *)
(***************************************************************************)
LEMMA RegionFunctionType ==
  ASSUME ExplorationInv, mode = "winregion", NEW name
  PROVE  RegionFunction(name) \in SUBSET SUBSET Reads
<1>1. Exist(Encoding, Zs) \in SUBSET SUBSET Reads
  BY EncodingFacts DEF Reads
<1>2. \A n : Code(n) \subseteq Ys
  BY DEF Code, Ys
<1>3. \A t \in bad : t.in \subseteq InBits /\ t.out \subseteq OutBits
  BY SynthesisAssumption DEF ExplorationInv, BadInv
<1>4. \A q, n : VectorEncoding(q, n) \in SUBSET SUBSET Reads
  BY <1>2, <1>3 DEF VectorEncoding, Reads
<1> QED BY <1>1, <1>4 DEF RegionFunction

(***************************************************************************)
(* An output of the winning region circuit computes the BDD of that        *)
(* output.                                                                 *)
(***************************************************************************)
LEMMA AddRegionOutputFunctions ==
  ASSUME ExplorationInv, FixedInv, CircuitInv, AddRegionOutput
  PROVE  FixedInv' /\ CircuitInv'
<1> DEFINE name == CHOOSE n \in left : TRUE
           f == IF name = SafeOutput THEN part ELSE VectorEncoding(name[1], name[2])
<1>1. /\ pc = "outputs" /\ mode = "winregion" /\ left # {} /\ pc' = "outputs"
      /\ left' = left \ {name} /\ circuit' = AddOutput(circuit, name, f)
      /\ UNCHANGED <<game, mode, explored, encoding, part>>
  BY DEF AddRegionOutput
<1>2. /\ encoding = Encoding /\ part = Exist(Encoding, Zs) /\ left \subseteq RegionOutputs
  BY <1>1 DEF FixedInv
<1>3. name \in left /\ name \in RegionOutputs
  BY <1>1, <1>2
<1>4. f = RegionFunction(name)
  BY <1>2 DEF RegionFunction
<1> HIDE DEF name, f
<1>5. /\ Ys' = Ys /\ Zs' = Zs /\ Own' = Own /\ Encoding' = Encoding
      /\ Reads' = Reads /\ UNCHANGED mode /\ RegionOutputs' = RegionOutputs
      /\ \A n : RegionFunction(n)' = RegionFunction(n)
  BY <1>1, SameVariables, SameReads
<1>6. FixedInv'
  <2>1. left' \subseteq RegionOutputs
    BY <1>1, <1>2
  <2>2. Exist(part, Own) = Projected(Encoding)
    BY <1>1 DEF FixedInv
  <2> QED BY <2>1, <2>2, <1>1, <1>2, <1>5 DEF FixedInv, Projected
<1>7. /\ CircuitOK(circuit) /\ Variables(circuit.sources) = Reads
      /\ RegionOutputsMade /\ LatchesChosen
  BY <1>1 DEF CircuitInv
<1>8. /\ CircuitOK(circuit') /\ Extends(circuit, circuit')
      /\ DOMAIN circuit'.outputs = DOMAIN circuit.outputs \cup {name}
      /\ circuit'.next = circuit.next
      /\ \A n \in DOMAIN circuit.outputs : n # name => circuit'.outputs[n] = circuit.outputs[n]
      /\ Computes(circuit'.sources, circuit'.net.gates, circuit'.outputs[name], f)
  <2>1. f \in SUBSET SUBSET Variables(circuit.sources)
    BY <1>1, <1>4, <1>7, RegionFunctionType
  <2> QED BY <2>1, <1>1, <1>7, AddOutputFacts
<1>9. Variables(circuit'.sources) = Reads'
  BY <1>5, <1>7, <1>8 DEF Extends
<1>10. RegionOutputsMade'
  <2>1. RegionOutputs \ left' = (RegionOutputs \ left) \cup {name}
    BY <1>1, <1>3
  <2>2. DOMAIN circuit'.outputs = RegionOutputs \ left'
    <3>1. DOMAIN circuit.outputs = RegionOutputs \ left
      BY <1>1, <1>7 DEF RegionOutputsMade, OutputsLeft
    <3> QED BY <3>1, <2>1, <1>8
  <2>3. ASSUME NEW n \in RegionOutputs \ left'
        PROVE  Computes(circuit'.sources, circuit'.net.gates, circuit'.outputs[n], RegionFunction(n))
    <3>1. CASE n = name
      BY <3>1, <1>4, <1>8
    <3>2. CASE n # name
      <4>1. n \in DOMAIN circuit.outputs
            /\ Computes(circuit.sources, circuit.net.gates, circuit.outputs[n], RegionFunction(n))
        BY <3>2, <2>1, <1>1, <1>7 DEF RegionOutputsMade, OutputsLeft
      <4>2. circuit'.outputs[n] = circuit.outputs[n]
        BY <4>1, <3>2, <1>8
      <4>3. /\ circuit.outputs[n] \in Nat
            /\ circuit.outputs[n] < Free(circuit.sources, circuit.net.gates)
            /\ circuit'.outputs[n] \in Nat
            /\ circuit'.outputs[n] < Free(circuit'.sources, circuit'.net.gates)
        BY <4>1, <1>7, <1>8 DEF CircuitOK
      <4> QED BY <4>1, <4>2, <4>3, <1>8 DEF Computes, Extends, Says
    <3> QED BY <3>1, <3>2
  <2> QED BY <2>2, <2>3, <1>1, <1>5 DEF RegionOutputsMade, OutputsLeft
<1>11. LatchesChosen'
  BY <1>1, <1>5, <1>7, <1>8 DEF LatchesChosen, LatchesLeft
<1>12. CircuitInv'
  BY <1>1, <1>5, <1>8, <1>9, <1>10, <1>11 DEF CircuitInv
<1> QED BY <1>6, <1>12

(***************************************************************************)
(* What agrees with some of the projected transitions is projected to them. *)
(***************************************************************************)
Agreeing(X, C, p) == {x \in X : (x \ C) \in p}

(***************************************************************************)
(* The transitions that agree with a set of projected transitions project  *)
(* to exactly that set.                                                    *)
(***************************************************************************)
LEMMA AgreeingFacts ==
  ASSUME NEW X, NEW C, NEW p, p \subseteq Exist(X, C)
  PROVE  Agreeing(X, C, p) \subseteq X /\ Exist(Agreeing(X, C, p), C) = p
<1> DEFINE A == Agreeing(X, C, p)
<1>1. ASSUME NEW y \in p PROVE y \in Exist(A, C)
  <2>1. PICK x \in X : y = x \ C
    BY DEF Exist
  <2>2. x \in A
    BY <2>1 DEF Agreeing
  <2> QED BY <2>1, <2>2 DEF Exist
<1>2. ASSUME NEW y \in Exist(A, C) PROVE y \in p
  BY <1>2 DEF Exist, Agreeing
<1>3. A \subseteq X
  BY DEF Agreeing
<1> QED BY <1>1, <1>2, <1>3

(***************************************************************************)
(* OutputsDone: the transitions that the functions of the outputs agree    *)
(* with go on.                                                             *)
(***************************************************************************)
LEMMA OutputsDoneFunctions ==
  ASSUME ExplorationInv, FixedInv, CircuitInv, OutputsDone
  PROVE  FixedInv' /\ CircuitInv'
<1> DEFINE fixed == {x \in encoding : (x \ Zs) \in part}
<1>1. /\ pc = "outputs" /\ left = {} /\ encoding' = fixed
      /\ part' = (IF mode = "synthesis" THEN Exist(fixed, OutBits) ELSE fixed)
      /\ left' = Zs /\ pc' = "latches"
      /\ UNCHANGED <<game, mode, explored, circuit>>
  BY DEF OutputsDone
<1>2. /\ encoding = Encoding /\ part \subseteq Exist(Encoding, Zs)
      /\ Exist(part, Own) = Projected(Encoding)
      /\ mode = "winregion" => part = Exist(Encoding, Zs)
  BY <1>1 DEF FixedInv
<1>3. /\ Ys' = Ys /\ Zs' = Zs /\ Own' = Own /\ Encoding' = Encoding
      /\ Reads' = Reads /\ UNCHANGED mode /\ RegionOutputs' = RegionOutputs
      /\ \A n : RegionFunction(n)' = RegionFunction(n)
  BY <1>1, SameVariables, SameReads
<1>4. fixed \subseteq Encoding /\ Exist(fixed, Zs) = part
  <2>1. fixed = Agreeing(encoding, Zs, part) /\ part \subseteq Exist(encoding, Zs)
    BY <1>2 DEF Agreeing
  <2> HIDE DEF fixed
  <2>2. fixed \subseteq encoding /\ Exist(fixed, Zs) = part
    BY <2>1, AgreeingFacts
  <2> QED BY <2>2, <1>2
<1>5. part' = Exist(fixed, Own)
  BY <1>1 DEF Own, Exist
<1>6. FixedInv'
  <2>1. Projected(fixed) = Projected(Encoding)
    BY <1>2, <1>4 DEF Projected
  <2>2. Exist(Exist(fixed, Own), Zs) = Projected(fixed)
    BY ExistFacts DEF Projected
  <2>3. Projected(fixed)' = Projected(fixed)' /\ Projected(encoding)' = Projected(fixed)
        /\ Projected(Encoding)' = Projected(Encoding)
    BY <1>1, <1>3 DEF Projected
  <2> QED BY <2>1, <2>2, <2>3, <1>1, <1>3, <1>4, <1>5 DEF FixedInv
<1>7. /\ CircuitOK(circuit) /\ Variables(circuit.sources) = Reads
      /\ mode = "synthesis" => OutputsChosen
      /\ mode = "winregion" => RegionOutputsMade
      /\ LatchesChosen
  BY <1>1 DEF CircuitInv
<1>8. OutputsLeft = {} /\ OutputsLeft' = {} /\ AgreedOutputs' = AgreedOutputs
  BY <1>1, <1>3, <1>4 DEF OutputsLeft, AgreedOutputs
<1>9. mode = "synthesis" => OutputsChosen'
  BY <1>1, <1>7, <1>8 DEF OutputsChosen
<1>10. mode = "winregion" => RegionOutputsMade'
  BY <1>1, <1>3, <1>7, <1>8 DEF RegionOutputsMade
<1>11. LatchesChosen'
  BY <1>1, <1>3, <1>7 DEF LatchesChosen, LatchesLeft
<1>12. CircuitInv'
  BY <1>1, <1>3, <1>7, <1>9, <1>10, <1>11 DEF CircuitInv
<1> QED BY <1>6, <1>12

(***************************************************************************)
(* FixLatch, which is FixOutput for a latch; the latch of z is the one of  *)
(* the variable before it.                                                 *)
(***************************************************************************)
LEMMA FixLatchFunctions ==
  ASSUME ExplorationInv, FixedInv, CircuitInv, FixLatch
  PROVE  FixedInv' /\ CircuitInv'
<1> DEFINE b == Min(left)
<1>1. /\ pc = "latches" /\ left # {} /\ pc' = "latches"
      /\ left' = left \ {b}
      /\ UNCHANGED <<game, mode, explored, encoding>>
  BY DEF FixLatch
<1>2. PICK f \in Candidates(part, b, Variables(circuit.sources), Zs) :
        circuit' = AddLatch(circuit, b - 1, f) /\ part' = Fix(part, b, f, Zs)
  BY DEF FixLatch
<1>3. /\ encoding \subseteq Encoding /\ Projected(encoding) = Projected(Encoding)
      /\ part \subseteq Exist(encoding, Own)
      /\ Exist(part, Zs) = Projected(encoding) /\ left \subseteq Zs
  BY <1>1 DEF FixedInv
<1>4. /\ Ys' = Ys /\ Zs' = Zs /\ Own' = Own /\ Encoding' = Encoding
      /\ Reads' = Reads /\ UNCHANGED mode /\ RegionOutputs' = RegionOutputs
      /\ \A n : RegionFunction(n)' = RegionFunction(n)
  BY <1>1, SameVariables, SameReads
<1>5. Zs \subseteq Nat /\ InBits \subseteq Nat /\ OutBits \subseteq Nat
  BY VariablesDiffer DEF ExplorationInv, StatesInv
<1>6. b \in left /\ b \in Zs
  BY <1>1, <1>3, <1>5, MinOfVariables
<1> HIDE DEF b
<1>7. CircuitOK(circuit) /\ Variables(circuit.sources) = Reads /\ LatchesChosen
      /\ (mode = "synthesis" => OutputsChosen) /\ (mode = "winregion" => RegionOutputsMade)
  BY <1>1 DEF CircuitInv
<1>8. \A x \in part : x \ Zs \in SUBSET Reads
  <2>1. ASSUME NEW x \in part PROVE x \ Zs \in SUBSET Reads
    <3>1. PICK y \in Encoding : x = y \ Own
      BY <1>3 DEF Exist
    <3>2. y \subseteq InBits \cup OutBits \cup Ys \cup Zs
      BY EncodingFacts
    <3> QED BY <3>1, <3>2 DEF Own, Reads
  <2> QED BY <2>1
<1>9. /\ Fix(part, b, f, Zs) \subseteq part
      /\ Exist(Fix(part, b, f, Zs), Zs) = Exist(part, Zs)
      /\ f \in SUBSET SUBSET Reads
  <2>1. f \in Candidates(part, b, Reads, Zs)
    BY <1>2, <1>7
  <2> HIDE DEF Reads
  <2> QED BY <2>1, <1>6, <1>8, FixKeeps, CandidatesType
<1>10. FixedInv'
  <2>1. Projected(encoding)' = Projected(encoding) /\ Projected(Encoding)' = Projected(Encoding)
    BY <1>1, <1>4 DEF Projected
  <2> QED BY <2>1, <1>1, <1>2, <1>3, <1>4, <1>9 DEF FixedInv
<1>11. /\ CircuitOK(circuit') /\ Extends(circuit, circuit')
       /\ DOMAIN circuit'.next = DOMAIN circuit.next \cup {b - 1}
       /\ circuit'.outputs = circuit.outputs
       /\ \A n \in DOMAIN circuit.next : n # b - 1 => circuit'.next[n] = circuit.next[n]
       /\ Computes(circuit'.sources, circuit'.net.gates, circuit'.next[b - 1], f)
  <2>1. f \in SUBSET SUBSET Variables(circuit.sources)
    BY <1>7, <1>9
  <2> QED BY <2>1, <1>2, <1>7, AddLatchFacts
<1>12. Variables(circuit'.sources) = Reads /\ Variables(circuit'.sources) = Reads'
  BY <1>4, <1>7, <1>11 DEF Extends
<1>13. /\ LatchesLeft = left /\ LatchesLeft' = left' /\ AgreedLatches = part /\ AgreedLatches' = part'
       /\ OutputsLeft = {} /\ OutputsLeft' = {} /\ AgreedOutputs' = AgreedOutputs
  BY <1>1, <1>4 DEF LatchesLeft, AgreedLatches, OutputsLeft, AgreedOutputs
<1>14. LatchesChosen'
  <2>1. Zs \ left' = (Zs \ left) \cup {b}
    BY <1>1, <1>6
  <2>2. DOMAIN circuit'.next = {z - 1 : z \in Zs \ left'}
    <3>1. DOMAIN circuit.next = {z - 1 : z \in Zs \ left}
      BY <1>7, <1>13 DEF LatchesChosen
    <3> QED BY <3>1, <2>1, <1>11
  <2>3. ASSUME NEW z \in Zs \ left', NEW x \in part'
        PROVE  z \in x <=> Says(circuit', circuit'.next[z - 1], x \ Zs)
    <3>1. x \in part /\ x \ Zs \in SUBSET Reads
      BY <1>2, <1>8, <1>9
    <3>2. CASE z = b
      <4>1. z \in x <=> x \ Zs \in f
        BY <1>2, <3>2 DEF Fix
      <4>2. x \ Zs \in f <=> Says(circuit', circuit'.next[b - 1], x \ Zs)
        BY <1>11, <1>12, <3>1 DEF Computes, Says
      <4> QED BY <3>2, <4>1, <4>2
    <3>3. CASE z # b
      <4>1. z \in Zs \ left /\ z - 1 # b - 1
        BY <2>1, <3>3, <1>5, <1>6
      <4>2. z \in x <=> Says(circuit, circuit.next[z - 1], x \ Zs)
        BY <4>1, <3>1, <1>7, <1>13 DEF LatchesChosen
      <4>3. z - 1 \in DOMAIN circuit.next
        BY <4>1, <1>7, <1>13 DEF LatchesChosen
      <4>4. circuit'.next[z - 1] = circuit.next[z - 1]
        BY <4>1, <4>3, <1>11
      <4>5. Says(circuit', circuit.next[z - 1], x \ Zs) <=> Says(circuit, circuit.next[z - 1], x \ Zs)
        BY <4>3, <1>7, <1>11 DEF CircuitOK, Extends
      <4> QED BY <4>2, <4>4, <4>5
    <3> QED BY <3>2, <3>3
  <2> QED BY <2>2, <2>3, <1>4, <1>13 DEF LatchesChosen
<1>15. mode = "synthesis" => OutputsChosen'
  <2>1. SUFFICES ASSUME mode = "synthesis" PROVE OutputsChosen'
    OBVIOUS
  <2>2. DOMAIN circuit.outputs = {<<"out", d>> : d \in OutBits}
        /\ \A d \in OutBits : \A x \in AgreedOutputs :
             d \in x <=> Says(circuit, circuit.outputs[<<"out", d>>], x \ OutBits)
    BY <2>1, <1>7, <1>13 DEF OutputsChosen
  <2>3. ASSUME NEW d \in OutBits, NEW x \in AgreedOutputs
        PROVE  d \in x <=> Says(circuit', circuit'.outputs[<<"out", d>>], x \ OutBits)
    <3>1. <<"out", d>> \in DOMAIN circuit.outputs
      BY <2>2
    <3>2. Says(circuit', circuit.outputs[<<"out", d>>], x \ OutBits)
            <=> Says(circuit, circuit.outputs[<<"out", d>>], x \ OutBits)
      BY <3>1, <1>7, <1>11 DEF CircuitOK, Extends
    <3> QED BY <3>2, <2>2, <1>11
  <2> QED BY <2>2, <2>3, <1>11, <1>13 DEF OutputsChosen
<1>16. mode = "winregion" => RegionOutputsMade'
  <2>1. SUFFICES ASSUME mode = "winregion" PROVE RegionOutputsMade'
    OBVIOUS
  <2>2. DOMAIN circuit.outputs = RegionOutputs
        /\ \A n \in RegionOutputs :
             Computes(circuit.sources, circuit.net.gates, circuit.outputs[n], RegionFunction(n))
    BY <2>1, <1>7, <1>13 DEF RegionOutputsMade
  <2>3. ASSUME NEW n \in RegionOutputs
        PROVE  Computes(circuit'.sources, circuit'.net.gates, circuit'.outputs[n], RegionFunction(n))
    <3>1. /\ circuit.outputs[n] \in Nat
          /\ circuit.outputs[n] < Free(circuit.sources, circuit.net.gates)
          /\ circuit'.outputs[n] \in Nat
          /\ circuit'.outputs[n] < Free(circuit'.sources, circuit'.net.gates)
      BY <2>2, <1>7, <1>11 DEF CircuitOK
    <3> QED BY <3>1, <2>2, <1>11 DEF Computes, Extends, Says
  <2> QED BY <2>2, <2>3, <1>4, <1>11, <1>13 DEF RegionOutputsMade
<1>17. CircuitInv'
  BY <1>1, <1>4, <1>11, <1>12, <1>14, <1>15, <1>16 DEF CircuitInv
<1> QED BY <1>10, <1>17

(***************************************************************************)
(* LatchesDone: the transitions that all functions agree with are those    *)
(* the circuit takes.                                                      *)
(***************************************************************************)
LEMMA LatchesDoneFunctions ==
  ASSUME ExplorationInv, FixedInv, CircuitInv, LatchesDone
  PROVE  FixedInv' /\ CircuitInv'
<1> DEFINE kept == {x \in encoding : x \ Own \in part}
<1>1. /\ pc = "latches" /\ left = {} /\ pc' = "play"
      /\ encoding' = kept
      /\ UNCHANGED <<game, mode, explored, part, left, circuit>>
  BY DEF LatchesDone, Own
<1>2. /\ encoding \subseteq Encoding /\ Projected(encoding) = Projected(Encoding)
      /\ part \subseteq Exist(encoding, Own) /\ Exist(part, Zs) = Projected(encoding)
  BY <1>1 DEF FixedInv
<1>3. /\ Ys' = Ys /\ Zs' = Zs /\ Own' = Own /\ Encoding' = Encoding
      /\ Reads' = Reads /\ UNCHANGED mode /\ RegionOutputs' = RegionOutputs
      /\ \A n : RegionFunction(n)' = RegionFunction(n)
  BY <1>1, SameVariables, SameReads
<1>4. kept \subseteq encoding /\ Exist(kept, Own) = part
  <2>1. kept = Agreeing(encoding, Own, part)
    BY DEF Agreeing
  <2> HIDE DEF kept
  <2> QED BY <2>1, <1>2, AgreeingFacts
<1>5. FixedInv'
  <2>1. Projected(kept) = Exist(Exist(kept, Own), Zs)
    BY ExistFacts DEF Projected
  <2>2. Projected(encoding)' = Projected(kept) /\ Projected(Encoding)' = Projected(Encoding)
    BY <1>1, <1>3 DEF Projected
  <2> QED BY <2>1, <2>2, <1>1, <1>2, <1>3, <1>4 DEF FixedInv
<1>6. /\ CircuitOK(circuit) /\ Variables(circuit.sources) = Reads
      /\ mode = "synthesis" => OutputsChosen
      /\ mode = "winregion" => RegionOutputsMade
      /\ LatchesChosen
  BY <1>1 DEF CircuitInv
<1>7. /\ OutputsLeft = {} /\ OutputsLeft' = {} /\ LatchesLeft = {} /\ LatchesLeft' = {}
      /\ AgreedLatches = part /\ AgreedLatches' = part
      /\ AgreedOutputs' \subseteq AgreedOutputs
  BY <1>1, <1>3, <1>4 DEF OutputsLeft, LatchesLeft, AgreedLatches, AgreedOutputs, Exist
<1>8. mode = "synthesis" => OutputsChosen'
  BY <1>1, <1>6, <1>7 DEF OutputsChosen
<1>9. mode = "winregion" => RegionOutputsMade'
  BY <1>1, <1>3, <1>6, <1>7 DEF RegionOutputsMade
<1>10. LatchesChosen'
  BY <1>1, <1>3, <1>6, <1>7 DEF LatchesChosen
<1>11. CircuitInv'
  BY <1>1, <1>3, <1>6, <1>8, <1>9, <1>10 DEF CircuitInv
<1> QED BY <1>5, <1>11
(***************************************************************************)
(* Every step keeps what the functions mean.                               *)
(***************************************************************************)
LEMMA FunctionsInit ==
  ASSUME Init
  PROVE  FixedInv /\ CircuitInv
<1>1. pc = "explore" /\ circuit = NewCircuit(<< >>, << >>)
  BY DEF Init
<1>2. << >> \in Seq(Nat)
  OBVIOUS
<1>3. CircuitOK(circuit) /\ DOMAIN circuit.next = {}
  BY <1>1, <1>2, NewCircuitFacts
<1>4. FixedInv
  BY <1>1 DEF FixedInv
<1> QED BY <1>1, <1>3, <1>4 DEF CircuitInv

(***************************************************************************)
(* Steps that leave the relation and the circuit alone keep both           *)
(* invariants.                                                             *)
(***************************************************************************)
LEMMA SameFunctions ==
  ASSUME ExplorationInv, FixedInv, CircuitInv,
         UNCHANGED <<game, mode, pc, explored, encoding, part, left, circuit>>
  PROVE  FixedInv' /\ CircuitInv'
<1>1. /\ Ys' = Ys /\ Zs' = Zs /\ Own' = Own /\ Encoding' = Encoding
      /\ Reads' = Reads /\ RegionOutputs' = RegionOutputs
      /\ \A n : RegionFunction(n)' = RegionFunction(n)
  BY SameVariables, SameReads
<1>2. FixedInv'
  BY <1>1 DEF FixedInv, Projected
<1>3. /\ OutputsLeft' = OutputsLeft /\ LatchesLeft' = LatchesLeft
      /\ AgreedOutputs' = AgreedOutputs /\ AgreedLatches' = AgreedLatches
  BY <1>1 DEF OutputsLeft, LatchesLeft, AgreedOutputs, AgreedLatches
<1>4. OutputsChosen' <=> OutputsChosen
  BY <1>3 DEF OutputsChosen
<1>5. RegionOutputsMade' <=> RegionOutputsMade
  BY <1>1, <1>3 DEF RegionOutputsMade
<1>6. LatchesChosen' <=> LatchesChosen
  BY <1>1, <1>3 DEF LatchesChosen
<1> QED BY <1>1, <1>2, <1>4, <1>5, <1>6 DEF CircuitInv

(* Every step keeps the two invariants of the construction. *)
LEMMA FunctionsStep ==
  ASSUME ExplorationInv, FixedInv, CircuitInv, [Next]_vars
  PROVE  FixedInv' /\ CircuitInv'
<1>1. CASE pc = "explore" /\ pc' = "explore" /\ circuit' = circuit
  BY <1>1 DEF FixedInv, CircuitInv
<1>2. CASE Pop
  BY <1>1, <1>2 DEF Pop
<1>3. ASSUME NEW i \in Inputs, NEW o \in Outputs, Explore(i, o)
      PROVE  FixedInv' /\ CircuitInv'
  BY <1>1, <1>3 DEF Explore
<1>4. CASE ExploreAll
  BY <1>1, <1>4 DEF ExploreAll
<1>5. CASE Encode
  BY <1>5, EncodeFunctions
<1>14. CASE Abort
  BY <1>14 DEF Abort, FixedInv, CircuitInv
<1>6. CASE FixOutput
  BY <1>6, FixOutputFunctions
<1>7. CASE AddRegionOutput
  BY <1>7, AddRegionOutputFunctions
<1>8. CASE OutputsDone
  BY <1>8, OutputsDoneFunctions
<1>9. CASE FixLatch
  BY <1>9, FixLatchFunctions
<1>10. CASE LatchesDone
  BY <1>10, LatchesDoneFunctions
<1>11. ASSUME NEW i \in Inputs, Play(i)
       PROVE  FixedInv' /\ CircuitInv'
  BY <1>11, SameFunctions DEF Play, Move
<1>12. ASSUME NEW i \in Inputs, NEW o \in Outputs, PlayLetter(i, o)
       PROVE  FixedInv' /\ CircuitInv'
  BY <1>12, SameFunctions DEF PlayLetter, Move
<1>13. CASE UNCHANGED vars \/ Aborted
  BY <1>13, SameFunctions DEF vars, Aborted
<1> QED BY <1>2, <1>3, <1>4, <1>5, <1>6, <1>7, <1>8, <1>9, <1>10, <1>11, <1>12, <1>13, <1>14
    DEF Next, Exploration

FunctionsInv == ExplorationInv /\ FixedInv /\ CircuitInv

(***************************************************************************)
(* The invariants of the exploration and of the construction hold in every *)
(* reachable state.                                                        *)
(***************************************************************************)
LEMMA FunctionsAlways == Spec => []FunctionsInv
<1>1. Init => FunctionsInv
  BY ExplorationInit, FunctionsInit DEF FunctionsInv
<1>2. FunctionsInv /\ [Next]_vars => FunctionsInv'
  BY ExplorationStep, FunctionsStep DEF FunctionsInv
<1> QED BY <1>1, <1>2, PTL DEF Spec

(***************************************************************************)
(* Choosing functions never blocks: the transitions that are left still    *)
(* answer every input of every state (or keep all letters of the winning   *)
(* region) that those of the exploration answered.                         *)
(***************************************************************************)
LEMMA FixedImpliesNothingLost ==
  ASSUME ExplorationInv, FixedInv
  PROVE  NothingLost
<1> DEFINE kept == IF mode = "synthesis" THEN InBits \cup Ys ELSE InBits \cup OutBits \cup Ys
<1>1. SUFFICES ASSUME pc \in {"latches", "play"}
               PROVE  encoding \subseteq Encoding
                      /\ {x \cap kept : x \in encoding} = {x \cap kept : x \in Encoding}
  BY DEF NothingLost
<1>2. encoding \subseteq Encoding /\ Projected(encoding) = Projected(Encoding)
  BY <1>1 DEF FixedInv
<1>3. ASSUME NEW x \in Encoding PROVE x \cap kept = (x \ Zs) \ Own
  <2>1. x \subseteq InBits \cup OutBits \cup Ys \cup Zs
    BY EncodingFacts
  <2>2. /\ InBits \cap OutBits = {} /\ Ys \cap Zs = {}
        /\ (InBits \cup OutBits) \cap (Ys \cup Zs) = {}
    BY VariablesDiffer DEF ExplorationInv, StatesInv
  <2>3. CASE mode = "synthesis"
    BY <2>1, <2>2, <2>3 DEF Own
  <2>4. CASE mode # "synthesis"
    BY <2>1, <2>2, <2>4 DEF Own
  <2> QED BY <2>3, <2>4
<1>4. Projected(encoding) = {(x \ Zs) \ Own : x \in encoding}
      /\ Projected(Encoding) = {(x \ Zs) \ Own : x \in Encoding}
  BY DEF Projected, Exist
<1> HIDE DEF kept
<1>5. {x \cap kept : x \in Encoding} = {(x \ Zs) \ Own : x \in Encoding}
  BY <1>3
<1>6. {x \cap kept : x \in encoding} = {(x \ Zs) \ Own : x \in encoding}
  BY <1>2, <1>3
<1> QED BY <1>2, <1>4, <1>5, <1>6

(***************************************************************************)
(* NothingLost, for every game and with no assumption on K: fixing one     *)
(* output or latch function after the other never removes the last answer  *)
(* to a state and input, which is what synthesize() relies on when it      *)
(* conjoins each function into the encoding.                               *)
(***************************************************************************)
THEOREM NothingIsLost == Spec => []NothingLost
<1>1. FunctionsInv => NothingLost
  BY FixedImpliesNothingLost DEF FunctionsInv
<1> QED BY <1>1, FunctionsAlways, PTL

(***************************************************************************)
(* What is left of the type invariant: 0 is only in states_todo until it   *)
(* is taken from it for the first time, and the play stays in its types.   *)
(***************************************************************************)
TodoInv == todo \in Seq(1 .. Len(states) - 1) \/ (todo = <<0>> /\ rest = {})

PlayTypes ==
  /\ latches \subseteq Ys /\ v \in Vectors
  /\ pc # "play" => latches = {} /\ v = aut.init

(* The worklist starts with the first state only. *)
LEMMA TodoInit ==
  ASSUME Init
  PROVE  TodoInv
BY DEF Init, TodoInv

(* A state enters the worklist once, when it is found. *)
LEMMA TodoStep ==
  ASSUME ExplorationInv, TodoInv, [Next]_vars
  PROVE  TodoInv'
<1> DEFINE L == Len(states)
<1>1. states # << >> /\ L \in Nat /\ L # 0
  BY DEF ExplorationInv, StatesInv
<1>2. CASE Pop
  <2>1. todo # << >> /\ todo' = Front(todo) /\ states' = states
    BY <1>2 DEF Pop
  <2>2. CASE todo \in Seq(1 .. L - 1)
    <3>1. Front(todo) \in Seq(1 .. L - 1)
      BY <2>1, <2>2, FrontFacts
    <3> QED BY <3>1, <2>1 DEF TodoInv
  <2>3. CASE todo = <<0>>
    <3>1. Front(<<0>>) = << >>
      BY DEF Front
    <3>2. << >> \in Seq(1 .. L - 1)
      OBVIOUS
    <3> QED BY <3>1, <3>2, <2>1, <2>3 DEF TodoInv
  <2> QED BY <2>2, <2>3 DEF TodoInv
<1>3. ASSUME NEW w, NewState(w), rest # {}
      PROVE  TodoInv'
  <2>1. states' = Append(states, w) /\ todo' = Append(todo, L)
    BY <1>3 DEF NewState
  <2>2. Len(states') = L + 1
    <3>1. states \in Seq(game.region)
      BY DEF ExplorationInv, StatesInv
    <3> QED BY <3>1, <2>1
  <2>3. todo \in Seq(1 .. L - 1)
    BY <1>3 DEF TodoInv
  <2>4. todo \in Seq(1 .. L) /\ L \in 1 .. L
    <3>1. 1 .. L - 1 \subseteq 1 .. L /\ L \in 1 .. L
      BY <1>1
    <3> QED BY <3>1, <2>3, SeqInLarger
  <2>5. todo' \in Seq(1 .. L)
    BY <2>1, <2>4, AppendFacts
  <2>6. Len(states') - 1 = L
    BY <2>2, <1>1
  <2> QED BY <2>5, <2>6 DEF TodoInv
<1>4. ASSUME UNCHANGED <<states, todo>>, rest' \subseteq rest
      PROVE  TodoInv'
  BY <1>4 DEF TodoInv
<1>5. ASSUME NEW i \in Inputs, NEW o \in Outputs, Explore(i, o)
      PROVE  TodoInv'
  <2>1. rest # {} /\ rest' \subseteq rest
    BY <1>5 DEF Explore
  <2>2. UNCHANGED <<states, todo>> \/ \E w : NewState(w)
    BY <1>5 DEF Explore
  <2> QED BY <2>1, <2>2, <1>3, <1>4
<1>6. CASE ExploreAll
  <2>1. rest # {} /\ rest' \subseteq rest
    BY <1>6 DEF ExploreAll
  <2>2. UNCHANGED <<states, todo>> \/ \E w : NewState(w)
    BY <1>6 DEF ExploreAll
  <2> QED BY <2>1, <2>2, <1>3, <1>4
<1>7. CASE Abort \/ Encode \/ FixOutput \/ AddRegionOutput \/ OutputsDone \/ FixLatch \/ LatchesDone
  BY <1>7, <1>4
  DEF Abort, Encode, FixOutput, AddRegionOutput, OutputsDone, FixLatch, LatchesDone, explored
<1>8. ASSUME NEW i \in Inputs, Play(i)
      PROVE  TodoInv'
  BY <1>8, <1>4 DEF Play, Move, explored
<1>9. ASSUME NEW i \in Inputs, NEW o \in Outputs, PlayLetter(i, o)
      PROVE  TodoInv'
  BY <1>9, <1>4 DEF PlayLetter, Move, explored
<1>10. CASE UNCHANGED vars \/ Aborted
  BY <1>10, <1>4 DEF vars, explored, Aborted
<1> QED BY <1>2, <1>5, <1>6, <1>7, <1>8, <1>9, <1>10 DEF Next, Exploration

(***************************************************************************)
(* What a circuit answers is a set of outputs, and its latches stand for   *)
(* bits of a state.                                                        *)
(***************************************************************************)
LEMMA AnswerTypes ==
  ASSUME ExplorationInv, CircuitInv, pc = "play", NEW x
  PROVE  /\ LatchesOn(circuit, x) \subseteq Ys
         /\ mode = "synthesis" => {name[2] : name \in OutputsOn(circuit, x)} \in Outputs
<1>1. DOMAIN circuit.next = {z - 1 : z \in Zs} /\ (mode = "synthesis" => OutputsChosen)
  BY DEF CircuitInv, LatchesChosen, LatchesLeft
<1>2. {z - 1 : z \in Zs} = Ys
  <2>1. Bits \subseteq Nat /\ FirstBit \in Nat
    BY VariablesDiffer, FirstBitFacts DEF ExplorationInv, StatesInv
  <2>2. \A k \in Bits : Z(k) - 1 = Y(k)
    BY <2>1 DEF Y, Z
  <2> QED BY <2>2 DEF Ys, Zs
<1>3. LatchesOn(circuit, x) \subseteq DOMAIN circuit.next
  BY DEF LatchesOn
<1>4. OutputsOn(circuit, x) \subseteq DOMAIN circuit.outputs
  BY DEF OutputsOn
<1>5. ASSUME mode = "synthesis" PROVE {name[2] : name \in OutputsOn(circuit, x)} \in Outputs
  <2>1. DOMAIN circuit.outputs = {<<"out", b>> : b \in OutBits}
    BY <1>1, <1>5 DEF OutputsChosen, OutputsLeft
  <2>2. \A name \in DOMAIN circuit.outputs : name[2] \in OutBits
    BY <2>1
  <2> QED BY <2>2, <1>4, SynthesisAssumption
<1> QED BY <1>1, <1>2, <1>3, <1>5

(* No letter has been played when the program starts. *)
LEMMA PlayTypesInit ==
  ASSUME Init
  PROVE  PlayTypes
<1>1. game \in Solved /\ v = aut.init /\ latches = {}
  BY DEF Init
<1> QED BY <1>1, GameFacts DEF PlayTypes, aut

(* Playing the circuit keeps the types of what is played. *)
LEMMA PlayTypesStep ==
  ASSUME FunctionsInv, PlayTypes, [Next]_vars
  PROVE  PlayTypes'
<1>1. game \in Solved /\ aut = game.aut
  BY DEF FunctionsInv, ExplorationInv, GameInv, aut
<1>2. ASSUME pc # "play", UNCHANGED <<game, latches, v>> PROVE PlayTypes'
  BY <1>2 DEF PlayTypes, aut
<1>3. CASE Exploration
  <2>1. pc # "play" /\ UNCHANGED <<game, latches, v>>
    BY <1>3 DEF Exploration, Pop, Explore, ExploreAll, Encode, Abort
  <2> QED BY <2>1, <1>2
<1>4. CASE FixOutput \/ AddRegionOutput \/ OutputsDone \/ FixLatch \/ LatchesDone
  <2>1. pc # "play" /\ UNCHANGED <<game, latches, v>>
    BY <1>4 DEF FixOutput, AddRegionOutput, OutputsDone, FixLatch, LatchesDone
  <2> QED BY <2>1, <1>2
<1>5. ASSUME NEW i \in Inputs, NEW o \in Outputs, NEW read, Move(i, o, read), pc = "play"
      PROVE  PlayTypes'
  <2>1. UNCHANGED <<game, mode, pc, explored>> /\ latches' = LatchesOn(circuit, read)
        /\ v' = Forward(aut, v, i, o, game.K)
    BY <1>5 DEF Move
  <2>2. v' \in Vectors
    BY <2>1, <1>1, GameFacts, ForwardType DEF PlayTypes
  <2>3. latches' \subseteq Ys /\ Ys' = Ys
    BY <2>1, <1>5, AnswerTypes, SameVariables DEF FunctionsInv
  <2> QED BY <2>1, <2>2, <2>3, <1>5 DEF PlayTypes
<1>6. ASSUME NEW i \in Inputs, Play(i)
      PROVE  PlayTypes'
  <2>1. OutputOf(i) \in Outputs
    BY <1>6, AnswerTypes DEF Play, FunctionsInv, OutputOf
  <2> QED BY <2>1, <1>5, <1>6 DEF Play
<1>7. ASSUME NEW i \in Inputs, NEW o \in Outputs, PlayLetter(i, o)
      PROVE  PlayTypes'
  BY <1>5, <1>7 DEF PlayLetter
<1>8. CASE UNCHANGED vars \/ Aborted
  <2>1. UNCHANGED <<game, mode, pc, explored, latches, v>>
    BY <1>8 DEF vars, Aborted
  <2>2. Ys' = Ys /\ aut' = aut
    BY <2>1, SameVariables
  <2> QED BY <2>1, <2>2 DEF PlayTypes
<1> QED BY <1>3, <1>4, <1>6, <1>7, <1>8 DEF Next

(* The invariants imply the types. *)
LEMMA FunctionsImplyTypes ==
  ASSUME FunctionsInv, TodoInv, PlayTypes
  PROVE  TypeOK
<1>1. ExplorationInv /\ CircuitInv
  BY DEF FunctionsInv
<1>2. mode \in game.modes /\ pc \in {"explore", "outputs", "latches", "play", "aborted"}
  BY <1>1 DEF ExplorationInv, GameInv
<1>3. states \in Seq(game.region) /\ src \in 0 .. Len(states) - 1 /\ rest \subseteq aut.allowed
  BY <1>1 DEF ExplorationInv, StatesInv, Ids
<1>4. todo \in Seq(1 .. Len(states) - 1) \cup {<<0>>}
  BY DEF TodoInv
<1>5. WellFormed(circuit)
  <2>1. GatesOK(circuit.sources, circuit.net.gates)
    BY <1>1 DEF CircuitInv, CircuitOK, NetOK
  <2>2. DOMAIN circuit.net.gates = 1 .. Len(circuit.net.gates)
    BY <2>1 DEF GatesOK
  <2> QED BY <2>1, <2>2 DEF GatesOK, WellFormed
<1> QED BY <1>2, <1>3, <1>4, <1>5 DEF TypeOK, PlayTypes

(***************************************************************************)
(* Synthesis keeps its types: states are elements of the region, the       *)
(* circuit is well formed (no gate is made twice, none is trivial, each    *)
(* reads smaller signals), latches and vectors of a play are what they     *)
(* should be.                                                              *)
(***************************************************************************)
TypesInv == FunctionsInv /\ TodoInv /\ PlayTypes

(* The invariants and the types hold in every reachable state. *)
LEMMA TypesAlways == Spec => []TypesInv
<1>1. Init => TypesInv
  BY ExplorationInit, FunctionsInit, TodoInit, PlayTypesInit DEF FunctionsInv, TypesInv
<1>2. TypesInv /\ [Next]_vars => TypesInv'
  BY ExplorationStep, FunctionsStep, TodoStep, PlayTypesStep DEF FunctionsInv, TypesInv
<1> QED BY <1>1, <1>2, PTL DEF Spec

(***************************************************************************)
(* TypeOK, for every game: the worklist holds states that were found,      *)
(* transitions go between them, and the circuit of aiger.hh is well formed *)
(* (each gate reads earlier signals only).                                 *)
(***************************************************************************)
THEOREM SynthesisTypeCorrect == Spec => []TypeOK
<1>1. TypesInv => TypeOK
  BY FunctionsImplyTypes DEF TypesInv
<1> QED BY <1>1, TypesAlways, PTL

(***************************************************************************)
(* The binary digits of a number, which the shifts define.                 *)
(***************************************************************************)
LEMMA ShiftedFacts ==
  ASSUME NEW n \in Nat
  PROVE  /\ Shifted(n) \in [Nat -> Nat] /\ Shifted(n)[0] = n
         /\ \A k \in Nat : Shifted(n)[k + 1] = Shifted(n)[k] \div 2
<1> DEFINE step == [p \in Nat \X Nat |-> p[2] \div 2]
           Eq(g) == g = [k \in Nat |-> IF k = 0 THEN n ELSE g[k - 1] \div 2]
           shifted == CHOOSE g : Eq(g)
<1>1. step \in [Nat \X Nat -> Nat]
  OBVIOUS
<1>2. PICK f \in [Nat -> Nat] : StepsFrom(f, n, step)
  <2> HIDE DEF step
  <2> QED BY <1>1, PrimitiveRecursion
<1>3. \A k \in Nat : f[k + 1] = f[k] \div 2
  BY <1>2 DEF StepsFrom
<1>4. Eq(f)
  <2>1. ASSUME NEW k \in Nat PROVE f[k] = IF k = 0 THEN n ELSE f[k - 1] \div 2
    <3>1. CASE k = 0
      BY <3>1, <1>2 DEF StepsFrom
    <3>2. CASE k # 0
      <4>1. k - 1 \in Nat /\ (k - 1) + 1 = k
        BY <3>2
      <4> QED BY <4>1, <3>2, <1>3
    <3> QED BY <3>1, <3>2
  <2> QED BY <2>1
<1>5. Eq(shifted)
  <2> HIDE DEF Eq
  <2> QED BY <1>4
<1>6. Shifted(n) = shifted
  BY DEF Shifted
<1>7. shifted[0] = n /\ \A k \in Nat : shifted[k + 1] = shifted[k] \div 2
  <2> HIDE DEF shifted
  <2>1. shifted[0] = n
    BY <1>5
  <2>2. ASSUME NEW k \in Nat PROVE shifted[k + 1] = shifted[k] \div 2
    <3>1. k + 1 \in Nat /\ k + 1 # 0 /\ (k + 1) - 1 = k
      OBVIOUS
    <3> QED BY <3>1, <1>5
  <2> QED BY <2>1, <2>2
<1>8. shifted \in [Nat -> Nat]
  <2> DEFINE T == {k \in Nat : shifted[k] \in Nat}
  <2> HIDE DEF shifted
  <2>1. 0 \in T
    BY <1>7
  <2>2. ASSUME NEW k \in Nat, k \in T PROVE k + 1 \in T
    BY <1>7, <2>2
  <2>3. Nat \subseteq T
    <3> HIDE DEF T
    <3> QED BY <2>1, <2>2, Induction
  <2> QED BY <2>3, <1>5
<1> HIDE DEF shifted
<1> QED BY <1>6, <1>7, <1>8

(***************************************************************************)
(* A number below 2^B has nothing left after B shifts.                     *)
(***************************************************************************)
LEMMA ShiftedBelow ==
  ASSUME NEW B \in Nat, NEW n \in Nat, n < PowerOf2[B], NEW k \in 0 .. B
  PROVE  Shifted(n)[k] < PowerOf2[B - k]
<1> DEFINE f == Shifted(n)
           P == PowerOf2
           T == {j \in Nat : j =< B => f[j] < P[B - j]}
<1>1. f \in [Nat -> Nat] /\ f[0] = n /\ \A j \in Nat : f[j + 1] = f[j] \div 2
  BY ShiftedFacts
<1>2. P \in [Nat -> Nat \ {0}] /\ \A j \in Nat : P[j + 1] = 2 * P[j]
  BY PowersOf2
<1>3. n < P[B]
  OBVIOUS
<1> HIDE DEF f, P
<1>4. 0 \in T
  BY <1>1, <1>3
<1>5. ASSUME NEW j \in Nat, j \in T PROVE j + 1 \in T
  <2>1. SUFFICES ASSUME j + 1 =< B PROVE f[j + 1] < P[B - (j + 1)]
    OBVIOUS
  <2>2. B - (j + 1) \in Nat /\ (B - (j + 1)) + 1 = B - j
    BY <2>1
  <2>3. P[B - j] = 2 * P[B - (j + 1)]
    BY <2>2, <1>2
  <2>4. f[j] \in Nat /\ f[j] < P[B - j] /\ P[B - (j + 1)] \in Nat
    BY <2>1, <2>2, <1>1, <1>2, <1>5
  <2>5. f[j + 1] = f[j] \div 2
    BY <1>1
  <2> QED BY <2>3, <2>4, <2>5
<1>6. k \in T
  <2> HIDE DEF T
  <2> QED BY <1>4, <1>5, Induction
<1> QED BY <1>6 DEF f, P

(* 0 has no bit. *)
LEMMA DigitsOfZero ==
  ASSUME NEW k \in Nat
  PROVE  ~ IsBitOf(k, 0)
<1> DEFINE f == Shifted(0)
           T == {j \in Nat : f[j] = 0}
<1>1. f[0] = 0 /\ \A j \in Nat : f[j + 1] = f[j] \div 2
  BY ShiftedFacts
<1> HIDE DEF f
<1>2. 0 \in T
  BY <1>1
<1>3. ASSUME NEW j \in Nat, j \in T PROVE j + 1 \in T
  BY <1>1, <1>3
<1>4. k \in T
  <2> HIDE DEF T
  <2> QED BY <1>2, <1>3, Induction
<1> QED BY <1>4 DEF f, IsBitOf

(***************************************************************************)
(* Numbers below 2^B are told apart by their first B digits.               *)
(***************************************************************************)
LEMMA DigitsDiffer ==
  ASSUME NEW B \in Nat, NEW n \in Nat, NEW m \in Nat, n < PowerOf2[B], m < PowerOf2[B],
         \A k \in 0 .. B - 1 : IsBitOf(k, n) <=> IsBitOf(k, m)
  PROVE  n = m
<1> DEFINE f == Shifted(n)
           g == Shifted(m)
           T == {j \in Nat : j =< B => f[B - j] = g[B - j]}
<1>1. f \in [Nat -> Nat] /\ f[0] = n /\ \A j \in Nat : f[j + 1] = f[j] \div 2
  BY ShiftedFacts
<1>2. g \in [Nat -> Nat] /\ g[0] = m /\ \A j \in Nat : g[j + 1] = g[j] \div 2
  BY ShiftedFacts
<1>3. \A k \in 0 .. B - 1 : f[k] % 2 = 1 <=> g[k] % 2 = 1
  BY DEF IsBitOf
<1>4. f[B] < 1 /\ g[B] < 1
  <2>1. B \in 0 .. B /\ B - B = 0
    OBVIOUS
  <2>2. Shifted(n)[B] < PowerOf2[B - B] /\ Shifted(m)[B] < PowerOf2[B - B]
    BY <2>1, ShiftedBelow
  <2>3. PowerOf2[B - B] = 1
    BY <2>1, PowersOf2
  <2> QED BY <2>2, <2>3
<1> HIDE DEF f, g
<1>5. 0 \in T
  BY <1>1, <1>2, <1>4
<1>6. ASSUME NEW j \in Nat, j \in T PROVE j + 1 \in T
  <2>1. SUFFICES ASSUME j + 1 =< B PROVE f[B - (j + 1)] = g[B - (j + 1)]
    OBVIOUS
  <2> DEFINE k == B - (j + 1)
  <2>2. k \in Nat /\ k \in 0 .. B - 1 /\ k + 1 = B - j
    BY <2>1
  <2> HIDE DEF k
  <2>3. f[k + 1] = g[k + 1]
    BY <2>1, <2>2, <1>6
  <2>4. f[k] \div 2 = g[k] \div 2 /\ f[k] \in Nat /\ g[k] \in Nat
    BY <2>2, <2>3, <1>1, <1>2
  <2>5. f[k] % 2 = 1 <=> g[k] % 2 = 1
    BY <2>2, <1>3
  <2> QED BY <2>4, <2>5 DEF k
<1>7. B \in T
  <2> HIDE DEF T
  <2> QED BY <1>5, <1>6, Induction
<1>8. B =< B /\ B - B = 0
  OBVIOUS
<1> QED BY <1>7, <1>8, <1>1, <1>2

(***************************************************************************)
(* The codes of two states are different, and that of the first is empty.  *)
(***************************************************************************)
LEMMA CodesDiffer ==
  ASSUME StatesInv, NEW n \in Ids, NEW m \in Ids, Code(n) = Code(m)
  PROVE  n = m
<1>1. /\ mapping_bits \in Nat /\ PowerOf2[mapping_bits] >= Len(states) /\ Bits \subseteq Nat
      /\ \A k, j \in Bits : Y(k) = Y(j) => k = j
  BY VariablesDiffer DEF StatesInv
<1>2. Len(states) \in Nat /\ PowerOf2[mapping_bits] \in Nat
  BY <1>1, PowersOf2 DEF StatesInv
<1>3. n \in Nat /\ m \in Nat /\ n < PowerOf2[mapping_bits] /\ m < PowerOf2[mapping_bits]
  BY <1>1, <1>2 DEF Ids
<1>4. ASSUME NEW k \in Bits, NEW j \in Nat PROVE Y(k) \in Code(j) <=> IsBitOf(k, j)
  BY <1>1 DEF Code
<1>5. \A k \in 0 .. mapping_bits - 1 : IsBitOf(k, n) <=> IsBitOf(k, m)
  BY <1>3, <1>4 DEF Bits
<1> QED BY <1>1, <1>3, <1>5, DigitsDiffer

(***************************************************************************)
(* The state numbered 0 is the one whose latches are all 0, the initial    *)
(* value of AIGER latches.                                                 *)
(***************************************************************************)
LEMMA CodeOfFirst ==
  ASSUME StatesInv
  PROVE  Code(0) = {}
<1>1. Bits \subseteq Nat
  BY VariablesDiffer DEF StatesInv
<1> QED BY <1>1, DigitsOfZero DEF Code

(***************************************************************************)
(* What is read of a letter, and the code of a transition.                 *)
(***************************************************************************)
ReadOf(n, i, o) == Code(n) \cup i \cup (IF mode = "synthesis" THEN {} ELSE o)

CodeOf(t) == Code(t.src) \cup t.in \cup t.out \cup PrimedCode(t.dst)

(***************************************************************************)
(* The parts of the code of a transition: source, input, output and        *)
(* destination.                                                            *)
(***************************************************************************)
LEMMA CodeParts ==
  ASSUME ExplorationInv, NEW t \in trans
  PROVE  /\ CodeOf(t) \in Encoding
         /\ (CodeOf(t) \ Zs) \ Own = ReadOf(t.src, t.in, t.out)
         /\ CodeOf(t) \ Zs = Code(t.src) \cup t.in \cup t.out
         /\ CodeOf(t) \cap OutBits = t.out /\ CodeOf(t) \cap Zs = PrimedCode(t.dst)
<1>1. /\ Code(t.src) \subseteq Ys /\ PrimedCode(t.dst) \subseteq Zs
      /\ t.in \subseteq InBits /\ t.out \subseteq OutBits
  BY EncodingFacts
<1>2. /\ InBits \cap OutBits = {} /\ Ys \cap Zs = {}
      /\ (InBits \cup OutBits) \cap (Ys \cup Zs) = {}
  BY VariablesDiffer DEF ExplorationInv, StatesInv
<1>3. CodeOf(t) \in Encoding
  BY DEF CodeOf, Encoding
<1>4. CodeOf(t) \ Zs = Code(t.src) \cup t.in \cup t.out
  BY <1>1, <1>2 DEF CodeOf
<1>5. CodeOf(t) \cap OutBits = t.out /\ CodeOf(t) \cap Zs = PrimedCode(t.dst)
  BY <1>1, <1>2 DEF CodeOf
<1>6. CASE mode = "synthesis"
  <2>1. ReadOf(t.src, t.in, t.out) = Code(t.src) \cup t.in /\ Own = OutBits
    BY <1>6 DEF ReadOf, Own
  <2>2. (CodeOf(t) \ Zs) \ Own = ReadOf(t.src, t.in, t.out)
    BY <2>1, <1>1, <1>2, <1>4
  <2> QED BY <2>1, <2>2, <1>1, <1>2, <1>3, <1>4, <1>5, <1>6
<1>7. CASE mode # "synthesis"
  <2>1. ReadOf(t.src, t.in, t.out) = Code(t.src) \cup t.in \cup t.out /\ Own = {}
    BY <1>7 DEF ReadOf, Own
  <2>2. (CodeOf(t) \ Zs) \ Own = ReadOf(t.src, t.in, t.out)
    BY <2>1, <1>4
  <2> QED BY <2>1, <2>2, <1>1, <1>2, <1>3, <1>4, <1>5
<1> QED BY <1>6, <1>7

(***************************************************************************)
(* Two transitions read the same only when they have the same source and   *)
(* input, and in the winning region circuit the same output.               *)
(***************************************************************************)
LEMMA ReadsDiffer ==
  ASSUME ExplorationInv, NEW n \in Ids, NEW i \in Inputs, NEW o \in Outputs,
         NEW m \in Ids, NEW j \in Inputs, NEW p \in Outputs, ReadOf(m, j, p) = ReadOf(n, i, o)
  PROVE  m = n /\ j = i /\ (mode # "synthesis" => p = o)
<1>1. Code(n) \subseteq Ys /\ i \subseteq InBits /\ o \subseteq OutBits
      /\ Code(m) \subseteq Ys /\ j \subseteq InBits /\ p \subseteq OutBits
  BY SynthesisAssumption DEF Code, Ys
<1>2. /\ InBits \cap OutBits = {}
      /\ (InBits \cup OutBits) \cap (Ys \cup Zs) = {}
  BY VariablesDiffer DEF ExplorationInv, StatesInv
<1>3. ReadOf(n, i, o) \cap Ys = Code(n) /\ ReadOf(n, i, o) \cap InBits = i
      /\ (mode # "synthesis" => ReadOf(n, i, o) \cap OutBits = o)
  BY <1>1, <1>2 DEF ReadOf
<1>4. ReadOf(m, j, p) \cap Ys = Code(m) /\ ReadOf(m, j, p) \cap InBits = j
      /\ (mode # "synthesis" => ReadOf(m, j, p) \cap OutBits = p)
  BY <1>1, <1>2 DEF ReadOf
<1>5. m = n
  BY <1>3, <1>4, CodesDiffer DEF ExplorationInv
<1> QED BY <1>3, <1>4, <1>5

(***************************************************************************)
(* What the finished circuit says is what is true in it.                   *)
(***************************************************************************)
LEMMA OnIfSays ==
  ASSUME NEW c, NEW x
  PROVE  /\ OutputsOn(c, x) = {name \in DOMAIN c.outputs : Says(c, c.outputs[name], x)}
         /\ LatchesOn(c, x) = {b \in DOMAIN c.next : Says(c, c.next[b], x)}
BY DEF OutputsOn, LatchesOn, Says, Truth, TrueSignals

(***************************************************************************)
(* The circuit takes a transition for whatever it reads that some          *)
(* transition has: its outputs and next latches are that transition's.     *)
(***************************************************************************)
Takes(t, n, i, o) ==
  /\ t.src = n /\ t.in = i /\ (mode # "synthesis" => t.out = o)
  /\ LatchesOn(circuit, ReadOf(n, i, o)) = Code(t.dst)
  /\ mode = "synthesis" => {name[2] : name \in OutputsOn(circuit, ReadOf(n, i, o))} = t.out

(***************************************************************************)
(* For what it reads, the finished circuit outputs and stores what one of  *)
(* the transitions says.                                                   *)
(***************************************************************************)
LEMMA CircuitTakes ==
  ASSUME FunctionsInv, pc = "play", NEW n \in Ids, NEW i \in Inputs, NEW o \in Outputs,
         NEW u \in trans, ReadOf(u.src, u.in, u.out) = ReadOf(n, i, o)
  PROVE  \E t \in trans : Takes(t, n, i, o)
<1> DEFINE r == ReadOf(n, i, o)
<1>1. ExplorationInv /\ FixedInv /\ CircuitInv
  BY DEF FunctionsInv
<1>2. encoding \subseteq Encoding /\ Projected(encoding) = Projected(Encoding)
  BY <1>1 DEF FixedInv
<1>3. CodeOf(u) \in Encoding /\ (CodeOf(u) \ Zs) \ Own = r
  BY <1>1, CodeParts
<1> HIDE DEF r
<1>4. r \in Projected(encoding)
  <2>1. CodeOf(u) \ Zs \in Exist(Encoding, Zs)
    BY <1>3 DEF Exist
  <2>2. (CodeOf(u) \ Zs) \ Own \in Exist(Exist(Encoding, Zs), Own)
    BY <2>1 DEF Exist
  <2> QED BY <2>2, <1>2, <1>3 DEF Projected
<1>5. PICK x \in encoding : (x \ Zs) \ Own = r
  BY <1>4 DEF Projected, Exist
<1>6. PICK t \in trans : x = CodeOf(t)
  BY <1>2 DEF Encoding, CodeOf
<1>7. /\ (CodeOf(t) \ Zs) \ Own = ReadOf(t.src, t.in, t.out)
      /\ CodeOf(t) \cap OutBits = t.out /\ CodeOf(t) \cap Zs = PrimedCode(t.dst)
  BY <1>1, CodeParts
<1>8. t.src = n /\ t.in = i /\ (mode # "synthesis" => t.out = o)
  <2>1. ReadOf(t.src, t.in, t.out) = ReadOf(n, i, o)
    BY <1>5, <1>6, <1>7 DEF r
  <2>2. t.src \in Ids /\ t.in \in Inputs /\ t.out \in Outputs
    BY <1>1 DEF ExplorationInv, TransInv
  <2> QED BY <2>1, <2>2, <1>1, ReadsDiffer
<1>9. LatchesOn(circuit, r) = Code(t.dst)
  <2>1. DOMAIN circuit.next = {z - 1 : z \in Zs}
        /\ \A z \in Zs : \A y \in Exist(encoding, Own) :
             z \in y <=> Says(circuit, circuit.next[z - 1], y \ Zs)
    BY <1>1 DEF CircuitInv, LatchesChosen, LatchesLeft, AgreedLatches
  <2>2. x \ Own \in Exist(encoding, Own) /\ (x \ Own) \ Zs = r
    BY <1>5 DEF Exist
  <2>3. Zs \cap Own = {} /\ Bits \subseteq Nat /\ FirstBit \in Nat
    BY VariablesDiffer, FirstBitFacts, <1>1 DEF ExplorationInv, StatesInv, Own
  <2>4. \A z \in Zs : z \in x <=> Says(circuit, circuit.next[z - 1], r)
    BY <2>1, <2>2, <2>3
  <2>5. LatchesOn(circuit, r) = {z - 1 : z \in Zs \cap x}
    BY <2>1, <2>4, OnIfSays
  <2>6. Zs \cap x = PrimedCode(t.dst)
    BY <1>6, <1>7
  <2>7. {z - 1 : z \in PrimedCode(t.dst)} = Code(t.dst)
    <3>1. \A k \in Bits : Z(k) - 1 = Y(k)
      BY <2>3 DEF Y, Z
    <3> QED BY <3>1 DEF PrimedCode, Code
  <2> QED BY <2>5, <2>6, <2>7
<1>10. ASSUME mode = "synthesis"
       PROVE  {name[2] : name \in OutputsOn(circuit, r)} = t.out
  <2>1. DOMAIN circuit.outputs = {<<"out", b>> : b \in OutBits}
        /\ \A b \in OutBits : \A y \in Exist(encoding, Zs) :
             b \in y <=> Says(circuit, circuit.outputs[<<"out", b>>], y \ OutBits)
    BY <1>1, <1>10 DEF CircuitInv, OutputsChosen, OutputsLeft, AgreedOutputs
  <2>2. x \ Zs \in Exist(encoding, Zs) /\ (x \ Zs) \ OutBits = r
    BY <1>5, <1>10 DEF Exist, Own
  <2>3. Zs \cap OutBits = {}
    BY VariablesDiffer, <1>1 DEF ExplorationInv, StatesInv
  <2>4. \A b \in OutBits : b \in x <=> Says(circuit, circuit.outputs[<<"out", b>>], r)
    BY <2>1, <2>2, <2>3
  <2>5. OutputsOn(circuit, r) = {name \in DOMAIN circuit.outputs : Says(circuit, circuit.outputs[name], r)}
    BY OnIfSays
  <2>6. ASSUME NEW b \in OutBits PROVE b \in x <=> <<"out", b>> \in OutputsOn(circuit, r)
    BY <2>1, <2>4, <2>5
  <2>7. ASSUME NEW name \in OutputsOn(circuit, r)
        PROVE  name[2] \in OutBits /\ name = <<"out", name[2]>>
    BY <2>1, <2>5
  <2>8. {name[2] : name \in OutputsOn(circuit, r)} = x \cap OutBits
    <3>1. ASSUME NEW b \in x \cap OutBits PROVE b \in {name[2] : name \in OutputsOn(circuit, r)}
      <4>1. <<"out", b>> \in OutputsOn(circuit, r) /\ <<"out", b>>[2] = b
        BY <2>6
      <4> QED BY <4>1
    <3>2. ASSUME NEW name \in OutputsOn(circuit, r) PROVE name[2] \in x \cap OutBits
      BY <2>6, <2>7
    <3> QED BY <3>1, <3>2
  <2> QED BY <2>8, <1>6, <1>7
<1> QED BY <1>8, <1>9, <1>10 DEF r, Takes

(***************************************************************************)
(* The first state is the one the game starts in.                          *)
(***************************************************************************)
FirstInv ==
  /\ mode = "synthesis" => Leq(aut.init, states[1])
  /\ mode = "winregion" => states[1] = aut.init

(* This holds when the circuit is about to be explored, *)
LEMMA FirstInit ==
  ASSUME Init
  PROVE  FirstInv
<1>1. PICK w \in IF mode = "synthesis" THEN Dominating(aut.init) ELSE {aut.init} : states = <<w>>
  BY DEF Init
<1>2. states[1] = w
  BY <1>1
<1>3. mode \in {"synthesis", "winregion"}
  BY GameFacts DEF Init
<1> QED BY <1>1, <1>2, <1>3, DominatingFacts DEF FirstInv

(* and in every later state. *)
LEMMA FirstStep ==
  ASSUME ExplorationInv, FirstInv, [Next]_vars
  PROVE  FirstInv'
<1>1. ASSUME NEW w, states' = Append(states, w) \/ states' = states, UNCHANGED <<game, mode>>
      PROVE  FirstInv'
  <2>1. states \in Seq(game.region) /\ states # << >>
    BY DEF ExplorationInv, StatesInv
  <2>2. Append(states, w)[1] = states[1]
    BY <2>1
  <2>3. states'[1] = states[1]
    BY <1>1, <2>2
  <2> QED BY <2>3, <1>1 DEF FirstInv, aut
<1>2. UNCHANGED <<game, mode>> /\ \E w : states' = Append(states, w) \/ states' = states
  <2>1. CASE Exploration
    BY <2>1 DEF Exploration, Pop, Explore, ExploreAll, Abort, Encode, NewState, explored
  <2>2. CASE FixOutput \/ AddRegionOutput \/ OutputsDone \/ FixLatch \/ LatchesDone
    BY <2>2 DEF FixOutput, AddRegionOutput, OutputsDone, FixLatch, LatchesDone, explored
  <2>3. ASSUME NEW i \in Inputs, Play(i) PROVE UNCHANGED <<game, mode, states>>
    BY <2>3 DEF Play, Move, explored
  <2>4. ASSUME NEW i \in Inputs, NEW o \in Outputs, PlayLetter(i, o)
        PROVE  UNCHANGED <<game, mode, states>>
    BY <2>4 DEF PlayLetter, Move, explored
  <2>5. CASE UNCHANGED vars \/ Aborted
    BY <2>5 DEF vars, explored, Aborted
  <2> QED BY <2>1, <2>2, <2>3, <2>4, <2>5 DEF Next
<1> QED BY <1>1, <1>2

(***************************************************************************)
(* A play stays with the state its latches stand for: below its vector     *)
(* with the circuit of synthesis, at it with that of the winning region.   *)
(***************************************************************************)
At(n) ==
  /\ latches = Code(n)
  /\ mode = "synthesis" => Leq(v, states[n + 1])
  /\ mode = "winregion" => v = states[n + 1]

PlayInv == pc = "play" => \E n \in Ids : At(n)

(* A letter leads to a smaller vector from a smaller one. *)
LEMMA RunsBelowSmaller ==
  ASSUME NEW a \in Automata, NEW u \in Vectors, NEW w \in Vectors, Leq(u, w),
         NEW i \in Inputs, NEW o \in Outputs, NEW m \in Vectors, RunsBelow(a, w, i, o, m)
  PROVE  RunsBelow(a, u, i, o, m)
<1>1. SUFFICES ASSUME NEW p \in States, NEW q \in ActivePreds(a, u, i, o, p)
               PROVE  u[q] + Count(a, p) =< m[p]
  BY DEF RunsBelow
<1>2. q \in States /\ u[q] # -1 /\ <<q, i, o, p>> \in a.edge
  BY DEF ActivePreds
<1>3. u[q] \in Int /\ w[q] \in Int /\ u[q] >= -1 /\ u[q] =< w[q] /\ m[p] \in Int /\ Count(a, p) \in Int
  BY <1>2, GameAssumption DEF Vectors, Values, Leq, Count
<1>4. q \in ActivePreds(a, w, i, o, p)
  BY <1>2, <1>3 DEF ActivePreds
<1>5. w[q] + Count(a, p) =< m[p]
  BY <1>4 DEF RunsBelow
<1> QED BY <1>3, <1>5

(***************************************************************************)
(* A move from a smaller vector gives a successor that is below every safe *)
(* bound of the larger one.                                                *)
(***************************************************************************)
LEMMA ForwardSmaller ==
  ASSUME NEW a \in Automata, NEW u \in Vectors, NEW w \in Vectors, Leq(u, w),
         NEW i \in Inputs, NEW o \in Outputs, NEW k \in 1 .. TopK,
         NEW m \in Vectors, m \in Safe(k), Leq(Forward(a, w, i, o, k), m)
  PROVE  Leq(Forward(a, u, i, o, k), m)
BY ForwardBelow, RunsBelowSmaller

(* Elements of the region, at its K. *)
LEMMA StateVectors ==
  ASSUME ExplorationInv, NEW n \in Ids
  PROVE  /\ states[n + 1] \in game.region /\ states[n + 1] \in Vectors
         /\ states[n + 1] \in Safe(game.K)
         /\ game \in Solved /\ aut = game.aut /\ aut \in Automata /\ game.K \in 1 .. TopK
<1>1. game \in Solved /\ states \in Seq(game.region)
  BY DEF ExplorationInv, GameInv, StatesInv
<1>2. states[n + 1] \in game.region
  BY <1>1 DEF Ids
<1> QED BY <1>1, <1>2, GameFacts DEF aut

(***************************************************************************)
(* A letter that the circuit answers as a transition says keeps the        *)
(* invariant of the play.                                                  *)
(***************************************************************************)
LEMMA MoveKeeps ==
  ASSUME NoRaise, TypesInv, NEW n \in Ids, At(n), NEW t \in trans,
         t.src = n, NEW read, Move(t.in, t.out, read), LatchesOn(circuit, read) = Code(t.dst)
  PROVE  PlayInv'
<1>1. ExplorationInv /\ v \in Vectors
  BY DEF TypesInv, FunctionsInv, PlayTypes
<1>2. /\ latches' = Code(t.dst) /\ v' = Forward(aut, v, t.in, t.out, game.K)
      /\ UNCHANGED <<game, mode, pc, explored>>
  BY DEF Move
<1>3. Ids' = Ids /\ states' = states /\ \A k : Code(k)' = Code(k)
  BY <1>2, SameVariables DEF explored
<1>4. /\ t.dst \in Ids /\ t.in \in Inputs /\ t.out \in Outputs
      /\ mode = "synthesis" => Leq(Here(t.src, t.in, t.out), states[t.dst + 1])
      /\ mode = "winregion" => Here(t.src, t.in, t.out) = states[t.dst + 1]
  BY <1>1 DEF ExplorationInv, TransInv
<1>5. game.K = Kfrom
  BY <1>1, StateVectors DEF NoRaise
<1>6. /\ aut \in Automata /\ game.K \in 1 .. TopK /\ states[n + 1] \in Vectors
      /\ states[t.dst + 1] \in Vectors /\ states[t.dst + 1] \in Safe(game.K)
  BY <1>1, <1>4, StateVectors
<1>7. mode = "synthesis" => Leq(v', states[t.dst + 1])
  <2>1. SUFFICES ASSUME mode = "synthesis" PROVE Leq(v', states[t.dst + 1])
    OBVIOUS
  <2>2. Leq(v, states[n + 1])
    BY <2>1 DEF At
  <2>3. Leq(Forward(aut, states[n + 1], t.in, t.out, game.K), states[t.dst + 1])
    BY <2>1, <1>4, <1>5 DEF Here
  <2> QED BY <2>2, <2>3, <1>1, <1>2, <1>4, <1>6, ForwardSmaller
<1>8. mode = "winregion" => v' = states[t.dst + 1]
  BY <1>2, <1>4, <1>5 DEF At, Here
<1>9. At(t.dst)'
  <2>1. latches' = Code(t.dst)'
    BY <1>2, <1>3
  <2>2. UNCHANGED t /\ UNCHANGED mode
    BY <1>2
  <2> QED BY <1>2, <1>3, <1>7, <1>8 DEF At, Code
<1> QED BY <1>3, <1>4, <1>9 DEF PlayInv

(***************************************************************************)
(* The answer of synthesis's circuit is that of a transition.              *)
(***************************************************************************)
LEMMA CircuitAnswers ==
  ASSUME NoRaise, TypesInv, pc = "play", mode = "synthesis", NEW n \in Ids, At(n), NEW i \in Inputs
  PROVE  \E t \in trans : /\ t.src = n /\ t.in = i /\ t.out = OutputOf(i)
                          /\ LatchesOn(circuit, i \cup latches) = Code(t.dst)
<1>1. ExplorationInv /\ FunctionsInv
  BY DEF TypesInv, FunctionsInv
<1>2. PICK u \in trans : u.src = n /\ u.in = i
  BY <1>1, AllInputsAnswered
<1>3. u.out \in Outputs
  BY <1>1 DEF ExplorationInv, TransInv
<1>4. ReadOf(u.src, u.in, u.out) = ReadOf(n, i, u.out) /\ ReadOf(n, i, u.out) = i \cup latches
  BY <1>2 DEF ReadOf, At
<1>5. PICK t \in trans : Takes(t, n, i, u.out)
  BY <1>1, <1>3, <1>4, CircuitTakes
<1> QED BY <1>4, <1>5 DEF OutputOf, Takes

(***************************************************************************)
(* The circuit of the winning region calls a letter safe when there is a   *)
(* transition for it.                                                      *)
(***************************************************************************)
LEMMA SafeLetters ==
  ASSUME TypesInv, pc = "play", mode = "winregion", NEW n \in Ids, At(n),
         NEW i \in Inputs, NEW o \in Outputs
  PROVE  IsSafeLetter(i, o) <=> \E t \in trans : t.src = n /\ t.in = i /\ t.out = o
<1>1. ExplorationInv /\ CircuitInv
  BY DEF TypesInv, FunctionsInv
<1>2. RegionOutputsMade /\ Variables(circuit.sources) = Reads
  BY <1>1 DEF CircuitInv
<1>3. SafeOutput \in RegionOutputs /\ SafeOutput \in DOMAIN circuit.outputs
  BY <1>2 DEF RegionOutputs, RegionOutputsMade, OutputsLeft
<1>4. \A x \in SUBSET Reads : Says(circuit, circuit.outputs[SafeOutput], x) <=> x \in Exist(Encoding, Zs)
  BY <1>2, <1>3 DEF RegionOutputsMade, OutputsLeft, RegionFunction, Computes, Says
<1>5. i \cup o \cup latches = ReadOf(n, i, o) /\ ReadOf(n, i, o) \in SUBSET Reads
  <2>1. i \subseteq InBits /\ o \subseteq OutBits /\ Code(n) \subseteq Ys
    BY SynthesisAssumption DEF Code, Ys
  <2> QED BY <2>1 DEF At, ReadOf, Reads
<1>6. IsSafeLetter(i, o) <=> Says(circuit, circuit.outputs[SafeOutput], ReadOf(n, i, o))
  <2>1. OutputsOn(circuit, ReadOf(n, i, o))
          = {name \in DOMAIN circuit.outputs : Says(circuit, circuit.outputs[name], ReadOf(n, i, o))}
    BY OnIfSays
  <2>2. IsSafeLetter(i, o) <=> SafeOutput \in OutputsOn(circuit, ReadOf(n, i, o))
    BY <1>5 DEF IsSafeLetter
  <2> HIDE DEF SafeOutput
  <2> QED BY <2>1, <2>2, <1>3
<1>7. ReadOf(n, i, o) \in Exist(Encoding, Zs)
        <=> \E t \in trans : t.src = n /\ t.in = i /\ t.out = o
  <2>1. ASSUME ReadOf(n, i, o) \in Exist(Encoding, Zs)
        PROVE  \E t \in trans : t.src = n /\ t.in = i /\ t.out = o
    <3>1. PICK t \in trans : ReadOf(n, i, o) = CodeOf(t) \ Zs
      BY <2>1 DEF Exist, Encoding, CodeOf
    <3>2. (CodeOf(t) \ Zs) \ Own = ReadOf(t.src, t.in, t.out) /\ Own = {}
      BY <1>1, CodeParts DEF Own
    <3>3. ReadOf(t.src, t.in, t.out) = ReadOf(n, i, o)
      BY <3>1, <3>2
    <3>4. t.src \in Ids /\ t.in \in Inputs /\ t.out \in Outputs
      BY <1>1 DEF ExplorationInv, TransInv
    <3> QED BY <3>3, <3>4, <1>1, ReadsDiffer
  <2>2. ASSUME NEW t \in trans, t.src = n, t.in = i, t.out = o
        PROVE  ReadOf(n, i, o) \in Exist(Encoding, Zs)
    <3>1. CodeOf(t) \in Encoding /\ (CodeOf(t) \ Zs) \ Own = ReadOf(n, i, o) /\ Own = {}
      BY <2>2, <1>1, CodeParts DEF Own
    <3> QED BY <3>1 DEF Exist
  <2> QED BY <2>1, <2>2
<1> QED BY <1>4, <1>5, <1>6, <1>7

(* Every step keeps the invariant of the play. *)
LEMMA PlayStep ==
  ASSUME NoRaise, TypesInv, FirstInv, PlayInv, [Next]_vars
  PROVE  PlayInv'
<1>1. ExplorationInv /\ PlayTypes
  BY DEF TypesInv, FunctionsInv
<1>2. CASE Exploration \/ FixOutput \/ AddRegionOutput \/ OutputsDone \/ FixLatch
  <2>1. pc' # "play"
    BY <1>2 DEF Exploration, Pop, Explore, ExploreAll, Abort, Encode,
                FixOutput, AddRegionOutput, OutputsDone, FixLatch
  <2> QED BY <2>1 DEF PlayInv
<1>3. CASE LatchesDone
  <2>1. pc # "play" /\ UNCHANGED <<game, mode, explored, latches, v>>
    BY <1>3 DEF LatchesDone
  <2>2. latches' = {} /\ v' = aut.init
    BY <2>1, <1>1 DEF PlayTypes
  <2>3. 0 \in Ids
    BY <1>1 DEF ExplorationInv, StatesInv, Ids
  <2>4. Code(0) = {} /\ Code(0)' = Code(0) /\ Ids' = Ids /\ states' = states
    BY <2>1, <1>1, CodeOfFirst, SameVariables DEF ExplorationInv, explored
  <2>5. At(0)'
    BY <2>1, <2>2, <2>4 DEF At, FirstInv
  <2> QED BY <2>3, <2>4, <2>5 DEF PlayInv
<1>4. ASSUME NEW i \in Inputs, Play(i)
      PROVE  PlayInv'
  <2>1. pc = "play" /\ mode = "synthesis" /\ Move(i, OutputOf(i), i \cup latches)
    BY <1>4 DEF Play
  <2>2. PICK n \in Ids : At(n)
    BY <2>1 DEF PlayInv
  <2>3. PICK t \in trans : /\ t.src = n /\ t.in = i /\ t.out = OutputOf(i)
                           /\ LatchesOn(circuit, i \cup latches) = Code(t.dst)
    BY <2>1, <2>2, CircuitAnswers
  <2> QED BY <2>1, <2>2, <2>3, MoveKeeps
<1>5. ASSUME NEW i \in Inputs, NEW o \in Outputs, PlayLetter(i, o)
      PROVE  PlayInv'
  <2>1. /\ pc = "play" /\ mode = "winregion" /\ IsSafeLetter(i, o)
        /\ Move(i, o, i \cup o \cup latches)
    BY <1>5 DEF PlayLetter
  <2>2. PICK n \in Ids : At(n)
    BY <2>1 DEF PlayInv
  <2>3. PICK u \in trans : u.src = n /\ u.in = i /\ u.out = o
    BY <2>1, <2>2, SafeLetters
  <2>4. ReadOf(u.src, u.in, u.out) = ReadOf(n, i, o) /\ ReadOf(n, i, o) = i \cup o \cup latches
    BY <2>1, <2>2, <2>3 DEF ReadOf, At
  <2>5. PICK t \in trans : Takes(t, n, i, o)
    BY <2>1, <2>4, CircuitTakes DEF TypesInv
  <2> QED BY <2>1, <2>2, <2>4, <2>5, MoveKeeps DEF Takes
<1>6. CASE UNCHANGED vars \/ Aborted
  <2>1. UNCHANGED <<game, mode, explored, latches, v, pc>>
    BY <1>6 DEF vars, Aborted
  <2>2. Ids' = Ids /\ states' = states /\ \A k : Code(k)' = Code(k)
    BY <2>1, SameVariables DEF explored
  <2>3. \A k : At(k)' <=> At(k)
    BY <2>1, <2>2 DEF At, Code
  <2> QED BY <2>1, <2>2, <2>3 DEF PlayInv
<1> QED BY <1>2, <1>3, <1>4, <1>5, <1>6 DEF Next

(* The invariant of the play holds in every reachable state. *)
LEMMA PlayAlways ==
  ASSUME NoRaise
  PROVE  Spec => [](TypesInv /\ PlayInv)
<1>1. Init => TypesInv /\ FirstInv /\ PlayInv
  <2>1. Init => PlayInv
    BY DEF Init, PlayInv
  <2> QED BY <2>1, ExplorationInit, FunctionsInit, TodoInit, PlayTypesInit, FirstInit
          DEF FunctionsInv, TypesInv
<1>2. TypesInv /\ FirstInv /\ PlayInv /\ [Next]_vars => TypesInv' /\ FirstInv' /\ PlayInv'
  BY ExplorationStep, FunctionsStep, TodoStep, PlayTypesStep, FirstStep, PlayStep
  DEF FunctionsInv, TypesInv
<1> QED BY <1>1, <1>2, PTL DEF Spec

(***************************************************************************)
(* The circuit of synthesis keeps every play in the region, so that no     *)
(* counter reaches K, and its answers are letters of the invariant.        *)
(***************************************************************************)
LEMMA PlayImpliesSafe ==
  ASSUME NoRaise, TypesInv, PlayInv
  PROVE  CircuitSafe
<1>1. SUFFICES ASSUME pc = "play", mode = "synthesis"
               PROVE  v \in game.region /\ \A i \in Inputs : OutputOf(i) \in Answers(aut, i)
  BY DEF CircuitSafe
<1>2. ExplorationInv /\ v \in Vectors
  BY DEF TypesInv, FunctionsInv, PlayTypes
<1>3. PICK n \in Ids : At(n)
  BY <1>1 DEF PlayInv
<1>4. v \in game.region
  <2>1. states[n + 1] \in game.region /\ Leq(v, states[n + 1])
    BY <1>1, <1>2, <1>3, StateVectors DEF At
  <2>2. v \in Down(game.region)
    BY <2>1, <1>2 DEF Down
  <2>3. Down(game.region) = game.region
    BY <1>2, SynthesisAssumption DEF ExplorationInv, GameInv
  <2> QED BY <2>2, <2>3
<1>5. ASSUME NEW i \in Inputs PROVE OutputOf(i) \in Answers(aut, i)
  <2>1. PICK t \in trans : t.in = i /\ t.out = OutputOf(i)
    BY <1>1, <1>3, CircuitAnswers
  <2>2. t.out \in Outputs /\ <<t.in, t.out>> \in aut.allowed
    BY <1>2 DEF ExplorationInv, TransInv
  <2> QED BY <2>1, <2>2 DEF Answers
<1> QED BY <1>4, <1>5

(***************************************************************************)
(* CircuitSafe, for every game: whatever the inputs, the circuit that      *)
(* synthesize() has written keeps every counter at K or less for ever,     *)
(* provided solve did not raise K. It is what makes the synthesized        *)
(* controller correct.                                                     *)
(***************************************************************************)
THEOREM CircuitIsSafe ==
  ASSUME NoRaise
  PROVE  Spec => []CircuitSafe
<1>1. TypesInv /\ PlayInv => CircuitSafe
  BY PlayImpliesSafe
<1> QED BY <1>1, PlayAlways, PTL

(***************************************************************************)
(* The circuit of the winning region calls exactly those letters safe that *)
(* are allowed and stay in the region.                                     *)
(***************************************************************************)
LEMMA StaysIfTransition ==
  ASSUME NoRaise, TypesInv, pc = "play", mode = "winregion", NEW n \in Ids, At(n),
         NEW i \in Inputs, NEW o \in Outputs
  PROVE  (\E t \in trans : t.src = n /\ t.in = i /\ t.out = o)
           <=> <<i, o>> \in aut.allowed /\ Forward(aut, v, i, o, game.K) \in game.region
<1>1. ExplorationInv
  BY DEF TypesInv, FunctionsInv
<1>2. game.K = Kfrom
  BY <1>1, StateVectors DEF NoRaise
<1>3. Forward(aut, v, i, o, game.K) = Here(n, i, o)
  BY <1>2 DEF At, Here
<1>4. ASSUME NEW t \in trans, t.src = n, t.in = i, t.out = o
      PROVE  <<i, o>> \in aut.allowed /\ Here(n, i, o) \in game.region
  <2>1. /\ <<t.in, t.out>> \in aut.allowed /\ t.dst \in Ids
        /\ Here(t.src, t.in, t.out) = states[t.dst + 1]
    BY <1>1 DEF ExplorationInv, TransInv
  <2> QED BY <2>1, <1>1, <1>4, StateVectors
<1>5. ASSUME <<i, o>> \in aut.allowed, Here(n, i, o) \in game.region
      PROVE  \E t \in trans : t.src = n /\ t.in = i /\ t.out = o
  <2>1. ~ Pending(n, <<i, o>>)
    BY <1>1 DEF ExplorationInv, CoveredInv, StatesInv, Pending
  <2>2. Answered(n, <<i, o>>)
    BY <2>1, <1>1, <1>5 DEF ExplorationInv, CoveredInv
  <2>3. ASSUME NEW t \in bad, t.src = n, t.in = i, t.out = o
        PROVE  FALSE
    <3>1. t.succ = Here(n, i, o) /\ t.succ \notin game.region
      BY <1>1, <2>3 DEF ExplorationInv, BadInv
    <3> QED BY <3>1, <1>5
  <2>4. <<i, o>>[1] = i /\ <<i, o>>[2] = o
    OBVIOUS
  <2> QED BY <2>2, <2>3, <2>4 DEF Answered
<1> QED BY <1>3, <1>4, <1>5

(***************************************************************************)
(* While what was played was in the region, the invariant of the play is   *)
(* the exactness of the circuit.                                           *)
(***************************************************************************)
LEMMA PlayImpliesExact ==
  ASSUME NoRaise, TypesInv, PlayInv
  PROVE  RegionExact
<1>1. SUFFICES ASSUME pc = "play", mode = "winregion", NEW i \in Inputs, NEW o \in Outputs
               PROVE  IsSafeLetter(i, o) <=> <<i, o>> \in aut.allowed
                                             /\ Forward(aut, v, i, o, game.K) \in game.region
  BY DEF RegionExact
<1>2. PICK n \in Ids : At(n)
  BY <1>1 DEF PlayInv
<1> QED BY <1>1, <1>2, SafeLetters, StaysIfTransition

(***************************************************************************)
(* RegionExact, for every game: the circuit of winning_region_output()     *)
(* calls a letter safe exactly when the letter is allowed and the game     *)
(* stays in the winning region, wherever safe letters have led, provided   *)
(* solve did not raise K.                                                  *)
(***************************************************************************)
THEOREM RegionIsExact ==
  ASSUME NoRaise
  PROVE  Spec => []RegionExact
<1>1. TypesInv /\ PlayInv => RegionExact
  BY PlayImpliesExact
<1> QED BY <1>1, PlayAlways, PTL

(***************************************************************************)
(* Without its assertions, the program leaves the first of a component's   *)
(* bits to -1 if Kto does (it does unless it is a power of two).  With     *)
(* them, it stops before it writes a circuit that does not.                *)
(***************************************************************************)
VectorsFit == \A s \in Solved : s.debug \/ Kto < PowerOf2[vec_bits - 1]

(* What has passed the assertions. *)
AssertedInv == pc \in {"outputs", "latches", "play"} => ~AssertFails

(* A counter is written on at least one bit. *)
LEMMA BitsOfVectors == vec_bits \in Nat \ {0}
<1>1. Kto \in Nat
  BY SynthesisAssumption, GameAssumption
<1>2. Log2Up(Kto) \in Nat
  BY <1>1, Log2UpFacts
<1> QED BY <1>2 DEF vec_bits

(***************************************************************************)
(* A number that leaves the reserved bit free is written on the other      *)
(* bits.                                                                   *)
(***************************************************************************)
LEMMA VectorBitsFacts ==
  ASSUME NEW x \in Nat, x < PowerOf2[vec_bits - 1]
  PROVE  /\ 0 \notin VectorBits(x) /\ Shifted(x)[vec_bits - 1] = 0
         /\ \A k \in 0 .. vec_bits - 1 : k \in VectorBits(x) <=> IsBitOf(vec_bits - 1 - k, x)
<1> DEFINE W == vec_bits
<1>1. W \in Nat \ {0}
  BY BitsOfVectors
<1>2. VectorBits(x) = {W - 1 - k : k \in {k \in 0 .. W : IsBitOf(k, x)}}
  BY DEF VectorBits
<1>3. Shifted(x)[W - 1] = 0
  <2>1. W - 1 \in Nat /\ W - 1 \in 0 .. W - 1 /\ (W - 1) - (W - 1) = 0
    BY <1>1
  <2>2. Shifted(x)[W - 1] < PowerOf2[(W - 1) - (W - 1)]
    <3> HIDE DEF W
    <3>1. x < PowerOf2[W - 1]
      BY DEF W
    <3> QED BY <2>1, <3>1, ShiftedBelow
  <2>3. Shifted(x)[W - 1] \in Nat
    BY <2>1, ShiftedFacts
  <2> HIDE DEF W
  <2> QED BY <2>1, <2>2, <2>3, PowersOf2
<1> HIDE DEF W
<1>4. ASSUME NEW k \in 0 .. W - 1 PROVE k \in VectorBits(x) <=> IsBitOf(W - 1 - k, x)
  <2>1. ASSUME k \in VectorBits(x) PROVE IsBitOf(W - 1 - k, x)
    <3>1. PICK j \in 0 .. W : IsBitOf(j, x) /\ k = W - 1 - j
      BY <2>1, <1>2
    <3>2. W - 1 - k = j
      BY <3>1, <1>1
    <3> QED BY <3>1, <3>2
  <2>2. ASSUME IsBitOf(W - 1 - k, x) PROVE k \in VectorBits(x)
    <3>1. W - 1 - k \in 0 .. W /\ k = W - 1 - (W - 1 - k)
      BY <1>1
    <3> QED BY <3>1, <2>2, <1>2
  <2> QED BY <2>1, <2>2
<1>5. 0 \notin VectorBits(x)
  <2>1. 0 \in 0 .. W - 1 /\ W - 1 - 0 = W - 1
    BY <1>1
  <2>2. ~ IsBitOf(W - 1, x)
    BY <1>3 DEF IsBitOf
  <2> QED BY <2>1, <2>2, <1>4
<1> QED BY <1>3, <1>4, <1>5 DEF W

(***************************************************************************)
(* The value of a component can be read from its bits.                     *)
(***************************************************************************)
LEMMA ValueRead ==
  ASSUME NEW x \in Int, x >= -1, x < PowerOf2[vec_bits - 1], NEW q, NEW on,
         \A k \in 0 .. vec_bits - 1 : <<q, k>> \in on <=> k \in VectorBits(x)
  PROVE  ValueOf(on, q) = x
<1> DEFINE W == vec_bits
           f == Shifted(x)
           Bit(k) == IF <<q, k>> \in on THEN 1 ELSE 0
           Eq(g) == g = [k \in 0 .. vec_bits - 1 |-> IF k = 0 THEN 0 ELSE 2 * g[k - 1] + Bit(k)]
           digit == CHOOSE g : Eq(g)
<1>1. W \in Nat \ {0}
  BY BitsOfVectors
<1>2. CASE x = -1
  <2>1. VectorBits(x) = {0}
    BY <1>2 DEF VectorBits
  <2>2. 0 \in 0 .. vec_bits - 1
    BY <1>1
  <2>3. <<q, 0>> \in on
    BY <2>1, <2>2
  <2> QED BY <2>3, <1>2 DEF ValueOf
<1>3. CASE x # -1
  <2>1. x \in Nat
    BY <1>3
  <2>2. /\ 0 \notin VectorBits(x) /\ f[W - 1] = 0
        /\ \A k \in 0 .. W - 1 : k \in VectorBits(x) <=> IsBitOf(W - 1 - k, x)
    BY <2>1, VectorBitsFacts
  <2>3. f \in [Nat -> Nat] /\ f[0] = x /\ \A k \in Nat : f[k + 1] = f[k] \div 2
    BY <2>1, ShiftedFacts
  <2>4. \A k \in 0 .. W - 1 : Bit(k) = f[W - 1 - k] % 2
    <3>1. ASSUME NEW k \in 0 .. W - 1 PROVE Bit(k) = f[W - 1 - k] % 2
      <4>1. <<q, k>> \in on <=> f[W - 1 - k] % 2 = 1
        BY <2>2 DEF IsBitOf
      <4>2. f[W - 1 - k] \in Nat
        <5>1. W - 1 - k \in Nat
          BY <1>1
        <5> QED BY <5>1, <2>3
      <4> HIDE DEF f, W
      <4>3. f[W - 1 - k] % 2 \in {0, 1}
        BY <4>2
      <4> QED BY <4>1, <4>3
    <3> QED BY <3>1
  <2>5. <<q, 0>> \notin on
    <3>1. 0 \in 0 .. W - 1
      BY <1>1
    <3> QED BY <3>1, <2>2
  <2>6. ValueOf(on, q) = digit[W - 1]
    BY <2>5 DEF ValueOf
  <2> HIDE DEF f
  <2> DEFINE g == [k \in 0 .. W - 1 |-> f[W - 1 - k]]
  <2>7. \A k \in 0 .. W - 1 : k # 0 => f[W - 1 - k] = 2 * f[W - 1 - (k - 1)] + (f[W - 1 - k] % 2)
    <3>1. ASSUME NEW k \in 0 .. W - 1, k # 0
          PROVE  f[W - 1 - k] = 2 * f[W - 1 - (k - 1)] + (f[W - 1 - k] % 2)
      <4>1. W - 1 - k \in Nat /\ (W - 1 - k) + 1 = W - 1 - (k - 1)
        BY <3>1, <1>1
      <4>2. f[W - 1 - (k - 1)] = f[W - 1 - k] \div 2 /\ f[W - 1 - k] \in Nat
        BY <4>1, <2>3
      <4> QED BY <4>2
    <3> QED BY <3>1
  <2>8. Eq(g)
    <3>1. ASSUME NEW k \in 0 .. W - 1
          PROVE  g[k] = IF k = 0 THEN 0 ELSE 2 * g[k - 1] + Bit(k)
      <4> HIDE DEF Bit
      <4>1. CASE k = 0
        <5>1. W - 1 - 0 = W - 1
          BY <1>1
        <5> QED BY <4>1, <5>1, <2>2
      <4>2. CASE k # 0
        <5>1. k - 1 \in 0 .. W - 1
          BY <4>2, <1>1
        <5> QED BY <4>2, <5>1, <2>4, <2>7
      <4> QED BY <4>1, <4>2
    <3> HIDE DEF Bit
    <3> QED BY <3>1
  <2>9. Eq(digit)
    <3> HIDE DEF Eq, g
    <3> QED BY <2>8
  <2> HIDE DEF digit, Bit
  <2> DEFINE T == {k \in Nat : k =< W - 1 => digit[k] = f[W - 1 - k]}
  <2>10. 0 \in T
    <3>1. 0 \in 0 .. W - 1 /\ W - 1 - 0 = W - 1
      BY <1>1
    <3>2. digit[0] = 0
      BY <3>1, <2>9
    <3> QED BY <3>1, <3>2, <2>2
  <2>11. ASSUME NEW k \in Nat, k \in T PROVE k + 1 \in T
    <3>1. SUFFICES ASSUME k + 1 =< W - 1 PROVE digit[k + 1] = f[W - 1 - (k + 1)]
      OBVIOUS
    <3>2. k + 1 \in 0 .. W - 1 /\ k + 1 # 0 /\ (k + 1) - 1 = k /\ k =< W - 1
      BY <3>1, <1>1
    <3>3. digit[k + 1] = 2 * digit[k] + Bit(k + 1)
      BY <3>2, <2>9
    <3>4. digit[k] = f[W - 1 - k]
      BY <3>2, <2>11
    <3>5. f[W - 1 - (k + 1)] = 2 * f[W - 1 - k] + (f[W - 1 - (k + 1)] % 2)
      BY <3>2, <2>7
    <3>6. Bit(k + 1) = f[W - 1 - (k + 1)] % 2
      BY <3>2, <2>4
    <3> QED BY <3>3, <3>4, <3>5, <3>6
  <2>12. W - 1 \in T
    <3>1. W - 1 \in Nat
      BY <1>1
    <3> HIDE DEF T
    <3> QED BY <3>1, <2>10, <2>11, Induction
  <2>13. digit[W - 1] = f[0]
    <3>1. W - 1 =< W - 1 /\ (W - 1) - (W - 1) = 0
      BY <1>1
    <3> QED BY <3>1, <2>12
  <2> QED BY <2>3, <2>6, <2>13
<1> QED BY <1>2, <1>3

(***************************************************************************)
(* A component of a successor is at most the K of the game.                *)
(***************************************************************************)
LEMMA ForwardCapped ==
  ASSUME NEW a \in Automata, NEW u \in Vectors, NEW i \in Inputs, NEW o \in Outputs,
         NEW k \in 1 .. TopK, NEW p \in States
  PROVE  Forward(a, u, i, o, k)[p] \in -1 .. k
<1>1. Max(Reached(a, u, i, o, k, p)) \in -1 .. k
  BY ReachedMax
<1>2. Forward(a, u, i, o, k)[p] = Stored(p, Max(Reached(a, u, i, o, k, p)))
  BY DEF Forward, Reached
<1>3. k \in Int /\ 0 =< k
  OBVIOUS
<1> QED BY <1>1, <1>2, <1>3 DEF Stored

(***************************************************************************)
(* The exploration has recorded every allowed letter that leaves the       *)
(* region.                                                                 *)
(***************************************************************************)
LEMMA BadFound ==
  ASSUME ExplorationInv, pc = "play", mode = "winregion", NEW n \in Ids,
         NEW i \in Inputs, NEW o \in Outputs, <<i, o>> \in aut.allowed,
         Here(n, i, o) \notin game.region
  PROVE  \E t \in bad : t.src = n /\ t.in = i /\ t.out = o /\ t.succ = Here(n, i, o)
<1>1. ~ Pending(n, <<i, o>>)
  BY DEF ExplorationInv, CoveredInv, StatesInv, Pending
<1>2. Answered(n, <<i, o>>) /\ <<i, o>>[1] = i /\ <<i, o>>[2] = o
  BY <1>1 DEF ExplorationInv, CoveredInv
<1>3. ~ \E t \in trans : t.src = n /\ t.in = i /\ t.out = o
  <2>1. ASSUME NEW t \in trans, t.src = n, t.in = i, t.out = o PROVE FALSE
    <3>1. t.dst \in Ids /\ Here(n, i, o) = states[t.dst + 1]
      BY <2>1 DEF ExplorationInv, TransInv
    <3> QED BY <3>1, StateVectors
  <2> QED BY <2>1
<1>4. PICK t \in bad : t.src = n /\ t.in = i /\ t.out = o
  BY <1>2, <1>3 DEF Answered
<1>5. t.succ = Here(n, i, o)
  BY <1>4 DEF ExplorationInv, BadInv
<1> QED BY <1>4, <1>5

(***************************************************************************)
(* The outputs that are on for a letter the region forbids are the bits of *)
(* the vector it leads to.                                                 *)
(***************************************************************************)
LEMMA BitsOn ==
  ASSUME TypesInv, pc = "play", mode = "winregion", NEW n \in Ids, At(n),
         NEW i \in Inputs, NEW o \in Outputs, <<i, o>> \in aut.allowed,
         Here(n, i, o) \notin game.region, NEW q \in States, NEW k \in 0 .. vec_bits - 1
  PROVE  <<q, k>> \in OutputsOn(circuit, i \cup o \cup latches) <=> k \in VectorBits(Here(n, i, o)[q])
<1> DEFINE r == ReadOf(n, i, o)
           name == <<q, k>>
<1>1. ExplorationInv /\ CircuitInv
  BY DEF TypesInv, FunctionsInv
<1>2. RegionOutputsMade /\ Variables(circuit.sources) = Reads
  BY <1>1 DEF CircuitInv
<1>3. name \in RegionOutputs /\ name # SafeOutput /\ name[1] = q /\ name[2] = k
  <2>1. name # SafeOutput
    <3>1. Len(<<q, k>>) = 2 /\ Len(<<"safe">>) = 1
      OBVIOUS
    <3> QED BY <3>1 DEF SafeOutput
  <2> QED BY <2>1 DEF RegionOutputs
<1>4. r = i \cup o \cup latches /\ r = Code(n) \cup i \cup o /\ r \in SUBSET Reads
  <2>1. i \subseteq InBits /\ o \subseteq OutBits /\ Code(n) \subseteq Ys
    BY SynthesisAssumption DEF Code, Ys
  <2> QED BY <2>1 DEF At, ReadOf, Reads
<1>5. RegionFunction(name) = VectorEncoding(q, k)
  BY <1>3 DEF RegionFunction
<1> HIDE DEF name, r
<1>6. name \in OutputsOn(circuit, r) <=> r \in VectorEncoding(q, k)
  <2>1. OutputsOn(circuit, r) = {d \in DOMAIN circuit.outputs : Says(circuit, circuit.outputs[d], r)}
    BY OnIfSays
  <2>2. name \in DOMAIN circuit.outputs
        /\ Computes(circuit.sources, circuit.net.gates, circuit.outputs[name], VectorEncoding(q, k))
    BY <1>2, <1>3, <1>5 DEF RegionOutputsMade, OutputsLeft
  <2>3. Says(circuit, circuit.outputs[name], r) <=> r \in VectorEncoding(q, k)
    BY <2>2, <1>2, <1>4 DEF Computes, Says
  <2> QED BY <2>1, <2>2, <2>3
<1>7. \A t \in bad : /\ t.src \in Ids /\ t.in \in Inputs /\ t.out \in Outputs
                     /\ t.succ = Here(t.src, t.in, t.out)
  BY <1>1 DEF ExplorationInv, BadInv
<1>8. ASSUME r \in VectorEncoding(q, k) PROVE k \in VectorBits(Here(n, i, o)[q])
  <2>1. PICK t \in bad : k \in VectorBits(t.succ[q]) /\ r = Code(t.src) \cup t.in \cup t.out
    BY <1>8 DEF VectorEncoding
  <2>2. ReadOf(t.src, t.in, t.out) = ReadOf(n, i, o)
    BY <2>1 DEF ReadOf, r
  <2>3. t.src = n /\ t.in = i /\ t.out = o
    BY <2>2, <1>1, <1>7, ReadsDiffer
  <2> QED BY <2>1, <2>3, <1>7
<1>9. ASSUME k \in VectorBits(Here(n, i, o)[q]) PROVE r \in VectorEncoding(q, k)
  <2>1. PICK t \in bad : t.src = n /\ t.in = i /\ t.out = o
    BY <1>1, BadFound
  <2>2. k \in VectorBits(t.succ[q]) /\ r = Code(t.src) \cup t.in \cup t.out
    BY <2>1, <1>4, <1>7, <1>9
  <2> QED BY <2>2 DEF VectorEncoding
<1> QED BY <1>4, <1>6, <1>8, <1>9 DEF name

(***************************************************************************)
(* A circuit that is being built was not stopped by the assertions: the    *)
(* bad transitions do not change after the exploration.                    *)
(***************************************************************************)
LEMMA AssertedStep ==
  ASSUME AssertedInv, [Next]_vars
  PROVE  AssertedInv'
<1>1. ASSUME pc' = "explore" \/ pc' = "aborted" PROVE AssertedInv'
  BY <1>1 DEF AssertedInv
<1>2. ASSUME UNCHANGED <<game, bad>>, ~AssertFails PROVE AssertedInv'
  BY <1>2 DEF AssertedInv, AssertFails
<1>3. ASSUME UNCHANGED <<game, bad, pc>> PROVE AssertedInv'
  BY <1>3 DEF AssertedInv, AssertFails
<1>4. CASE Exploration
  <2>1. CASE Encode
    BY <2>1, <1>2 DEF Encode, explored
  <2>2. CASE ~Encode
    BY <2>2, <1>4, <1>1 DEF Exploration, Pop, Explore, ExploreAll, Abort
  <2> QED BY <2>1, <2>2
<1>5. CASE FixOutput \/ AddRegionOutput \/ OutputsDone \/ FixLatch \/ LatchesDone
  BY <1>5, <1>2
  DEF FixOutput, AddRegionOutput, OutputsDone, FixLatch, LatchesDone, explored, AssertedInv
<1>6. ASSUME NEW i \in Inputs, Play(i) PROVE AssertedInv'
  BY <1>6, <1>3 DEF Play, Move, explored
<1>7. ASSUME NEW i \in Inputs, NEW o \in Outputs, PlayLetter(i, o) PROVE AssertedInv'
  BY <1>7, <1>3 DEF PlayLetter, Move, explored
<1>8. CASE UNCHANGED vars \/ Aborted
  BY <1>8, <1>3 DEF vars, Aborted, explored
<1> QED BY <1>4, <1>5, <1>6, <1>7, <1>8 DEF Next

(***************************************************************************)
(* A value that has passed the assertions leaves the bit of the sign free: *)
(* had it a digit there, it would have one next to it as well.             *)
(***************************************************************************)
LEMMA PassedFits ==
  ASSUME NEW x \in Int, ~LeavesNoBit(x)
  PROVE  x < PowerOf2[vec_bits - 1]
<1>1. vec_bits \in Nat \ {0}
  BY BitsOfVectors
<1>2. vec_bits - 1 \in 0 .. vec_bits /\ vec_bits - 2 - (vec_bits - 1) < 1
  BY <1>1
<1>3. ~(x >= PowerOf2[vec_bits - 1])
  BY <1>2 DEF LeavesNoBit
<1>4. PowerOf2[vec_bits - 1] \in Nat
  BY <1>1, PowersOf2
<1> QED BY <1>3, <1>4

(***************************************************************************)
(* The vector that an unsafe letter leads to can be read from the outputs: *)
(* each of its components leaves the bit of the sign free.                 *)
(***************************************************************************)
LEMMA PlayImpliesReadable ==
  ASSUME NoRaise, VectorsFit, TypesInv, PlayInv, AssertedInv
  PROVE  VectorReadable
<1>1. SUFFICES ASSUME pc = "play", mode = "winregion", NEW l \in aut.allowed,
                      Forward(aut, v, l[1], l[2], game.K) \notin game.region, NEW q \in States
               PROVE  ValueOf(OutputsOn(circuit, l[1] \cup l[2] \cup latches), q)
                        = Forward(aut, v, l[1], l[2], game.K)[q]
  BY DEF VectorReadable
<1> DEFINE i == l[1]
           o == l[2]
           on == OutputsOn(circuit, i \cup o \cup latches)
<1>2. PICK n \in Ids : At(n)
  BY <1>1 DEF PlayInv
<1>3. ExplorationInv
  BY DEF TypesInv, FunctionsInv
<1>4. /\ game.K = Kfrom /\ game \in Solved /\ aut \in Automata /\ game.K \in 1 .. TopK
      /\ states[n + 1] \in Vectors /\ v = states[n + 1]
  BY <1>1, <1>2, <1>3, StateVectors DEF NoRaise, At
<1>5. i \in Inputs /\ o \in Outputs /\ <<i, o>> \in aut.allowed
  BY <1>4, GameAssumption DEF IsAutomaton
<1> HIDE DEF i, o
<1>6. Forward(aut, v, i, o, game.K) = Here(n, i, o) /\ Here(n, i, o) \notin game.region
  BY <1>1, <1>4 DEF Here, i, o
<1>7. Here(n, i, o)[q] \in -1 .. game.K
  BY <1>4, <1>5, <1>6, ForwardCapped
<1>8. \A k \in 0 .. vec_bits - 1 : <<q, k>> \in on <=> k \in VectorBits(Here(n, i, o)[q])
  BY <1>1, <1>2, <1>5, <1>6, BitsOn
<1>9. game.debug => ~LeavesNoBit(Here(n, i, o)[q])
  <2>1. \E t \in bad : t.succ = Here(n, i, o)
    BY <1>1, <1>3, <1>5, <1>6, BadFound
  <2> QED BY <2>1, <1>1 DEF AssertedInv, AssertFails
<1> HIDE DEF on
<1>10. ValueOf(on, q) = Here(n, i, o)[q]
  <2> DEFINE x == Here(n, i, o)[q]
  <2>1. x \in Int /\ x >= -1 /\ x < PowerOf2[vec_bits - 1]
    <3>1. game.K \in Int /\ game.K =< Kto /\ Kto \in Int
      BY <1>4, SynthesisAssumption
    <3>2. x \in Int /\ x >= -1 /\ x =< game.K
      BY <1>7, <3>1
    <3> HIDE DEF x
    <3>3. CASE game.debug
      <4>1. ~LeavesNoBit(x)
        BY <3>3, <1>9 DEF x
      <4> QED BY <4>1, <3>2, PassedFits
    <3>4. CASE ~game.debug
      <4>1. PowerOf2[vec_bits - 1] \in Nat /\ Kto < PowerOf2[vec_bits - 1]
        <5>1. vec_bits - 1 \in Nat
          BY BitsOfVectors
        <5> QED BY <5>1, <3>4, <1>4, PowersOf2 DEF VectorsFit
      <4> QED BY <4>1, <3>1, <3>2
    <3> QED BY <3>2, <3>3, <3>4
  <2>2. \A k \in 0 .. vec_bits - 1 : <<q, k>> \in on <=> k \in VectorBits(x)
    BY <1>8
  <2> HIDE DEF x
  <2>3. ValueOf(on, q) = x
    BY <2>1, <2>2, ValueRead
  <2> QED BY <2>3 DEF x
<1> QED BY <1>6, <1>10 DEF on, i, o

(***************************************************************************)
(* VectorReadable, for every game: the vector that the outputs of the      *)
(* winning region circuit spell is the one that the unsafe letter leads    *)
(* to, when solve did not raise K.  A program with assertions may stop     *)
(* instead of writing the circuit, and does so for many games (see         *)
(* LeavesNoBit); what it writes can be read, whatever Kto is.  One without *)
(* them always writes it, and needs a Kto that is not a power of two: with *)
(* Kto = 2, a counter of 2 would be written like -1.                       *)
(***************************************************************************)
THEOREM VectorIsReadable ==
  ASSUME NoRaise, VectorsFit
  PROVE  Spec => []VectorReadable
<1>1. Init => AssertedInv
  BY DEF Init, AssertedInv
<1>2. AssertedInv /\ [Next]_vars => AssertedInv'
  BY AssertedStep
<1>3. TypesInv /\ PlayInv /\ AssertedInv => VectorReadable
  BY PlayImpliesReadable
<1> QED BY <1>1, <1>2, <1>3, PlayAlways, PTL DEF Spec

=============================================================================
