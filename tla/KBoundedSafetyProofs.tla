------------------------ MODULE KBoundedSafetyProofs ------------------------
(***************************************************************************)
(* The solver of k-bounded_safety_aut.hh is exact, for every automaton,    *)
(* every Kfrom, Kto and Kinc and every choice of the input picker, as long *)
(* as the values of K fit in VECTOR_ELT_T, the initial configuration is    *)
(* the default one, and the start region is between the winning region and *)
(* the safe vectors for Kfrom.  Without the first two it is not: with K =  *)
(* 128 a char wraps around, and with --init a region may be returned in    *)
(* the first turn that does not hold the configuration.  The third holds   *)
(* by construction for the game of one formula (FreshStarts); games that   *)
(* composition_mt merges are only solved with Kinc = 0, that is Kfrom =    *)
(* Kto, since ltl_processor::run refuses a composition otherwise           *)
(* (acacia-bonsai.cc:252).                                                 *)
(***************************************************************************)
EXTENDS KBoundedSafety, KBoundedGameProofs, TLAPS

NoOverflow == TopK < EltHalf

DefaultInits == \A a \in Automata : DefaultInit(a)

GoodStarts ==
  \A a \in Automata : /\ WinRegion(a, Kfrom) \subseteq a.start
                      /\ a.start \subseteq Safe(Kfrom)
                      /\ Bottom \in a.start
                      /\ a.init \in a.start

(***************************************************************************)
(* The inductive invariant.  Region says that F is a set of safe vectors   *)
(* that always holds the all -1 vector; Outcome is what the loop knows     *)
(* about the initial configuration when it goes on and when it stops.      *)
(***************************************************************************)
Region == F \subseteq Safe(K) /\ Bottom \in F

Outcome ==
  /\ result = "running" => aut.init \in F
  /\ result = "region"  => Controlled(aut, F, K) /\ aut.init \in F
  /\ result = "nullopt" => aut.init \notin F

IInv == TypeOK /\ Region /\ Complete /\ Outcome

(***************************************************************************)
(* The conversion to VECTOR_ELT_T is the identity on the values it meets.  *)
(***************************************************************************)
LEMMA EltIdentity ==
  ASSUME NoOverflow, NEW x \in 0 .. TopK
  PROVE  Elt(x) = x
<1>1. EltHalf \in Int /\ EltHalf > TopK /\ x \in Int /\ TopK \in Int
  BY GameAssumption, KAssumption DEF NoOverflow
<1>2. x + EltHalf \in 0 .. (2 * EltHalf - 1)
  BY <1>1
<1>3. (x + EltHalf) % (2 * EltHalf) = x + EltHalf
  BY <1>1, <1>2
<1> QED BY <1>1, <1>3 DEF Elt

(***************************************************************************)
(* The values of K: positive, at most TopK, and Kinc below TopK when K is  *)
(* raised.                                                                 *)
(***************************************************************************)
LEMMA KRange ==
  ASSUME K \in Kfrom .. TopK
  PROVE  /\ K \in 1 .. TopK
         /\ K < Kto => /\ K + Kinc \in Kfrom .. TopK
                       /\ Kinc \in Int /\ Kinc >= 1
                       /\ K + Kinc \in 1 .. TopK
BY GameAssumption, KAssumption

(***************************************************************************)
(* Under NoOverflow the solver plays the game of KBoundedGame.             *)
(***************************************************************************)
LEMMA SolverActions ==
  ASSUME NoOverflow, K \in Kfrom .. TopK
  PROVE  /\ \A v, i, o : Fwd(v, i, o) = Forward(aut, v, i, o, K)
         /\ \A m, i, o : Bwd(m, i, o) = Backward(aut, m, i, o, Uniform(K - 1))
<1>1. K \in 0 .. TopK /\ K - 1 \in 0 .. TopK
  BY GameAssumption, KAssumption
<1>2. Elt(K) = K /\ Elt(K - 1) = K - 1
  BY <1>1, EltIdentity
<1> QED BY <1>2 DEF Fwd, Bwd

(***************************************************************************)
(* The all -1 vector is safe for every K.                                  *)
(***************************************************************************)
LEMMA BottomSafe ==
  ASSUME NEW k \in 1 .. TopK
  PROVE  Bottom \in Vectors /\ Bottom \in Safe(k)
<1>1. Bottom \in Vectors
  BY GameAssumption DEF Bottom, Vectors, Values
<1>2. \A q \in NonBool : Bottom[q] =< k - 1
  BY GameAssumption DEF Bottom
<1> QED BY <1>1, <1>2, SafeIff

(***************************************************************************)
(* A controlled set of safe vectors inside the winning region's bound F is *)
(* inside cpre of F: cpre_inplace never removes a winning vector.          *)
(***************************************************************************)
LEMMA CPreKeepsControlled ==
  ASSUME NoOverflow, TypeOK, Region, NEW i \in Inputs,
         NEW W \in SUBSET Safe(K), Controlled(aut, W, K), W \subseteq F
  PROVE  W \subseteq CPre(i)
<1>1. K \in Kfrom .. TopK /\ K \in 1 .. TopK /\ aut \in Automata
  BY KRange DEF TypeOK
<1> SUFFICES ASSUME NEW v \in W PROVE v \in CPre(i)
  OBVIOUS
<1>2. PICK o \in Answers(aut, i) : Forward(aut, v, i, o, K) \in W
  BY DEF Controlled
<1>3. o \in Outputs
  BY DEF Answers
<1> DEFINE m == Forward(aut, v, i, o, K)
<1>4. v \in Safe(K) /\ m \in Safe(K) /\ m \in F /\ v \in F
  BY <1>2
<1>5. v \in Vectors /\ m \in Vectors
  BY <1>4 DEF Safe, Down
<1>6. Leq(v, Backward(aut, m, i, o, Uniform(K - 1)))
  <2>1. Leq(m, m)
    BY <1>5, LeqOrder
  <2> QED BY <1>1, <1>3, <1>4, <2>1, Galois
<1>7. Leq(v, Bwd(m, i, o))
  BY <1>1, <1>6, SolverActions
<1> HIDE DEF m
<1> QED BY <1>2, <1>4, <1>5, <1>7 DEF CPre, Down

(***************************************************************************)
(* Hence a cpre step keeps Region and Complete.                            *)
(***************************************************************************)
LEMMA CPreInvariant ==
  ASSUME NoOverflow, TypeOK, Region, Complete, NEW i \in Inputs
  PROVE  /\ CPre(i) \subseteq F
         /\ Bottom \in CPre(i)
         /\ WinRegion(aut, K) \subseteq CPre(i)
<1>1. CPre(i) \subseteq F
  BY DEF CPre
<1>2. K \in 1 .. TopK
  BY KRange DEF TypeOK
<1>3. Bottom \in CPre(i)
  <2>1. Bottom \in Vectors
    BY <1>2, BottomSafe
  <2>2. Leq(Bottom, Bottom)
    BY <2>1, LeqOrder
  <2> QED BY <2>1, <2>2 DEF CPre, Down, Region
<1>4. ASSUME NEW W \in SUBSET Safe(K), Controlled(aut, W, K)
      PROVE  W \subseteq CPre(i)
  <2>1. W \subseteq F
    BY <1>4 DEF Complete, WinRegion
  <2> QED BY <1>4, <2>1, CPreKeepsControlled
<1>5. WinRegion(aut, K) \subseteq CPre(i)
  BY <1>4 DEF WinRegion
<1> QED BY <1>1, <1>3, <1>5

(***************************************************************************)
(* What a vector that is safe for K + Kinc is at K: every real counter     *)
(* loses Kinc, and booleans are forgotten.  AddKinc undoes it.             *)
(***************************************************************************)
SubKinc(v) ==
  [q \in States |-> IF q \in NonBool THEN AtLeastMinus1(v[q] - Kinc) ELSE -1]

LEMMA SubKincSafe ==
  ASSUME K \in Kfrom .. TopK, K < Kto, NEW v \in Vectors, v \in Safe(K + Kinc)
  PROVE  /\ SubKinc(v) \in Vectors
         /\ SubKinc(v) \in Safe(K)
<1>1. /\ K \in 1 .. TopK /\ K + Kinc \in 1 .. TopK /\ Kinc \in Int /\ Kinc >= 1
      /\ TopK \in Int /\ NonBool \subseteq States
  BY KRange, GameAssumption
<1>2. \A q \in NonBool : v[q] =< K + Kinc - 1
  BY <1>1, SafeIff
<1>3. ASSUME NEW q \in States
      PROVE  /\ SubKinc(v)[q] \in -1 .. TopK
             /\ q \in NonBool => SubKinc(v)[q] =< K - 1
             /\ q \notin NonBool => SubKinc(v)[q] =< 0
  <2>1. v[q] \in -1 .. TopK
    BY DEF Vectors, Values
  <2>2. CASE q \notin NonBool
    BY <1>1, <2>2 DEF SubKinc
  <2>3. CASE q \in NonBool
    <3>1. SubKinc(v)[q] = AtLeastMinus1(v[q] - Kinc)
      BY <2>3 DEF SubKinc
    <3> QED BY <1>1, <1>2, <2>1, <2>3, <3>1 DEF AtLeastMinus1
  <2> QED BY <2>2, <2>3
<1>4. SubKinc(v) \in Vectors
  BY <1>3 DEF SubKinc, Vectors, Values
<1> QED BY <1>1, <1>3, <1>4, SafeIff

(***************************************************************************)
(* Playing from SubKinc(v) at K stays below SubKinc of playing from v at   *)
(* K + Kinc.  This is where it matters that SubKinc forgets the booleans:  *)
(* a run that is boolean in v may enter a counter at 0 and would not be    *)
(* covered.                                                                *)
(***************************************************************************)
LEMMA SubKincSimulates ==
  ASSUME K \in Kfrom .. TopK, K < Kto, aut \in Automata,
         NEW u \in Vectors, NEW v \in Vectors, Leq(u, SubKinc(v)),
         NEW i \in Inputs, NEW o \in Outputs,
         Forward(aut, v, i, o, K + Kinc) \in Safe(K + Kinc)
  PROVE  Leq(Forward(aut, u, i, o, K), SubKinc(Forward(aut, v, i, o, K + Kinc)))
<1> DEFINE f == Forward(aut, v, i, o, K + Kinc)
<1>1. /\ K \in 1 .. TopK /\ K + Kinc \in 1 .. TopK /\ Kinc \in Int /\ Kinc >= 1
      /\ TopK \in Int /\ NonBool \subseteq States
  BY KRange, GameAssumption
<1>2. f \in Vectors
  BY <1>1, ForwardType
<1>3. RunsBelow(aut, v, i, o, f)
  <2>1. Leq(f, f)
    BY <1>2, LeqOrder
  <2> QED BY <1>1, <1>2, <2>1, ForwardBelow
<1>4. SubKinc(f) \in Vectors /\ SubKinc(f) \in Safe(K)
  BY <1>2, SubKincSafe
<1> HIDE DEF f
<1>5. ASSUME NEW p \in States, NEW q \in ActivePreds(aut, u, i, o, p)
      PROVE  u[q] + Count(aut, p) =< SubKinc(f)[p]
  <2>1. q \in States /\ u[q] # -1 /\ <<q, i, o, p>> \in aut.edge
    BY DEF ActivePreds
  <2>2. u[q] \in Int /\ u[q] >= 0 /\ v[q] \in Int /\ f[p] \in Int
    BY <1>1, <1>2, <2>1 DEF Vectors, Values
  <2>3. u[q] =< SubKinc(v)[q]
    BY <2>1 DEF Leq
  <2>4. q \in NonBool
    BY <2>1, <2>2, <2>3 DEF SubKinc
  <2>5. SubKinc(v)[q] = AtLeastMinus1(v[q] - Kinc)
    BY <2>1, <2>4 DEF SubKinc
  <2>6. u[q] =< v[q] - Kinc
    BY <1>1, <2>2, <2>3, <2>5 DEF AtLeastMinus1
  <2>7. p \in NonBool
    BY <2>1, <2>4, GameAssumption DEF IsAutomaton
  <2>8. SubKinc(f)[p] = AtLeastMinus1(f[p] - Kinc)
    BY <2>7 DEF SubKinc
  <2>9. q \in ActivePreds(aut, v, i, o, p)
    BY <1>1, <2>1, <2>2, <2>6 DEF ActivePreds
  <2>10. v[q] + Count(aut, p) =< f[p]
    BY <1>3, <2>9 DEF RunsBelow
  <2>11. Count(aut, p) \in {0, 1}
    BY DEF Count
  <2> QED BY <1>1, <2>2, <2>6, <2>8, <2>10, <2>11 DEF AtLeastMinus1
<1>6. RunsBelow(aut, u, i, o, SubKinc(f))
  BY <1>5 DEF RunsBelow
<1> QED BY <1>1, <1>4, <1>6, ForwardBelow DEF f

(***************************************************************************)
(* What survives a cpre step at K, plus Kinc, covers the winning region    *)
(* for K + Kinc: raising K need not restart from all safe vectors.         *)
(***************************************************************************)
LEMMA RaiseComplete ==
  ASSUME NoOverflow, TypeOK, K < Kto, NEW G \in SUBSET Safe(K),
         WinRegion(aut, K) \subseteq G
  PROVE  WinRegion(aut, K + Kinc) \subseteq Down({AddKinc(s) : s \in G})
<1>1. /\ K \in Kfrom .. TopK /\ K \in 1 .. TopK /\ K + Kinc \in 1 .. TopK
      /\ Kinc \in Int /\ Kinc >= 1 /\ TopK \in Int /\ aut \in Automata
      /\ NonBool \subseteq States
  BY KRange, GameAssumption DEF TypeOK
<1> SUFFICES ASSUME NEW W \in SUBSET Safe(K + Kinc), Controlled(aut, W, K + Kinc),
                    NEW v \in W
             PROVE  v \in Down({AddKinc(s) : s \in G})
  BY DEF WinRegion
<1> DEFINE X == {u \in Safe(K) : \E w \in W : Leq(u, SubKinc(w))}
<1>2. \A w \in W : w \in Vectors /\ w \in Safe(K + Kinc)
  BY DEF Safe, Down
<1>3. Controlled(aut, X, K)
  <2> SUFFICES ASSUME NEW u \in X, NEW i \in Inputs
               PROVE  \E o \in Answers(aut, i) : Forward(aut, u, i, o, K) \in X
    BY DEF Controlled
  <2>1. PICK w \in W : Leq(u, SubKinc(w))
    OBVIOUS
  <2>2. PICK o \in Answers(aut, i) : Forward(aut, w, i, o, K + Kinc) \in W
    BY DEF Controlled
  <2>3. o \in Outputs
    BY DEF Answers
  <2>4. u \in Vectors
    BY DEF Safe, Down
  <2> DEFINE f == Forward(aut, w, i, o, K + Kinc)
             g == Forward(aut, u, i, o, K)
  <2>5. Leq(g, SubKinc(f))
    BY <1>1, <1>2, <2>1, <2>2, <2>3, <2>4, SubKincSimulates
  <2>6. SubKinc(f) \in Vectors /\ SubKinc(f) \in Safe(K)
    BY <1>1, <1>2, <2>2, SubKincSafe
  <2>7. g \in Vectors
    BY <1>1, <2>3, <2>4, ForwardType
  <2> HIDE DEF f, g
  <2>8. g \in Safe(K)
    <3>1. \A q \in NonBool : SubKinc(f)[q] =< K - 1
      BY <1>1, <2>6, SafeIff
    <3>2. \A q \in NonBool : g[q] =< SubKinc(f)[q]
      BY <1>1, <2>5 DEF Leq
    <3>3. \A q \in NonBool : g[q] \in Int /\ SubKinc(f)[q] \in Int
      BY <1>1, <2>6, <2>7 DEF Vectors, Values
    <3>4. \A q \in NonBool : g[q] =< K - 1
      BY <1>1, <3>1, <3>2, <3>3
    <3> QED BY <1>1, <2>7, <3>4, SafeIff
  <2>9. f \in W
    BY <2>2 DEF f
  <2>10. g \in X
    BY <2>5, <2>8, <2>9
  <2> HIDE DEF X
  <2> QED BY <2>2, <2>10 DEF g
<1>4. SubKinc(v) \in G
  <2>1. SubKinc(v) \in Vectors /\ SubKinc(v) \in Safe(K)
    BY <1>1, <1>2, SubKincSafe
  <2>2. SubKinc(v) \in X
    BY <2>1, LeqOrder
  <2>3. X \in SUBSET Safe(K)
    OBVIOUS
  <2> HIDE DEF X
  <2>4. X \subseteq WinRegion(aut, K)
    BY <1>3, <2>3 DEF WinRegion
  <2> QED BY <2>2, <2>4
<1>5. ASSUME NEW q \in States PROVE v[q] =< AddKinc(SubKinc(v))[q]
  <2>1. v[q] \in -1 .. TopK
    BY <1>2 DEF Vectors, Values
  <2>2. CASE q \notin NonBool
    BY <1>2, <2>2 DEF Vectors, AddKinc
  <2>3. CASE q \in NonBool
    <3> DEFINE x == AtLeastMinus1(v[q] - Kinc) + Kinc
    <3>1. v[q] =< K + Kinc - 1
      BY <1>1, <1>2, <2>3, SafeIff
    <3>2. x \in 0 .. TopK /\ v[q] =< x
      BY <1>1, <2>1, <3>1 DEF AtLeastMinus1
    <3>3. AddKinc(SubKinc(v))[q] = Elt(x)
      BY <2>3 DEF AddKinc, SubKinc
    <3> HIDE DEF x
    <3> QED BY <3>2, <3>3, EltIdentity
  <2> QED BY <2>2, <2>3
<1>6. Leq(v, AddKinc(SubKinc(v)))
  BY <1>5 DEF Leq
<1> QED BY <1>2, <1>4, <1>6 DEF Down

(***************************************************************************)
(* The counters of a default initial configuration.                        *)
(***************************************************************************)
LEMMA DefaultInitCounters ==
  ASSUME DefaultInits, aut \in Automata, NEW q \in States
  PROVE  aut.init[q] \in {-1, 0}
<1>1. PICK s \in States : aut.init = [r \in States |-> IF r = s THEN 0 ELSE -1]
  BY DEF DefaultInits, DefaultInit
<1>2. aut.init[q] = IF q = s THEN 0 ELSE -1
  BY <1>1
<1> QED BY <1>2

(***************************************************************************)
(* A raised F consists of safe vectors for the new K, and holds every      *)
(* default initial configuration.                                          *)
(***************************************************************************)
LEMMA RaiseRegion ==
  ASSUME NoOverflow, DefaultInits, TypeOK, K < Kto, NEW G \in SUBSET Safe(K), Bottom \in G
  PROVE  LET R == Down({AddKinc(s) : s \in G})
         IN  R \subseteq Safe(K + Kinc) /\ Bottom \in R /\ aut.init \in R
<1> DEFINE R == Down({AddKinc(s) : s \in G})
<1>1. /\ K \in Kfrom .. TopK /\ K \in 1 .. TopK /\ K + Kinc \in 1 .. TopK
      /\ Kinc \in Int /\ Kinc >= 1 /\ TopK \in Int /\ aut \in Automata
      /\ NonBool \subseteq States
  BY KRange, GameAssumption DEF TypeOK
<1>2. ASSUME NEW s \in G, NEW q \in NonBool
      PROVE  AddKinc(s)[q] = s[q] + Kinc /\ s[q] + Kinc \in 0 .. K + Kinc - 1
  <2>1. s \in Vectors /\ s \in Safe(K)
    BY DEF Safe, Down
  <2>2. s[q] \in -1 .. TopK /\ s[q] =< K - 1
    BY <1>1, <2>1, SafeIff DEF Vectors, Values
  <2>3. s[q] + Kinc \in 0 .. TopK /\ s[q] + Kinc \in 0 .. K + Kinc - 1
    BY <1>1, <2>2
  <2> QED BY <1>1, <2>3, EltIdentity DEF AddKinc
<1>3. R \subseteq Safe(K + Kinc)
  <2> SUFFICES ASSUME NEW v \in R PROVE v \in Safe(K + Kinc)
    OBVIOUS
  <2>1. v \in Vectors
    BY DEF Down
  <2>2. PICK s \in G : Leq(v, AddKinc(s))
    BY DEF Down
  <2> HIDE DEF R
  <2>3. \A q \in NonBool : v[q] =< K + Kinc - 1
    BY <1>1, <1>2, <2>1, <2>2 DEF Leq, Vectors, Values
  <2> QED BY <1>1, <2>1, <2>3, SafeIff
<1>4. ASSUME NEW q \in States
      PROVE  AddKinc(Bottom)[q] \in Int /\ AddKinc(Bottom)[q] >= 0
  <2>1. CASE q \in NonBool
    BY <1>1, <1>2, <2>1
  <2>2. CASE q \notin NonBool
    <3>1. AddKinc(Bottom)[q] = 0
      BY <2>2 DEF AddKinc
    <3> QED BY <3>1
  <2> QED BY <2>1, <2>2
<1>5. ASSUME NEW v \in Vectors, \A q \in States : v[q] =< 0
      PROVE  v \in R
  <2>1. Leq(v, AddKinc(Bottom))
    BY <1>1, <1>4, <1>5 DEF Leq, Vectors, Values
  <2> QED BY <2>1 DEF Down
<1> HIDE DEF R
<1>6. Bottom \in R
  BY <1>1, <1>5, BottomSafe DEF Bottom
<1>7. aut.init \in Vectors
  BY <1>1, GameAssumption DEF IsAutomaton
<1>8. \A q \in States : aut.init[q] =< 0
  BY <1>1, DefaultInitCounters
<1>9. aut.init \in R
  BY <1>5, <1>7, <1>8
<1> QED BY <1>3, <1>6, <1>9 DEF R

(***************************************************************************)
(* The start region of prepare_formula, all safe vectors for Kfrom, is a   *)
(* good start.                                                             *)
(***************************************************************************)
LEMMA FreshStarts ==
  ASSUME NoOverflow, DefaultInits, \A a \in Automata : a.start = FreshStart
  PROVE  GoodStarts
<1> SUFFICES ASSUME NEW a \in Automata
             PROVE  /\ WinRegion(a, Kfrom) \subseteq a.start
                    /\ a.start \subseteq Safe(Kfrom)
                    /\ Bottom \in a.start
                    /\ a.init \in a.start
  BY DEF GoodStarts
<1>1. Kfrom \in 1 .. TopK /\ TopK \in Int /\ NonBool \subseteq States
  BY GameAssumption, KAssumption
<1>2. Kfrom - 1 \in 0 .. TopK
  BY <1>1
<1>3. a.start = Safe(Kfrom)
  BY <1>2, EltIdentity DEF FreshStart, Safe
<1>4. a.init \in Vectors
  BY GameAssumption DEF IsAutomaton
<1>5. \A q \in States : a.init[q] \in {-1, 0}
  BY DEF DefaultInits, DefaultInit
<1>6. a.init \in Safe(Kfrom)
  <2>1. \A q \in NonBool : a.init[q] =< Kfrom - 1
    BY <1>1, <1>5
  <2> QED BY <1>1, <1>4, <2>1, SafeIff
<1> QED BY <1>1, <1>3, <1>6, BottomSafe DEF WinRegion

(***************************************************************************)
(* A good start establishes the invariant.                                 *)
(***************************************************************************)
LEMMA InitInvariant ==
  ASSUME GoodStarts, Init
  PROVE  IInv
<1>1. Kfrom \in 1 .. TopK /\ K = Kfrom /\ aut \in Automata /\ F = aut.start
  BY GameAssumption, KAssumption DEF Init
<1>2. F \subseteq Safe(K) /\ Bottom \in F /\ aut.init \in F /\ WinRegion(aut, K) \subseteq F
  BY <1>1 DEF GoodStarts
<1>3. TypeOK
  BY <1>1, <1>2 DEF Init, TypeOK, Safe, Down
<1>4. Region /\ Complete /\ Outcome
  BY <1>2 DEF Init, Region, Complete, Outcome
<1> QED BY <1>3, <1>4 DEF IInv

(***************************************************************************)
(* Every step of the loop keeps the inductive invariant.                   *)
(***************************************************************************)
LEMMA StepInvariant ==
  ASSUME NoOverflow, DefaultInits, IInv, [Next]_vars
  PROVE  IInv'
<1>0. TypeOK /\ Region /\ Complete /\ Outcome
  BY DEF IInv
<1>1. /\ K \in Kfrom .. TopK /\ K \in 1 .. TopK /\ TopK \in Int /\ aut \in Automata
  BY <1>0, KRange, GameAssumption DEF TypeOK
<1>2. CASE Return
  <2>1. /\ result = "running" /\ result' = "region"
        /\ aut' = aut /\ K' = K /\ F' = F
    BY <1>2 DEF Return
  <2>2. TypeOK' /\ Region' /\ Complete'
    BY <1>0, <2>1 DEF TypeOK, Region, Complete, WinRegion, Safe, Controlled
  <2>3. \A f \in F, i \in Inputs : \E o \in Answers(aut, i) : Fwd(f, i, o) \in F
    BY <1>2 DEF Return, Critical, Witness
  <2>4. Controlled(aut, F, K)
    BY <1>1, <2>3, SolverActions DEF Controlled
  <2>5. Outcome'
    BY <1>0, <2>1, <2>4 DEF Outcome
  <2> QED BY <2>2, <2>5 DEF IInv
<1>3. ASSUME NEW i \in Inputs, Iterate(i)
      PROVE  IInv'
  <2> DEFINE G == CPre(i)
  <2>1. G \subseteq F /\ Bottom \in G /\ WinRegion(aut, K) \subseteq G
    BY <1>0, CPreInvariant
  <2>2. G \subseteq Safe(K) /\ G \in SUBSET Vectors
    BY <1>0, <2>1 DEF Region, TypeOK
  <2>3. result = "running" /\ aut' = aut /\ (Narrow(G) \/ Raise(G) \/ GiveUp(G))
    BY <1>3 DEF Iterate
  <2> HIDE DEF G
  <2>4. CASE Narrow(G)
    <3>1. F' = G /\ K' = K /\ result' = "running" /\ aut.init \in G
      BY <2>3, <2>4 DEF Narrow
    <3>2. TypeOK'
      BY <1>0, <2>2, <2>3, <3>1 DEF TypeOK
    <3>3. Region' /\ Complete' /\ Outcome'
      BY <2>1, <2>2, <2>3, <3>1 DEF Region, Complete, Outcome
    <3> QED BY <3>2, <3>3 DEF IInv
  <2>5. CASE GiveUp(G)
    <3>1. F' = G /\ K' = K /\ result' = "nullopt" /\ aut.init \notin G
      BY <2>5 DEF GiveUp
    <3>2. TypeOK'
      BY <1>0, <2>2, <2>3, <3>1 DEF TypeOK
    <3>3. Region' /\ Complete' /\ Outcome'
      BY <2>1, <2>2, <2>3, <3>1 DEF Region, Complete, Outcome
    <3> QED BY <3>2, <3>3 DEF IInv
  <2>6. CASE Raise(G)
    <3> DEFINE R == Down({AddKinc(s) : s \in G})
    <3>1. F' = R /\ K' = K + Kinc /\ result' = "running" /\ K < Kto
      BY <2>3, <2>6 DEF Raise
    <3>2. R \subseteq Safe(K + Kinc) /\ Bottom \in R /\ aut.init \in R
      BY <1>0, <2>1, <2>2, <3>1, RaiseRegion
    <3>3. WinRegion(aut, K + Kinc) \subseteq R
      BY <1>0, <2>1, <2>2, <3>1, RaiseComplete
    <3>4. R \in SUBSET Vectors
      BY DEF Down
    <3>5. K + Kinc \in Kfrom .. TopK
      BY <1>1, <3>1, KRange
    <3> HIDE DEF R
    <3>6. TypeOK'
      BY <1>0, <2>3, <3>1, <3>4, <3>5 DEF TypeOK
    <3>7. Region' /\ Complete' /\ Outcome'
      BY <2>3, <3>1, <3>2, <3>3 DEF Region, Complete, Outcome
    <3> QED BY <3>6, <3>7 DEF IInv
  <2> QED BY <2>3, <2>4, <2>5, <2>6
<1>4. CASE UNCHANGED vars
  BY <1>0, <1>4 DEF vars, IInv, TypeOK, Region, Complete, Outcome
<1> QED BY <1>2, <1>3, <1>4 DEF Next, Turn, Done

(***************************************************************************)
(* The inductive invariant holds in every reachable state.                 *)
(***************************************************************************)
THEOREM SolverInvariant ==
  ASSUME NoOverflow, DefaultInits, GoodStarts
  PROVE  Spec => []IInv
<1>1. Init => IInv
  BY InitInvariant
<1>2. IInv /\ [Next]_vars => IInv'
  BY StepInvariant
<1> QED BY <1>1, <1>2, PTL DEF Spec

(***************************************************************************)
(* Type correctness of the solver: F never leaves the vectors and K never  *)
(* passes its bound.                                                       *)
(***************************************************************************)
THEOREM SolverTypeOK ==
  ASSUME NoOverflow, DefaultInits, GoodStarts
  PROVE  Spec => []TypeOK
<1>1. IInv => TypeOK
  BY DEF IInv
<1> QED BY <1>1, SolverInvariant, PTL

(***************************************************************************)
(* No winning vector is ever lost, also when K is raised.                  *)
(***************************************************************************)
THEOREM SolverComplete ==
  ASSUME NoOverflow, DefaultInits, GoodStarts
  PROVE  Spec => []Complete
<1>1. IInv => Complete
  BY DEF IInv
<1> QED BY <1>1, SolverInvariant, PTL

(***************************************************************************)
(* A returned region is safe, controlled and holds the initial             *)
(* configuration.                                                          *)
(***************************************************************************)
THEOREM SolverRegionControlled ==
  ASSUME NoOverflow, DefaultInits, GoodStarts
  PROVE  Spec => []RegionControlled
<1>1. IInv => RegionControlled
  BY DEF IInv, Region, Outcome, RegionControlled
<1> QED BY <1>1, SolverInvariant, PTL

(***************************************************************************)
(* solve returns a region if and only if the controller wins the game for  *)
(* the K it stopped at.                                                    *)
(***************************************************************************)
THEOREM SolverExact ==
  ASSUME NoOverflow, DefaultInits, GoodStarts
  PROVE  Spec => []VerdictExact
<1>1. ASSUME IInv PROVE VerdictExact
  <2>1. CASE result = "region"
    BY <1>1, <2>1 DEF IInv, Region, Outcome, VerdictExact, Winning, WinRegion
  <2>2. CASE result # "region"
    BY <1>1, <2>2 DEF IInv, TypeOK, Complete, Outcome, VerdictExact, Winning
  <2> QED BY <2>1, <2>2
<1> QED BY <1>1, SolverInvariant, PTL
=============================================================================
