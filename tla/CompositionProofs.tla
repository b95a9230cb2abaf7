-------------------------- MODULE CompositionProofs --------------------------
(***************************************************************************)
(* The safety of composition_mt::run, for any number of formulas and       *)
(* workers and any worlds: nothing is lost or counted twice, results and   *)
(* announcements match, and the master and its workers implement           *)
(* Conjunction.                                                            *)
(***************************************************************************)
EXTENDS Composition, FiniteSetTheorems, SequenceTheorems, TLAPS

-----------------------------------------------------------------------------
(***************************************************************************)
(* Sets of formulas that lie in places.  A layout is a function from       *)
(* places to sets; its pieces are those that are not empty.                *)
(***************************************************************************)
IsPartition(L, F) ==
  /\ \A x \in DOMAIN L : L[x] \subseteq F
  /\ \A f \in F : \E x \in DOMAIN L : f \in L[x]
  /\ \A x, y \in DOMAIN L : x # y => L[x] \cap L[y] = {}

Pieces(L) == {L[x] : x \in DOMAIN L} \ {{}}

(* What lies in the places X, all at y. *)
Gather(L, X, y) ==
  [x \in DOMAIN L |-> IF x = y THEN UNION {L[z] : z \in X} ELSE IF x \in X THEN {} ELSE L[x]]

(* Pieces are joined, or nothing happens: a step of Conjunction. *)
Joined(B, C) == C = B \/ \E S \in (SUBSET B) \ {{}} : C = (B \ S) \cup {UNION S}

(***************************************************************************)
(* Gathering keeps a partition and joins at most one set of pieces.        *)
(***************************************************************************)
LEMMA GatherPartition ==
  ASSUME NEW L, NEW F, IsPartition(L, F), NEW X \in SUBSET DOMAIN L, NEW y \in X
  PROVE  IsPartition(Gather(L, X, y), F)
<1> DEFINE M == Gather(L, X, y)
<1>1. DOMAIN M = DOMAIN L
  BY DEF Gather
<1>2. \A x \in DOMAIN L : \A f : f \in M[x] <=>
         (x = y /\ \E z \in X : f \in L[z]) \/ (x \notin X /\ f \in L[x])
  BY DEF Gather
<1>3. \A x \in DOMAIN L : M[x] \subseteq F
  BY <1>2 DEF IsPartition
<1>4. \A f \in F : \E x \in DOMAIN L : f \in M[x]
  <2> SUFFICES ASSUME NEW f \in F
               PROVE  \E x \in DOMAIN L : f \in M[x]
    OBVIOUS
  <2>1. PICK x \in DOMAIN L : f \in L[x]
    BY DEF IsPartition
  <2>2. CASE x \in X
    BY <2>1, <2>2, <1>2
  <2>3. CASE x \notin X
    BY <2>1, <2>3, <1>2
  <2> QED BY <2>2, <2>3
<1>5. \A x, z \in DOMAIN L : x # z => M[x] \cap M[z] = {}
  <2> SUFFICES ASSUME NEW x \in DOMAIN L, NEW z \in DOMAIN L, x # z,
                      NEW f, f \in M[x], f \in M[z]
               PROVE  FALSE
    OBVIOUS
  <2>1. \A a, b \in DOMAIN L : f \in L[a] /\ f \in L[b] => a = b
    BY DEF IsPartition
  <2> QED BY <1>2, <2>1
<1> QED BY <1>1, <1>3, <1>4, <1>5 DEF IsPartition

LEMMA GatherPieces ==
  ASSUME NEW L, NEW F, IsPartition(L, F), NEW X \in SUBSET DOMAIN L, NEW y \in X
  PROVE  /\ UNION {L[z] : z \in X} = {} => Pieces(Gather(L, X, y)) = Pieces(L)
         /\ UNION {L[z] : z \in X} # {} =>
              LET S == {L[z] : z \in X} \ {{}}
              IN  /\ S \in (SUBSET Pieces(L)) \ {{}}
                  /\ Pieces(Gather(L, X, y)) = (Pieces(L) \ S) \cup {UNION S}
<1> DEFINE M == Gather(L, X, y)
           U == UNION {L[z] : z \in X}
           S == {L[z] : z \in X} \ {{}}
<1>1. /\ DOMAIN M = DOMAIN L
      /\ M[y] = U
      /\ \A x \in DOMAIN L \ X : M[x] = L[x]
      /\ \A x \in X : x # y => M[x] = {}
  BY DEF Gather
<1>2. UNION S = U
  OBVIOUS
<1>3. ASSUME U = {}
      PROVE  Pieces(M) = Pieces(L)
  <2>1. \A x \in DOMAIN L : M[x] = L[x]
    BY <1>1, <1>3
  <2> QED BY <2>1, <1>1 DEF Pieces
<1>4. ASSUME U # {}
      PROVE  /\ S \in (SUBSET Pieces(L)) \ {{}}
             /\ Pieces(M) = (Pieces(L) \ S) \cup {U}
  <2>1. S \in SUBSET Pieces(L)
    BY DEF Pieces
  <2>2. S # {}
    BY <1>4
  <2>3. ASSUME NEW x \in DOMAIN L \ X, L[x] # {}
        PROVE  L[x] \notin S
    BY <2>3 DEF IsPartition
  <2>4. ASSUME NEW p \in Pieces(M)
        PROVE  p \in (Pieces(L) \ S) \cup {U}
    <3>1. PICK x \in DOMAIN L : p = M[x] /\ p # {}
      BY <1>1 DEF Pieces
    <3>2. CASE x \in X
      BY <3>1, <3>2, <1>1
    <3>3. CASE x \notin X
      BY <3>1, <3>3, <1>1, <2>3 DEF Pieces
    <3> QED BY <3>2, <3>3
  <2>5. ASSUME NEW p \in (Pieces(L) \ S) \cup {U}
        PROVE  p \in Pieces(M)
    <3>1. CASE p = U
      BY <3>1, <1>1, <1>4 DEF Pieces
    <3>2. CASE p \in Pieces(L) \ S
      <4>1. PICK x \in DOMAIN L : p = L[x] /\ p # {}
        BY <3>2 DEF Pieces
      <4>2. x \notin X
        BY <4>1, <3>2
      <4> QED BY <4>1, <4>2, <1>1 DEF Pieces
    <3> QED BY <3>1, <3>2
  <2> HIDE DEF M, S, U
  <2> QED BY <2>1, <2>2, <2>4, <2>5
<1> QED BY <1>2, <1>3, <1>4

LEMMA GatherJoins ==
  ASSUME NEW L, NEW F, IsPartition(L, F), NEW X \in SUBSET DOMAIN L, NEW y \in X
  PROVE  Joined(Pieces(L), Pieces(Gather(L, X, y)))
<1> DEFINE S == {L[z] : z \in X} \ {{}}
           U == UNION {L[z] : z \in X}
           P == Pieces(Gather(L, X, y))
<1>1. U = {} => P = Pieces(L)
  BY GatherPieces
<1>2. U # {} => S \in (SUBSET Pieces(L)) \ {{}} /\ P = (Pieces(L) \ S) \cup {UNION S}
  BY GatherPieces
<1> HIDE DEF S, U, P
<1>3. Joined(Pieces(L), P)
  BY <1>1, <1>2 DEF Joined
<1> QED BY <1>3 DEF P

(* Moving one piece to an empty place changes no piece. *)
LEMMA GatherMoves ==
  ASSUME NEW L, NEW F, IsPartition(L, F), NEW X \in SUBSET DOMAIN L, NEW y \in X,
         NEW x \in X, \A z \in X : z # x => L[z] = {}
  PROVE  Pieces(Gather(L, X, y)) = Pieces(L)
<1> DEFINE S == {L[z] : z \in X} \ {{}}
           U == UNION {L[z] : z \in X}
<1>1. U = L[x]
  OBVIOUS
<1>2. CASE U = {}
  BY <1>2, GatherPieces
<1>3. CASE U # {}
  <2>1. S = {L[x]}
    BY <1>1, <1>3
  <2>2. /\ S \in SUBSET Pieces(L)
        /\ Pieces(Gather(L, X, y)) = (Pieces(L) \ S) \cup {UNION S}
    BY <1>3, GatherPieces
  <2>3. L[x] \in Pieces(L)
    BY <1>1, <1>3 DEF Pieces
  <2>4. UNION S = L[x]
    BY <1>1
  <2> DEFINE P == Pieces(Gather(L, X, y))
             Q == Pieces(L)
             s == L[x]
  <2>5. P = (Q \ {s}) \cup {s} /\ s \in Q
    BY <2>1, <2>2, <2>3, <2>4
  <2> HIDE DEF P, Q, s
  <2>6. P = Q
    BY <2>5
  <2> QED BY <2>6 DEF P, Q
<1> QED BY <1>2, <1>3

(* Gathering in two steps. *)
LEMMA GatherTwice ==
  ASSUME NEW L, NEW X \in SUBSET DOMAIN L, NEW y \in X,
         NEW Y \in SUBSET DOMAIN L, y \in Y, NEW z \in Y
  PROVE  Gather(Gather(L, X, y), Y, z) = Gather(L, X \cup Y, z)
<1> DEFINE M == Gather(L, X, y)
<1>1. /\ DOMAIN M = DOMAIN L
      /\ M[y] = UNION {L[v] : v \in X}
      /\ \A x \in DOMAIN L \ X : M[x] = L[x]
      /\ \A x \in X : x # y => M[x] = {}
  BY DEF Gather
<1>2. UNION {M[v] : v \in Y} = UNION {L[v] : v \in X \cup Y}
  <2>1. ASSUME NEW f, NEW v \in Y, f \in M[v]
        PROVE  \E u \in X \cup Y : f \in L[u]
    BY <2>1, <1>1
  <2>2. ASSUME NEW f, NEW u \in X \cup Y, f \in L[u]
        PROVE  \E v \in Y : f \in M[v]
    BY <2>2, <1>1
  <2> HIDE DEF M
  <2> QED BY <2>1, <2>2
<1>3. \A x \in DOMAIN L : Gather(M, Y, z)[x] = Gather(L, X \cup Y, z)[x]
  <2> SUFFICES ASSUME NEW x \in DOMAIN L, x # z
               PROVE  Gather(M, Y, z)[x] = Gather(L, X \cup Y, z)[x]
    BY <1>1, <1>2 DEF Gather
  <2>1. Gather(M, Y, z)[x] = IF x \in Y THEN {} ELSE M[x]
    BY <1>1 DEF Gather
  <2>2. Gather(L, X \cup Y, z)[x] = IF x \in X \cup Y THEN {} ELSE L[x]
    BY DEF Gather
  <2> HIDE DEF M
  <2> QED BY <2>1, <2>2, <1>1
<1> QED BY <1>1, <1>3 DEF Gather

(***************************************************************************)
(* Renaming places: M has at x what L has at o[x], and L nothing elsewhere.*)
(***************************************************************************)
LEMMA Renamed ==
  ASSUME NEW L, NEW F, IsPartition(L, F), NEW M, DOMAIN M = DOMAIN L,
         NEW o \in [DOMAIN L -> DOMAIN L],
         \A x, y \in DOMAIN L : x # y => o[x] # o[y],
         \A x \in DOMAIN L : M[x] = L[o[x]],
         \A y \in DOMAIN L : L[y] = {} \/ \E x \in DOMAIN L : o[x] = y
  PROVE  IsPartition(M, F) /\ Pieces(M) = Pieces(L)
<1>1. Pieces(M) = Pieces(L)
  <2>1. ASSUME NEW p \in Pieces(M)
        PROVE  p \in Pieces(L)
    BY <2>1 DEF Pieces
  <2>2. ASSUME NEW p \in Pieces(L)
        PROVE  p \in Pieces(M)
    <3>1. PICK y \in DOMAIN L : p = L[y] /\ L[y] # {}
      BY <2>2 DEF Pieces
    <3>2. PICK x \in DOMAIN L : o[x] = y
      BY <3>1
    <3> QED BY <3>1, <3>2 DEF Pieces
  <2> QED BY <2>1, <2>2
<1>2. IsPartition(M, F)
  <2>1. \A x \in DOMAIN M : M[x] \subseteq F
    BY DEF IsPartition
  <2>2. \A f \in F : \E x \in DOMAIN M : f \in M[x]
    <3> SUFFICES ASSUME NEW f \in F
                 PROVE  \E x \in DOMAIN L : f \in M[x]
      OBVIOUS
    <3>1. PICK y \in DOMAIN L : f \in L[y]
      BY DEF IsPartition
    <3>2. PICK x \in DOMAIN L : o[x] = y
      BY <3>1
    <3> QED BY <3>1, <3>2
  <2>3. \A x, y \in DOMAIN M : x # y => M[x] \cap M[y] = {}
    BY DEF IsPartition
  <2> QED BY <2>1, <2>2, <2>3 DEF IsPartition
<1> QED BY <1>1, <1>2

-----------------------------------------------------------------------------
(***************************************************************************)
(* The places where the master and its workers keep formulas: what is      *)
(* pending, what a worker was given and has not returned, the stored       *)
(* result, and the invariant that solving uses.                            *)
(***************************************************************************)
Stored     == <<"stored", 0>>
Invariant  == <<"invariant", 0>>
Pending(n) == <<"pending", n>>
Worker(w)  == <<"worker", w>>

Places == {Stored, Invariant} \cup {Pending(n) : n \in Nat \ {0}} \cup {Worker(w) : w \in Workers}

Played(s) == IF world.supports_invariant \/ s.base_remaining # -1 THEN s.invariant ELSE {}

QueueAt(q, n) == IF n \in DOMAIN q THEN JobParts(q[n]) ELSE {}

(* The layout of a queue, the formulas stored and played, and those each worker holds. *)
Layout(q, stored, played, held) ==
  [x \in Places |->
     CASE x[1] = "stored"    -> stored
       [] x[1] = "invariant" -> played
       [] x[1] = "pending"   -> QueueAt(q, x[2])
       [] x[1] = "worker"    -> held[x[2]]]

(* What a worker holds that is busy with j, and whose pipes hold from and to. *)
Held(j, from, to) ==
  JobParts(j)
  \cup (UNION {JobParts(from[n]) : n \in DOMAIN from})
  \cup (UNION {ResultParts(to[n]) : n \in DOMAIN to})

AllHeld == [w \in Workers |-> Held(job[w], fromMain[w], toMain[w])]

Load == Layout(st.pending_jobs, st.stored_result.parts, Played(st), AllHeld)

(* Once the search is lost, nothing is kept any more. *)
PartitionInv == ~st.losing => IsPartition(Load, Formulas)

(***************************************************************************)
(* A worker has one thing at a time: a job in its pipe, a job at work, or  *)
(* a result in its pipe.  A released worker has nothing.                   *)
(***************************************************************************)
OneThing(w) ==
  /\ job[w] # DoneJob => fromMain[w] = <<>> /\ toMain[w] = <<>>
  /\ fromMain[w] # <<>> => Len(fromMain[w]) = 1 /\ toMain[w] = <<>>
  /\ toMain[w] # <<>> => Len(toMain[w]) = 1
  /\ wpc[w] \in {"unborn", "exited"} => job[w] = DoneJob /\ fromMain[w] = <<>> /\ toMain[w] = <<>>
  /\ wpc[w] = "waiting" => job[w] = DoneJob
  /\ wpc[w] \in {"busy", "writing"} => job[w] # DoneJob
  /\ ~active[w] => job[w] = DoneJob /\ toMain[w] = <<>> /\ fromMain[w] \in {<<>>, <<DoneJob>>}

WorkerInv == \A w \in Workers : OneThing(w)

(* Where the master is. *)
PhaseInv ==
  /\ mpc = "spawn" =>
       /\ wid \in Workers
       /\ Len(st.pending_jobs) = Cardinality(Formulas) - wid
       /\ \A w \in Workers : active[w] /\ (w >= wid => wpc[w] = "unborn")
  /\ mpc \in {"read_result", "reap"} => wid \in Workers
  /\ st.losing => mpc \in {"kill", "epilogue", "done"}
  /\ mpc = "kill" => st.losing
  /\ mpc \in {"reap", "epilogue", "done"} /\ ~st.losing => st.pending_jobs = <<>>
  /\ mpc \in {"epilogue", "done"} /\ ~st.losing => \A w \in Workers : ~active[w]
  /\ verdict # -1 <=> mpc = "done"

(* A solved game is what solving it under its invariant gives. *)
Solved(g) ==
  /\ g.solved
  /\ g.safe <=> (g.parts \cup UsedInvariant(g.invariant)) \in world.realizable

Translated(g) == ~g.solved /\ g.safe /\ \E f \in Formulas : g.parts = {f}

Invariants == {f \in Formulas : world.kind[f] = "invariant"}

JobUnder(j, inv) == j.type = "solve" => j.invariant \subseteq inv

JobSound(j) == JobUnder(j, st.invariant)

ResultSound(r) ==
  IF r.type = "invariant" THEN r.formula \in Invariants
  ELSE Translated(r.game) \/ (Solved(r.game) /\ r.game.invariant \subseteq st.invariant)

StoredSound(g) ==
  g = NoGame \/ /\ g.safe /\ g.solved
                /\ Solved(g) \/ (~world.supports_invariant /\ g.parts \subseteq Invariants)

(***************************************************************************)
(* Games and invariants are what they claim, and the search is lost only   *)
(* if the conjunction cannot be realized.                                  *)
(***************************************************************************)
SoundInv ==
  /\ world \in Worlds
  /\ \A n \in DOMAIN st.pending_jobs : JobSound(st.pending_jobs[n])
  /\ \A w \in Workers :
       /\ JobSound(job[w])
       /\ \A n \in DOMAIN fromMain[w] : JobSound(fromMain[w][n])
       /\ \A n \in DOMAIN toMain[w] : ResultSound(toMain[w][n])
  /\ StoredSound(st.stored_result)
  /\ st.invariant \subseteq Invariants
  /\ st.losing => Formulas \notin world.realizable

(* The countdown, also after it was ended by setting it to -1. *)
CountInv ==
  /\ Cardinality({f \in Formulas : Untranslated(f)}) = IF st.base_remaining = -1 THEN 0 ELSE st.base_remaining
  /\ st.base_remaining = -1 => ~world.supports_invariant
  /\ st.base_remaining = 0 => world.supports_invariant

IInv == TypeOK /\ WorkerInv /\ PhaseInv /\ SoundInv /\ CountInv /\ PartitionInv

-----------------------------------------------------------------------------
(* Formula f is still to be translated, or its translation is on its way. *)
NewJob(j, f) == j.type = "formula" /\ j.formula = f

NewResult(r, f) ==
  \/ r.type = "invariant" /\ r.formula = f
  \/ r.type = "game" /\ r.game.parts = {f} /\ ~r.game.solved

NewPending(q, f) == \E n \in DOMAIN q : NewJob(q[n], f)

NewHeld(j, from, to, f) ==
  \/ NewJob(j, f)
  \/ \E n \in DOMAIN from : NewJob(from[n], f)
  \/ \E n \in DOMAIN to : NewResult(to[n], f)

LEMMA UntranslatedIs ==
  ASSUME NEW f
  PROVE  Untranslated(f) <=> \/ NewPending(st.pending_jobs, f)
                             \/ \E w \in Workers : NewHeld(job[w], fromMain[w], toMain[w], f)
BY DEF Untranslated, NewPending, NewHeld, NewJob, NewResult

LEMMA Sizes ==
  /\ Cardinality(Formulas) \in Nat \ {0}
  /\ NumWorkers \in Nat \ {0}
  /\ NumWorkers =< Cardinality(Formulas)
  /\ NumWorkers =< 2 * IdHalf - 1
  /\ Workers = 0 .. NumWorkers - 1
<1>1. Cardinality(Formulas) \in Nat \ {0}
  BY CompositionAssumption, FS_CardinalityType, FS_EmptySet
<1> QED BY <1>1, CompositionAssumption DEF NumWorkers, AtMost, Workers

LEMMA CharType == \A w \in Workers : Char(w) \in -IdHalf .. IdHalf - 1
BY Sizes, CompositionAssumption DEF Char

(* The types of jobs and results. *)
LEMMA DataTypes ==
  /\ \A j \in Jobs : /\ JobParts(j) \subseteq Formulas
                     /\ j # DoneJob
                     /\ \/ j.type = "formula" /\ j.formula \in Formulas
                        \/ j.type = "solve" /\ j.game \in Games /\ j.invariant \subseteq Formulas
  /\ \A r \in Results : /\ ResultParts(r) \subseteq Formulas
                        /\ \/ r.type = "invariant" /\ r.formula \in Formulas
                           \/ r.type = "game" /\ r.game \in Games
  /\ JobParts(DoneJob) = {}
  /\ \A f : ~NewJob(DoneJob, f)
  /\ \A f \in Formulas : FormulaJob(f) \in Jobs /\ JobParts(FormulaJob(f)) = {f}
  /\ \A g \in Games : /\ SolveJob(g) \in Jobs
                      /\ JobParts(SolveJob(g)) = g.parts
                      /\ \A f : ~NewJob(SolveJob(g), f)
<1>1. \A j \in Jobs : /\ JobParts(j) \subseteq Formulas
                     /\ j # DoneJob
                     /\ \/ j.type = "formula" /\ j.formula \in Formulas
                        \/ j.type = "solve" /\ j.game \in Games /\ j.invariant \subseteq Formulas
  BY DEF Jobs, JobParts, DoneJob, Games
<1>2. \A r \in Results : /\ ResultParts(r) \subseteq Formulas
                        /\ \/ r.type = "invariant" /\ r.formula \in Formulas
                           \/ r.type = "game" /\ r.game \in Games
  BY DEF Results, ResultParts, Games
<1>3. /\ JobParts(DoneJob) = {}
      /\ \A f : ~NewJob(DoneJob, f)
  BY DEF JobParts, DoneJob, NewJob
<1>4. \A f \in Formulas : FormulaJob(f) \in Jobs /\ JobParts(FormulaJob(f)) = {f}
  BY DEF Jobs, JobParts, FormulaJob
<1>5. \A g \in Games : /\ SolveJob(g) \in Jobs
                      /\ JobParts(SolveJob(g)) = g.parts
                      /\ \A f : ~NewJob(SolveJob(g), f)
  BY DEF Jobs, JobParts, SolveJob, NewJob
<1> QED BY <1>1, <1>2, <1>3, <1>4, <1>5

LEMMA OneMessage ==
  ASSUME NEW S, NEW q \in Seq(S)
  PROVE  /\ q = <<>> => \A e \in S : Append(q, e) = <<e>>
         /\ Len(q) = 1 => /\ q = <<q[1]>> /\ q # <<>>
                          /\ Head(q) = q[1] /\ q[1] \in S
                          /\ Tail(q) = <<>> /\ DOMAIN q = {1}
<1>1. ASSUME q = <<>>, NEW e \in S
      PROVE  Append(q, e) = <<e>>
  BY <1>1
<1>2. ASSUME Len(q) = 1
      PROVE  /\ q = <<q[1]>> /\ q # <<>>
             /\ Head(q) = q[1] /\ q[1] \in S
             /\ Tail(q) = <<>> /\ DOMAIN q = {1}
  <2>1. DOMAIN q = {1} /\ q[1] \in S
    BY <1>2, LenProperties, ElementOfSeq
  <2>2. q = <<q[1]>>
    BY <1>2, <2>1
  <2>3. q # <<>> /\ Head(q) = q[1]
    BY <1>2
  <2>4. Tail(q) = <<>>
    <3>1. Tail(q) \in Seq(S) /\ Len(Tail(q)) = 0
      BY <2>3, <1>2, HeadTailProperties
    <3> QED BY <3>1, EmptySeq
  <2> QED BY <2>1, <2>2, <2>3, <2>4
<1> QED BY <1>1, <1>2

(* A worker has one thing at a time. *)
LEMMA HeldCases ==
  ASSUME NEW j, NEW m, NEW r
  PROVE  /\ Held(j, <<>>, <<>>) = JobParts(j)
         /\ Held(DoneJob, <<m>>, <<>>) = JobParts(m)
         /\ Held(DoneJob, <<>>, <<r>>) = ResultParts(r)
         /\ Held(DoneJob, <<>>, <<>>) = {}
         /\ \A f : /\ NewHeld(j, <<>>, <<>>, f) <=> NewJob(j, f)
                   /\ NewHeld(DoneJob, <<m>>, <<>>, f) <=> NewJob(m, f)
                   /\ NewHeld(DoneJob, <<>>, <<r>>, f) <=> NewResult(r, f)
                   /\ ~NewHeld(DoneJob, <<>>, <<>>, f)
<1>1. JobParts(DoneJob) = {} /\ \A f : ~NewJob(DoneJob, f)
  BY DataTypes
<1>2. DOMAIN <<>> = {} /\ DOMAIN <<m>> = {1} /\ DOMAIN <<r>> = {1} /\ <<m>>[1] = m /\ <<r>>[1] = r
  OBVIOUS
<1>3. /\ Held(j, <<>>, <<>>) = JobParts(j)
      /\ Held(DoneJob, <<>>, <<>>) = {}
  BY <1>1, <1>2 DEF Held
<1>4. Held(DoneJob, <<m>>, <<>>) = JobParts(m)
  BY <1>1, <1>2 DEF Held
<1>5. Held(DoneJob, <<>>, <<r>>) = ResultParts(r)
  <2>1. ASSUME NEW from, NEW to, DOMAIN from = {}, DOMAIN to = {1}
        PROVE  Held(DoneJob, from, to) = ResultParts(to[1])
    BY <1>1, <2>1 DEF Held
  <2>2. Held(DoneJob, <<>>, <<r>>) = ResultParts(<<r>>[1])
    BY <1>2, <2>1
  <2> QED BY <2>2
<1>6. ASSUME NEW f
      PROVE  /\ NewHeld(j, <<>>, <<>>, f) <=> NewJob(j, f)
             /\ NewHeld(DoneJob, <<m>>, <<>>, f) <=> NewJob(m, f)
             /\ NewHeld(DoneJob, <<>>, <<r>>, f) <=> NewResult(r, f)
             /\ ~NewHeld(DoneJob, <<>>, <<>>, f)
  BY <1>1, <1>2 DEF NewHeld
<1> QED BY <1>3, <1>4, <1>5, <1>6

(* Translating or solving changes neither what a job is about nor whether it is new. *)
LEMMA ResultOfFacts ==
  ASSUME world \in Worlds, NEW j \in Jobs, JobSound(j)
  PROVE  /\ ResultOf(j) \in Results
         /\ ResultParts(ResultOf(j)) = JobParts(j)
         /\ \A f : NewResult(ResultOf(j), f) <=> NewJob(j, f)
         /\ ResultSound(ResultOf(j))
<1>1. IsWorld(world)
  BY CompositionAssumption
<1>2. CASE j.type = "formula"
  <2>1. j.formula \in Formulas /\ world.kind[j.formula] \in {"game", "invariant"}
    BY <1>2, <1>1, DataTypes DEF IsWorld
  <2>2. CASE world.kind[j.formula] = "invariant"
    <3>1. ResultOf(j) = [type |-> "invariant", formula |-> j.formula]
      BY <1>2, <2>2 DEF ResultOf, Prepare
    <3> QED BY <1>2, <2>1, <2>2, <3>1
            DEF Results, ResultParts, JobParts, NewResult, NewJob, ResultSound, Invariants
  <2>3. CASE world.kind[j.formula] = "game"
    <3> DEFINE g == [parts |-> {j.formula}, safe |-> TRUE, solved |-> FALSE, invariant |-> {}]
    <3>1. ResultOf(j) = [type |-> "game", game |-> g]
      BY <1>2, <2>3 DEF ResultOf, Prepare
    <3>2. g \in Games /\ g.parts = {j.formula} /\ ~g.solved /\ g.safe
      BY <2>1 DEF Games
    <3>3. Translated(g)
      BY <2>1 DEF Translated
    <3> HIDE DEF g
    <3> QED BY <1>2, <2>1, <2>3, <3>1, <3>2, <3>3
            DEF Results, ResultParts, JobParts, NewResult, NewJob, ResultSound
  <2> QED BY <2>1, <2>2, <2>3
<1>3. CASE j.type = "solve"
  <2> DEFINE g == SolveGame(j.game, j.invariant)
  <2>1. j.game \in Games /\ j.invariant \subseteq Formulas
    BY <1>3, DataTypes
  <2>2. ResultOf(j) = [type |-> "game", game |-> g]
    BY <1>3 DEF ResultOf
  <2>3. /\ g \in Games /\ g.parts = j.game.parts /\ g.solved /\ g.invariant = j.invariant
        /\ g.safe <=> (j.game.parts \cup UsedInvariant(j.invariant)) \in world.realizable
    <3> DEFINE b == (j.game.parts \cup UsedInvariant(j.invariant)) \in world.realizable
    <3>1. g = [j.game EXCEPT !.safe = b, !.solved = TRUE, !.invariant = j.invariant]
      BY DEF SolveGame
    <3>2. b \in BOOLEAN
      OBVIOUS
    <3> HIDE DEF b, g
    <3>3. /\ g \in Games /\ g.parts = j.game.parts /\ g.solved /\ g.invariant = j.invariant
          /\ g.safe = b
      BY <2>1, <3>1, <3>2 DEF Games
    <3> QED BY <3>3 DEF b
  <2>4. Solved(g)
    BY <2>3 DEF Solved
  <2> HIDE DEF g
  <2> QED BY <1>3, <2>1, <2>2, <2>3, <2>4
          DEF Results, ResultParts, JobParts, NewResult, NewJob, ResultSound, JobSound, JobUnder
<1> QED BY <1>2, <1>3, DataTypes

-----------------------------------------------------------------------------
(* Steps after which every worker still holds what it held. *)
LEMMA WorkersKeep ==
  ASSUME st' = st, world' = world,
         \A w \in Workers :
           /\ Held(job[w], fromMain[w], toMain[w])' = Held(job[w], fromMain[w], toMain[w])
           /\ \A f : NewHeld(job[w], fromMain[w], toMain[w], f)' <=> NewHeld(job[w], fromMain[w], toMain[w], f)
  PROVE  /\ Load' = Load
         /\ CountInv => CountInv'
         /\ PartitionInv => PartitionInv'
<1>1. AllHeld' = AllHeld
  BY DEF AllHeld
<1>2. Load' = Load
  BY <1>1 DEF Load, Layout, Played
<1>3. \A f : Untranslated(f)' <=> Untranslated(f)
  <2>1. \A f : Untranslated(f)' <=> \/ NewPending(st'.pending_jobs, f)
                                    \/ \E w \in Workers : NewHeld(job[w], fromMain[w], toMain[w], f)'
    BY DEF Untranslated, NewPending, NewHeld, NewJob, NewResult
  <2> QED BY <2>1, UntranslatedIs
<1>4. {f \in Formulas : Untranslated(f)}' = {f \in Formulas : Untranslated(f)}
  BY <1>3
<1> QED BY <1>2, <1>4 DEF CountInv, PartitionInv

LEMMA SoundKept ==
  ASSUME SoundInv, st' = st, world' = world,
         \A w \in Workers :
           /\ JobSound(job'[w])
           /\ \A n \in DOMAIN fromMain'[w] : JobSound(fromMain'[w][n])
           /\ \A n \in DOMAIN toMain'[w] : ResultSound(toMain'[w][n])
  PROVE  SoundInv'
<1>1. \A j : JobSound(j)' <=> JobSound(j)
  BY DEF JobSound, JobUnder
<1>2. \A r : ResultSound(r)' <=> ResultSound(r)
  BY DEF ResultSound, Translated, Solved, UsedInvariant, Invariants
<1>3. StoredSound(st.stored_result)' <=> StoredSound(st.stored_result)
  BY DEF StoredSound, Solved, UsedInvariant, Invariants
<1> QED BY <1>1, <1>2, <1>3 DEF SoundInv, Invariants

LEMMA ReadJobStep ==
  ASSUME IInv, NEW w \in Workers, ReadJob(w)
  PROVE  IInv' /\ Load' = Load
<1> DEFINE m == fromMain[w][1]
<1>1. /\ fromMain[w] = <<m>> /\ Head(fromMain[w]) = m /\ Tail(fromMain[w]) = <<>> /\ DOMAIN fromMain[w] = {1}
      /\ m \in Jobs \cup {DoneJob}
      /\ toMain[w] = <<>> /\ job[w] = DoneJob
  <2>1. fromMain[w] \in Seq(Jobs \cup {DoneJob}) /\ Len(fromMain[w]) = 1
    BY DEF IInv, TypeOK, WorkerInv, OneThing, ReadJob
  <2>2. toMain[w] = <<>> /\ job[w] = DoneJob
    BY DEF IInv, WorkerInv, OneThing, ReadJob
  <2> QED BY <2>1, <2>2, OneMessage
<1> HIDE DEF m
<1>2. /\ fromMain' = [fromMain EXCEPT ![w] = <<>>]
      /\ job' = [job EXCEPT ![w] = m]
      /\ wpc' = [wpc EXCEPT ![w] = IF m = DoneJob THEN "exited" ELSE "busy"]
      /\ wpc[w] = "waiting"
      /\ UNCHANGED <<world, mpc, st, wid, active, verdict, shared, toMain>>
  BY <1>1 DEF ReadJob, master
<1>3. TypeOK'
  BY <1>1, <1>2 DEF IInv, TypeOK
<1>4. \A v \in Workers :
        /\ v # w => job'[v] = job[v] /\ fromMain'[v] = fromMain[v] /\ wpc'[v] = wpc[v]
        /\ v = w => /\ job'[v] = m /\ fromMain'[v] = <<>>
                    /\ wpc'[v] = IF m = DoneJob THEN "exited" ELSE "busy"
  BY <1>2 DEF IInv, TypeOK
<1>5. WorkerInv'
  <2> SUFFICES ASSUME NEW v \in Workers
               PROVE  OneThing(v)'
    BY DEF WorkerInv
  <2>1. CASE v = w
    <3>1. ~active[w] => m = DoneJob
      BY <1>1 DEF IInv, WorkerInv, OneThing
    <3> QED BY <2>1, <3>1, <1>1, <1>2, <1>4 DEF OneThing
  <2>2. CASE v # w
    BY <2>2, <1>2, <1>4 DEF IInv, WorkerInv, OneThing
  <2> QED BY <2>1, <2>2
<1>6. PhaseInv'
  <2>1. \A v \in Workers : wpc[v] = "unborn" => wpc'[v] = "unborn"
    BY <1>2, <1>4
  <2> QED BY <1>2, <2>1 DEF IInv, PhaseInv
<1>7. SoundInv'
  <2>1. JobSound(m)
    BY <1>1 DEF IInv, SoundInv
  <2>2. \A v \in Workers :
          /\ JobSound(job'[v])
          /\ \A n \in DOMAIN fromMain'[v] : JobSound(fromMain'[v][n])
          /\ \A n \in DOMAIN toMain'[v] : ResultSound(toMain'[v][n])
    BY <1>2, <1>4, <2>1 DEF IInv, SoundInv
  <2> QED BY <1>2, <2>2, SoundKept DEF IInv
<1>8. \A v \in Workers :
        /\ Held(job[v], fromMain[v], toMain[v])' = Held(job[v], fromMain[v], toMain[v])
        /\ \A f : NewHeld(job[v], fromMain[v], toMain[v], f)' <=> NewHeld(job[v], fromMain[v], toMain[v], f)
  <2>1. /\ Held(m, <<>>, <<>>) = Held(DoneJob, <<m>>, <<>>)
        /\ \A f : NewHeld(m, <<>>, <<>>, f) <=> NewHeld(DoneJob, <<m>>, <<>>, f)
    BY HeldCases
  <2> QED BY <1>1, <1>2, <1>4, <2>1
<1>9. Load' = Load /\ CountInv' /\ PartitionInv'
  BY <1>2, <1>8, WorkersKeep DEF IInv
<1> QED BY <1>3, <1>5, <1>6, <1>7, <1>9 DEF IInv

LEMMA WriteResultStep ==
  ASSUME IInv, NEW w \in Workers, WriteResult(w)
  PROVE  IInv' /\ Load' = Load
<1> DEFINE j == job[w]
           r == ResultOf(j)
<1>1. /\ wpc[w] = "writing"
      /\ fromMain[w] = <<>> /\ toMain[w] = <<>>
      /\ j \in Jobs /\ JobSound(j)
      /\ active[w]
  BY DEF IInv, TypeOK, WorkerInv, OneThing, SoundInv, WriteResult
<1>2. /\ r \in Results
      /\ ResultParts(r) = JobParts(j)
      /\ \A f : NewResult(r, f) <=> NewJob(j, f)
      /\ ResultSound(r)
  BY <1>1, ResultOfFacts DEF IInv, SoundInv
<1>3. /\ toMain' = [toMain EXCEPT ![w] = <<r>>]
      /\ job' = [job EXCEPT ![w] = DoneJob]
      /\ wpc' = [wpc EXCEPT ![w] = "waiting"]
      /\ UNCHANGED <<world, mpc, st, wid, active, verdict, shared, fromMain>>
  <2>1. Append(toMain[w], r) = <<r>>
    BY <1>1, <1>2, OneMessage DEF IInv, TypeOK
  <2> QED BY <2>1 DEF WriteResult, master
<1> HIDE DEF r
<1>4. TypeOK'
  BY <1>2, <1>3 DEF IInv, TypeOK
<1>5. \A v \in Workers :
        /\ v # w => job'[v] = job[v] /\ toMain'[v] = toMain[v] /\ wpc'[v] = wpc[v]
        /\ v = w => job'[v] = DoneJob /\ toMain'[v] = <<r>> /\ wpc'[v] = "waiting"
  BY <1>3 DEF IInv, TypeOK
<1>6. WorkerInv'
  <2> SUFFICES ASSUME NEW v \in Workers
               PROVE  OneThing(v)'
    BY DEF WorkerInv
  <2>1. CASE v = w
    BY <2>1, <1>1, <1>3, <1>5 DEF OneThing
  <2>2. CASE v # w
    BY <2>2, <1>3, <1>5 DEF IInv, WorkerInv, OneThing
  <2> QED BY <2>1, <2>2
<1>7. PhaseInv'
  <2>1. \A v \in Workers : wpc[v] = "unborn" => wpc'[v] = "unborn"
    BY <1>1, <1>5
  <2> QED BY <1>3, <2>1 DEF IInv, PhaseInv
<1>8. SoundInv'
  <2>1. JobSound(DoneJob)
    BY DEF JobSound, JobUnder, DoneJob
  <2>2. \A v \in Workers :
          /\ JobSound(job'[v])
          /\ \A n \in DOMAIN fromMain'[v] : JobSound(fromMain'[v][n])
          /\ \A n \in DOMAIN toMain'[v] : ResultSound(toMain'[v][n])
    BY <1>2, <1>3, <1>5, <2>1 DEF IInv, SoundInv
  <2> QED BY <1>3, <2>2, SoundKept DEF IInv
<1>9. \A v \in Workers :
        /\ Held(job[v], fromMain[v], toMain[v])' = Held(job[v], fromMain[v], toMain[v])
        /\ \A f : NewHeld(job[v], fromMain[v], toMain[v], f)' <=> NewHeld(job[v], fromMain[v], toMain[v], f)
  <2>1. /\ Held(DoneJob, <<>>, <<r>>) = Held(j, <<>>, <<>>)
        /\ \A f : NewHeld(DoneJob, <<>>, <<r>>, f) <=> NewHeld(j, <<>>, <<>>, f)
    BY HeldCases, <1>2
  <2> QED BY <1>1, <1>3, <1>5, <2>1
<1>10. Load' = Load /\ CountInv' /\ PartitionInv'
  BY <1>3, <1>9, WorkersKeep DEF IInv
<1> QED BY <1>4, <1>6, <1>7, <1>8, <1>10 DEF IInv

(***************************************************************************)
(* The steps in which jobs, results and the master's object stay.          *)
(***************************************************************************)
LEMMA DataKept ==
  ASSUME IInv, UNCHANGED <<world, st, job, fromMain, toMain>>,
         TypeOK', WorkerInv', PhaseInv'
  PROVE  IInv' /\ Load' = Load
<1>1. SoundInv'
  BY SoundKept DEF IInv, SoundInv
<1>2. \A v \in Workers :
        /\ Held(job[v], fromMain[v], toMain[v])' = Held(job[v], fromMain[v], toMain[v])
        /\ \A f : NewHeld(job[v], fromMain[v], toMain[v], f)' <=> NewHeld(job[v], fromMain[v], toMain[v], f)
  OBVIOUS
<1>3. Load' = Load /\ CountInv' /\ PartitionInv'
  BY <1>2, WorkersKeep DEF IInv
<1> QED BY <1>1, <1>3 DEF IInv

LEMMA AnnounceStep ==
  ASSUME IInv, NEW w \in Workers, Announce(w)
  PROVE  IInv' /\ Load' = Load
<1>1. /\ wpc[w] = "busy" /\ wpc' = [wpc EXCEPT ![w] = "writing"]
      /\ shared' = Append(shared, Char(w))
      /\ UNCHANGED <<world, mpc, st, wid, active, verdict, job, fromMain, toMain>>
  BY DEF Announce, master
<1>2. TypeOK'
  BY <1>1, CharType DEF IInv, TypeOK
<1>3. WorkerInv' /\ PhaseInv'
  BY <1>1 DEF IInv, TypeOK, WorkerInv, OneThing, PhaseInv
<1> QED BY <1>1, <1>2, <1>3, DataKept

LEMMA CrashStep ==
  ASSUME IInv, NEW w \in Workers, Crash(w)
  PROVE  IInv' /\ Load' = Load /\ wpc'[w] = "crashed"
<1>1. /\ wpc[w] \in {"waiting", "busy", "writing"} /\ wpc' = [wpc EXCEPT ![w] = "crashed"]
      /\ UNCHANGED <<world, mpc, st, wid, active, verdict, job, shared, fromMain, toMain>>
  BY DEF Crash, master
<1>2. TypeOK' /\ wpc'[w] = "crashed"
  BY <1>1 DEF IInv, TypeOK
<1>3. WorkerInv' /\ PhaseInv'
  BY <1>1 DEF IInv, TypeOK, WorkerInv, OneThing, PhaseInv
<1> QED BY <1>1, <1>2, <1>3, DataKept

LEMMA ReadIdStep ==
  ASSUME IInv, ReadId
  PROVE  IInv' /\ Load' = Load
<1>1. Head(shared) \in -IdHalf .. IdHalf - 1 /\ Tail(shared) \in Seq(-IdHalf .. IdHalf - 1)
  BY HeadTailProperties DEF IInv, TypeOK, ReadId
<1>2. TypeOK'
  BY <1>1, CompositionAssumption DEF IInv, TypeOK, ReadId
<1>3. WorkerInv' /\ PhaseInv'
  BY DEF IInv, TypeOK, WorkerInv, OneThing, PhaseInv, ReadId
<1> QED BY <1>2, <1>3, DataKept DEF ReadId

LEMMA ReapStep ==
  ASSUME IInv, Reap
  PROVE  IInv' /\ Load' = Load
<1>1. TypeOK' /\ WorkerInv'
  BY DEF IInv, TypeOK, WorkerInv, OneThing, Reap
<1>2. PhaseInv'
  BY DEF IInv, TypeOK, PhaseInv, Reap
<1> QED BY <1>1, <1>2, DataKept DEF Reap

LEMMA KillAllStep ==
  ASSUME IInv, KillAll
  PROVE  IInv' /\ Load' = Load
<1>1. TypeOK' /\ WorkerInv'
  BY DEF IInv, TypeOK, WorkerInv, OneThing, KillAll
<1>2. PhaseInv'
  BY DEF IInv, TypeOK, PhaseInv, KillAll
<1> QED BY <1>1, <1>2, DataKept DEF KillAll

LEMMA EpilogueStep ==
  ASSUME IInv, Epilogue
  PROVE  IInv' /\ Load' = Load
<1>1. TypeOK' /\ WorkerInv'
  BY DEF IInv, TypeOK, WorkerInv, OneThing, Epilogue
<1>2. PhaseInv'
  BY DEF IInv, TypeOK, PhaseInv, Epilogue
<1> QED BY <1>1, <1>2, DataKept DEF Epilogue

-----------------------------------------------------------------------------
(* The places are different, and a layout has these values in them. *)
LEMMA PlacesDiffer ==
  /\ Stored \in Places /\ Invariant \in Places /\ Stored # Invariant
  /\ \A n \in Nat \ {0} : Pending(n) \in Places /\ Pending(n) # Stored /\ Pending(n) # Invariant
  /\ \A w \in Workers : Worker(w) \in Places /\ Worker(w) # Stored /\ Worker(w) # Invariant
  /\ \A n \in Nat \ {0}, w \in Workers : Pending(n) # Worker(w)
  /\ \A n, m \in Nat \ {0} : Pending(n) = Pending(m) => n = m
  /\ \A v, w \in Workers : Worker(v) = Worker(w) => v = w
  /\ \A x \in Places : \/ x = Stored
                       \/ x = Invariant
                       \/ \E n \in Nat \ {0} : x = Pending(n)
                       \/ \E w \in Workers : x = Worker(w)
BY DEF Places, Stored, Invariant, Pending, Worker

LEMMA LayoutAt ==
  ASSUME NEW q, NEW stored, NEW played, NEW held
  PROVE  LET L == Layout(q, stored, played, held)
         IN  /\ DOMAIN L = Places
             /\ L[Stored] = stored /\ L[Invariant] = played
             /\ \A n \in Nat \ {0} : L[Pending(n)] = QueueAt(q, n)
             /\ \A w \in Workers : L[Worker(w)] = held[w]
             /\ L = [x \in Places |-> L[x]]
<1>1. /\ Stored[1] = "stored" /\ Invariant[1] = "invariant"
      /\ \A n : Pending(n)[1] = "pending" /\ Pending(n)[2] = n /\ Worker(n)[1] = "worker" /\ Worker(n)[2] = n
  BY DEF Stored, Invariant, Pending, Worker
<1> QED BY <1>1, PlacesDiffer DEF Layout

LEMMA QueueFacts ==
  ASSUME NEW q \in Seq(Jobs)
  PROVE  /\ DOMAIN q = 1 .. Len(q) /\ Len(q) \in Nat
         /\ q # <<>> => /\ Head(q) = q[1] /\ Head(q) \in Jobs
                        /\ Tail(q) \in Seq(Jobs) /\ Len(Tail(q)) = Len(q) - 1
                        /\ DOMAIN Tail(q) = 1 .. Len(q) - 1
                        /\ \A n \in 1 .. Len(q) - 1 : Tail(q)[n] = q[n + 1]
                        /\ \A f : NewPending(q, f) <=> NewJob(q[1], f) \/ NewPending(Tail(q), f)
         /\ \A j \in Jobs : /\ Append(q, j) \in Seq(Jobs) /\ Append(q, j) # <<>>
                            /\ Len(Append(q, j)) = Len(q) + 1
                            /\ DOMAIN Append(q, j) = 1 .. Len(q) + 1
                            /\ \A n \in 1 .. Len(q) : Append(q, j)[n] = q[n]
                            /\ Append(q, j)[Len(q) + 1] = j
                            /\ \A f : NewPending(Append(q, j), f) <=> NewPending(q, f) \/ NewJob(j, f)
<1>1. DOMAIN q = 1 .. Len(q) /\ Len(q) \in Nat
  BY LenProperties
<1>2. ASSUME q # <<>>
      PROVE  /\ Head(q) = q[1] /\ Head(q) \in Jobs
             /\ Tail(q) \in Seq(Jobs) /\ Len(Tail(q)) = Len(q) - 1
             /\ DOMAIN Tail(q) = 1 .. Len(q) - 1
             /\ \A n \in 1 .. Len(q) - 1 : Tail(q)[n] = q[n + 1]
             /\ \A f : NewPending(q, f) <=> NewJob(q[1], f) \/ NewPending(Tail(q), f)
  <2>1. /\ Head(q) \in Jobs /\ Tail(q) \in Seq(Jobs) /\ Len(Tail(q)) = Len(q) - 1
        /\ \A n \in 1 .. Len(Tail(q)) : Tail(q)[n] = q[n + 1]
    BY <1>2, HeadTailProperties
  <2>2. Head(q) = q[1] /\ Len(q) >= 1
    BY <1>2, <1>1, EmptySeq
  <2>3. DOMAIN Tail(q) = 1 .. Len(q) - 1
    BY <2>1, LenProperties
  <2>4. ASSUME NEW f
        PROVE  NewPending(q, f) <=> NewJob(q[1], f) \/ NewPending(Tail(q), f)
    <3>1. ASSUME NEW n \in DOMAIN q, NewJob(q[n], f)
          PROVE  NewJob(q[1], f) \/ NewPending(Tail(q), f)
      <4>1. CASE n = 1
        BY <4>1, <3>1
      <4>2. CASE n # 1
        <5>1. n - 1 \in 1 .. Len(q) - 1 /\ Tail(q)[n - 1] = q[n]
          BY <4>2, <1>1, <2>1
        <5> QED BY <5>1, <2>3, <3>1 DEF NewPending
      <4> QED BY <4>1, <4>2
    <3>2. ASSUME NEW n \in DOMAIN Tail(q), NewJob(Tail(q)[n], f)
          PROVE  NewPending(q, f)
      <4>1. n + 1 \in DOMAIN q /\ Tail(q)[n] = q[n + 1]
        BY <1>1, <2>1, <2>3
      <4> QED BY <4>1, <3>2 DEF NewPending
    <3>3. NewJob(q[1], f) => NewPending(q, f)
      BY <1>1, <2>2 DEF NewPending
    <3> QED BY <3>1, <3>2, <3>3 DEF NewPending
  <2> QED BY <2>1, <2>2, <2>3, <2>4
<1>3. ASSUME NEW j \in Jobs
      PROVE  /\ Append(q, j) \in Seq(Jobs) /\ Append(q, j) # <<>>
             /\ Len(Append(q, j)) = Len(q) + 1
             /\ DOMAIN Append(q, j) = 1 .. Len(q) + 1
             /\ \A n \in 1 .. Len(q) : Append(q, j)[n] = q[n]
             /\ Append(q, j)[Len(q) + 1] = j
             /\ \A f : NewPending(Append(q, j), f) <=> NewPending(q, f) \/ NewJob(j, f)
  <2>1. /\ Append(q, j) \in Seq(Jobs) /\ Append(q, j) # <<>>
        /\ Len(Append(q, j)) = Len(q) + 1
        /\ \A n \in 1 .. Len(q) : Append(q, j)[n] = q[n]
        /\ Append(q, j)[Len(q) + 1] = j
    BY AppendProperties
  <2>2. DOMAIN Append(q, j) = 1 .. Len(q) + 1
    BY <2>1, LenProperties
  <2>3. \A f : NewPending(Append(q, j), f) <=> NewPending(q, f) \/ NewJob(j, f)
    BY <1>1, <2>1, <2>2 DEF NewPending
  <2> QED BY <2>1, <2>2, <2>3
<1> QED BY <1>1, <1>2, <1>3

(* Where the content of a place was before the first pending job went to w. *)
Shift(w) ==
  [x \in Places |-> IF x = Worker(w) THEN Pending(1)
                    ELSE IF x[1] = "pending" THEN Pending(x[2] + 1) ELSE x]

LEMMA ShiftFacts ==
  ASSUME NEW w \in Workers
  PROVE  /\ Shift(w) \in [Places -> Places]
         /\ Shift(w)[Stored] = Stored /\ Shift(w)[Invariant] = Invariant
         /\ \A n \in Nat \ {0} : Shift(w)[Pending(n)] = Pending(n + 1)
         /\ Shift(w)[Worker(w)] = Pending(1)
         /\ \A v \in Workers : v # w => Shift(w)[Worker(v)] = Worker(v)
         /\ \A x, y \in Places : x # y => Shift(w)[x] # Shift(w)[y]
         /\ \A y \in Places : y = Worker(w) \/ \E x \in Places : Shift(w)[x] = y
<1> DEFINE o == Shift(w)
<1>1. /\ o[Stored] = Stored /\ o[Invariant] = Invariant
      /\ \A n \in Nat \ {0} : o[Pending(n)] = Pending(n + 1)
      /\ o[Worker(w)] = Pending(1)
      /\ \A v \in Workers : v # w => o[Worker(v)] = Worker(v)
      /\ DOMAIN o = Places
  <2>1. /\ Stored[1] = "stored" /\ Invariant[1] = "invariant"
        /\ \A n : Pending(n)[1] = "pending" /\ Pending(n)[2] = n /\ Worker(n)[1] = "worker"
    BY DEF Stored, Invariant, Pending, Worker
  <2> QED BY <2>1, PlacesDiffer DEF Shift
<1> HIDE DEF o
<1>2. \A n \in Nat \ {0} : Pending(n + 1) \in Places /\ Pending(n + 1) # Pending(1)
  <2>1. \A n \in Nat \ {0} : n + 1 \in Nat \ {0} /\ n + 1 # 1
    OBVIOUS
  <2> QED BY <2>1, PlacesDiffer
<1>3. \A n, m \in Nat \ {0} : Pending(n + 1) = Pending(m + 1) => n = m
  <2>1. \A n, m \in Nat \ {0} : /\ n + 1 \in Nat \ {0} /\ (n + 1 = m + 1 => n = m)
    OBVIOUS
  <2> QED BY <2>1, PlacesDiffer
<1>4. Pending(1) \in Places
  BY PlacesDiffer
<1>5. \A x \in Places : o[x] \in Places
  <2> SUFFICES ASSUME NEW x \in Places
               PROVE  o[x] \in Places
    OBVIOUS
  <2>1. ASSUME NEW n \in Nat \ {0}, x = Pending(n)
        PROVE  o[x] \in Places
    BY <2>1, <1>1, <1>2
  <2>2. ASSUME NEW v \in Workers, x = Worker(v)
        PROVE  o[x] \in Places
    BY <2>2, <1>1, <1>4, PlacesDiffer
  <2> QED BY <2>1, <2>2, <1>1, PlacesDiffer
<1>6. \A x, y \in Places : o[x] = o[y] => x = y
  <2> SUFFICES ASSUME NEW x \in Places, NEW y \in Places, o[x] = o[y]
               PROVE  x = y
    OBVIOUS
  <2>1. \A z \in Places : \/ o[z] = z /\ (z = Stored \/ z = Invariant \/ \E v \in Workers : z = Worker(v))
                          \/ o[z] = Pending(1) /\ z = Worker(w)
                          \/ \E n \in Nat \ {0} : o[z] = Pending(n + 1) /\ z = Pending(n)
    <3> SUFFICES ASSUME NEW z \in Places
                 PROVE  \/ o[z] = z /\ (z = Stored \/ z = Invariant \/ \E v \in Workers : z = Worker(v))
                        \/ o[z] = Pending(1) /\ z = Worker(w)
                        \/ \E n \in Nat \ {0} : o[z] = Pending(n + 1) /\ z = Pending(n)
      OBVIOUS
    <3>1. CASE z = Stored \/ z = Invariant
      BY <3>1, <1>1
    <3>2. CASE \E n \in Nat \ {0} : z = Pending(n)
      BY <3>2, <1>1
    <3>3. CASE \E v \in Workers : z = Worker(v)
      BY <3>3, <1>1
    <3> QED BY <3>1, <3>2, <3>3, PlacesDiffer
  <2>2. \A z : (z = Stored \/ z = Invariant \/ \E v \in Workers : z = Worker(v)) =>
                 z # Pending(1) /\ \A n \in Nat \ {0} : z # Pending(n + 1)
    <3>1. \A n \in Nat \ {0} : n + 1 \in Nat \ {0}
      OBVIOUS
    <3> QED BY <3>1, PlacesDiffer
  <2> QED BY <2>1, <2>2, <1>2, <1>3
<1>7. ASSUME NEW y \in Places
      PROVE  y = Worker(w) \/ \E x \in Places : o[x] = y
  <2>1. ASSUME NEW n \in Nat \ {0}, y = Pending(n)
        PROVE  \E x \in Places : o[x] = y
    <3>1. CASE n = 1
      BY <2>1, <3>1, <1>1, PlacesDiffer
    <3>2. CASE n # 1
      <4>1. n - 1 \in Nat \ {0} /\ n = (n - 1) + 1
        BY <3>2
      <4>2. o[Pending(n - 1)] = y /\ Pending(n - 1) \in Places
        BY <2>1, <4>1, <1>1, PlacesDiffer
      <4> QED BY <4>2
    <3> QED BY <3>1, <3>2
  <2> QED BY <2>1, <1>1, PlacesDiffer
<1>8. o \in [Places -> Places]
  BY <1>5 DEF o, Shift
<1>9. Shift(w) = o
  BY DEF o
<1> QED BY <1>1, <1>6, <1>7, <1>8, <1>9

(* The same pieces in other places. *)
Rearranged(L, M) ==
  IsPartition(L, Formulas) => IsPartition(M, Formulas) /\ Pieces(M) = Pieces(L)

LEMMA Shifted ==
  ASSUME NEW L, NEW M, DOMAIN L = Places, DOMAIN M = Places, IsPartition(L, Formulas),
         NEW w \in Workers, L[Worker(w)] = {}, M[Worker(w)] = L[Pending(1)],
         \A v \in Workers : v # w => M[Worker(v)] = L[Worker(v)],
         \A n \in Nat \ {0} : M[Pending(n)] = L[Pending(n + 1)],
         M[Stored] = L[Stored], M[Invariant] = L[Invariant]
  PROVE  IsPartition(M, Formulas) /\ Pieces(M) = Pieces(L)
<1> DEFINE o == Shift(w)
<1>1. ASSUME NEW x \in Places
      PROVE  M[x] = L[o[x]]
  <2>1. CASE x = Stored \/ x = Invariant
    BY <2>1, ShiftFacts
  <2>2. CASE \E n \in Nat \ {0} : x = Pending(n)
    <3>1. PICK n \in Nat \ {0} : x = Pending(n)
      BY <2>2
    <3>2. o[x] = Pending(n + 1)
      BY <3>1, ShiftFacts
    <3> QED BY <3>1, <3>2
  <2>3. CASE x = Worker(w)
    BY <2>3, ShiftFacts
  <2>4. CASE \E v \in Workers \ {w} : x = Worker(v)
    BY <2>4, ShiftFacts
  <2> QED BY <2>1, <2>2, <2>3, <2>4, PlacesDiffer
<1>2. /\ o \in [Places -> Places]
      /\ \A x, y \in Places : x # y => o[x] # o[y]
      /\ \A y \in Places : L[y] = {} \/ \E x \in Places : o[x] = y
  BY ShiftFacts
<1> HIDE DEF o
<1> QED BY <1>1, <1>2, Renamed

(* Taking the first pending job to a worker that holds nothing. *)
LEMMA Dequeued ==
  ASSUME NEW q, NEW r, NEW stored, NEW played, NEW held, NEW held2, NEW w
  PROVE  (/\ w \in Workers /\ held[w] = {} /\ held2[w] = JobParts(q[1])
          /\ \A v \in Workers : v # w => held2[v] = held[v]
          /\ q \in Seq(Jobs) /\ q # <<>> /\ r = Tail(q))
         => Rearranged(Layout(q, stored, played, held), Layout(r, stored, played, held2))
<1> DEFINE L == Layout(q, stored, played, held)
           M == Layout(r, stored, played, held2)
<1>1. /\ DOMAIN L = Places /\ L[Stored] = stored /\ L[Invariant] = played
      /\ \A n \in Nat \ {0} : L[Pending(n)] = QueueAt(q, n)
      /\ \A v \in Workers : L[Worker(v)] = held[v]
  BY LayoutAt
<1>2. /\ DOMAIN M = Places /\ M[Stored] = stored /\ M[Invariant] = played
      /\ \A n \in Nat \ {0} : M[Pending(n)] = QueueAt(r, n)
      /\ \A v \in Workers : M[Worker(v)] = held2[v]
  BY LayoutAt
<1> HIDE DEF L, M
<1> SUFFICES ASSUME q \in Seq(Jobs), q # <<>>, r = Tail(q), w \in Workers, held[w] = {},
                    held2[w] = JobParts(q[1]), \A v \in Workers : v # w => held2[v] = held[v],
                    IsPartition(L, Formulas)
             PROVE  IsPartition(M, Formulas) /\ Pieces(M) = Pieces(L)
  BY DEF L, M, Rearranged
<1>3. /\ DOMAIN q = 1 .. Len(q) /\ Len(q) \in Nat \ {0} /\ DOMAIN r = 1 .. Len(q) - 1
      /\ \A n \in 1 .. Len(q) - 1 : r[n] = q[n + 1]
  BY QueueFacts, EmptySeq
<1>4. \A n \in Nat \ {0} : M[Pending(n)] = L[Pending(n + 1)]
  BY <1>1, <1>2, <1>3 DEF QueueAt
<1>5. M[Worker(w)] = L[Pending(1)] /\ L[Worker(w)] = {}
  BY <1>1, <1>2, <1>3 DEF QueueAt
<1>6. \A v \in Workers : v # w => M[Worker(v)] = L[Worker(v)]
  BY <1>1, <1>2
<1> QED BY <1>1, <1>2, <1>4, <1>5, <1>6, Shifted

-----------------------------------------------------------------------------
LEMMA UntranslatedNext ==
  ASSUME NEW f
  PROVE  Untranslated(f)' <=> \/ NewPending(st'.pending_jobs, f)
                              \/ \E w \in Workers : NewHeld(job'[w], fromMain'[w], toMain'[w], f)
BY DEF Untranslated, NewPending, NewHeld, NewJob, NewResult

(* Invariants only come, so jobs and results stay sound. *)
LEMMA SoundGrows ==
  ASSUME world' = world, st.invariant \subseteq st'.invariant
  PROVE  /\ \A j : JobSound(j) => JobSound(j)'
         /\ \A r : ResultSound(r) => ResultSound(r)'
BY DEF JobSound, JobUnder, ResultSound, Translated, Solved, UsedInvariant, Invariants

LEMMA SpawnStep ==
  ASSUME IInv, Spawn
  PROVE  IInv' /\ st'.losing = st.losing /\ ~st.losing /\ Pieces(Load)' = Pieces(Load)
<1> DEFINE q == st.pending_jobs
           m == q[1]
<1>1. /\ wid \in Workers /\ wpc[wid] = "unborn" /\ active[wid] /\ ~st.losing
      /\ job[wid] = DoneJob /\ fromMain[wid] = <<>> /\ toMain[wid] = <<>>
      /\ Len(q) = Cardinality(Formulas) - wid
      /\ \A w \in Workers : active[w] /\ (w >= wid => wpc[w] = "unborn")
  BY Sizes DEF IInv, PhaseInv, WorkerInv, OneThing, Spawn
<1>2. q \in Seq(Jobs) /\ q # <<>>
  BY <1>1, Sizes DEF IInv, TypeOK, MasterState
<1>3. /\ Head(q) = m /\ m \in Jobs /\ Tail(q) \in Seq(Jobs) /\ Len(Tail(q)) = Len(q) - 1
      /\ DOMAIN q = 1 .. Len(q) /\ Len(q) \in Nat /\ DOMAIN Tail(q) = 1 .. Len(q) - 1
      /\ \A n \in 1 .. Len(q) - 1 : Tail(q)[n] = q[n + 1]
      /\ \A f : NewPending(q, f) <=> NewJob(m, f) \/ NewPending(Tail(q), f)
  BY <1>2, QueueFacts
<1>4. /\ st' = [st EXCEPT !.pending_jobs = Tail(q)]
      /\ fromMain' = [fromMain EXCEPT ![wid] = <<m>>]
      /\ wpc' = [wpc EXCEPT ![wid] = "waiting"]
      /\ IF wid + 1 < NumWorkers
         THEN wid' = wid + 1 /\ mpc' = "spawn"
         ELSE wid' = 0 /\ mpc' = "read_id"
      /\ mpc = "spawn"
      /\ UNCHANGED <<world, active, verdict, job, shared, toMain>>
  <2>1. Append(fromMain[wid], m) = <<m>>
    BY <1>1, <1>3, OneMessage DEF IInv, TypeOK
  <2> QED BY <2>1, <1>3 DEF Spawn
<1> HIDE DEF q, m
<1>5. /\ st'.pending_jobs = Tail(q) /\ st'.stored_result = st.stored_result
      /\ st'.losing = st.losing /\ st'.invariant = st.invariant /\ st'.base_remaining = st.base_remaining
      /\ st' \in MasterState
  BY <1>3, <1>4 DEF IInv, TypeOK, MasterState
<1>6. \A v \in Workers :
        /\ v # wid => fromMain'[v] = fromMain[v] /\ wpc'[v] = wpc[v]
        /\ v = wid => fromMain'[v] = <<m>> /\ wpc'[v] = "waiting"
  BY <1>4 DEF IInv, TypeOK
<1>7. TypeOK'
  <2>1. wid' \in -IdHalf .. 2 * IdHalf
    BY <1>1, <1>4, Sizes, CompositionAssumption
  <2>2. <<m>> \in Seq(Jobs \cup {DoneJob})
    BY <1>3
  <2>3. /\ mpc' \in {"spawn", "read_id"}
        /\ fromMain' \in [Workers -> Seq(Jobs \cup {DoneJob})]
        /\ wpc' \in [Workers -> {"unborn", "waiting", "busy", "writing", "exited", "crashed", "killed"}]
    BY <1>4, <2>2 DEF IInv, TypeOK
  <2> QED BY <1>4, <1>5, <2>1, <2>3 DEF IInv, TypeOK
<1>8. WorkerInv'
  <2> SUFFICES ASSUME NEW v \in Workers
               PROVE  OneThing(v)'
    BY DEF WorkerInv
  <2>1. CASE v = wid
    BY <2>1, <1>1, <1>4, <1>6 DEF OneThing
  <2>2. CASE v # wid
    BY <2>2, <1>4, <1>6 DEF IInv, WorkerInv, OneThing
  <2> QED BY <2>1, <2>2
<1>9. PhaseInv'
  <2>1. CASE wid + 1 < NumWorkers
    <3>1. wid' \in Workers /\ Len(Tail(q)) = Cardinality(Formulas) - wid'
      BY <2>1, <1>1, <1>3, <1>4, Sizes DEF q
    <3>2. \A w \in Workers : active'[w] /\ (w >= wid' => wpc'[w] = "unborn")
      BY <2>1, <1>1, <1>4, <1>6, Sizes
    <3> QED BY <2>1, <3>1, <3>2, <1>1, <1>4, <1>5 DEF IInv, PhaseInv
  <2>2. CASE ~(wid + 1 < NumWorkers)
    BY <2>2, <1>1, <1>4, <1>5 DEF IInv, PhaseInv
  <2> QED BY <2>1, <2>2
<1>10. SoundInv'
  <2>1. /\ \A j : JobSound(j) => JobSound(j)'
        /\ \A r : ResultSound(r) => ResultSound(r)'
    BY <1>4, <1>5, SoundGrows
  <2>2. StoredSound(st.stored_result)'
    BY <1>4, <1>5 DEF IInv, SoundInv, StoredSound, Solved, UsedInvariant, Invariants
  <2>3. \A n \in DOMAIN q : JobSound(q[n])
    BY DEF IInv, SoundInv, q
  <2>4. JobSound(m)
    BY <1>2, <1>3, <2>3, EmptySeq DEF m
  <2>5. \A n \in DOMAIN st'.pending_jobs : JobSound(st'.pending_jobs[n])
    BY <1>3, <1>5, <2>3
  <2>6. \A v \in Workers :
          /\ JobSound(job'[v])
          /\ \A n \in DOMAIN fromMain'[v] : JobSound(fromMain'[v][n])
          /\ \A n \in DOMAIN toMain'[v] : ResultSound(toMain'[v][n])
    BY <1>4, <1>6, <2>4 DEF IInv, SoundInv
  <2>7. world' \in Worlds /\ st'.invariant \subseteq Invariants' /\ (st'.losing => Formulas \notin world'.realizable)
    BY <1>4, <1>5 DEF IInv, SoundInv, Invariants
  <2> QED BY <2>1, <2>2, <2>5, <2>6, <2>7 DEF SoundInv
<1>11. CountInv'
  <2>1. /\ \A f : NewHeld(DoneJob, <<m>>, <<>>, f) <=> NewJob(m, f)
        /\ \A f : ~NewHeld(DoneJob, <<>>, <<>>, f)
    BY HeldCases
  <2>2. \A f : \A v \in Workers :
          NewHeld(job'[v], fromMain'[v], toMain'[v], f) <=>
            (v = wid /\ NewJob(m, f)) \/ NewHeld(job[v], fromMain[v], toMain[v], f)
    BY <1>1, <1>4, <1>6, <2>1
  <2>3. \A f : Untranslated(f)' <=> Untranslated(f)
    BY <1>1, <1>3, <1>5, <2>2, UntranslatedIs, UntranslatedNext DEF q
  <2>4. {f \in Formulas : Untranslated(f)}' = {f \in Formulas : Untranslated(f)}
    BY <2>3
  <2> QED BY <1>4, <1>5, <2>4 DEF IInv, CountInv
<1>12. IsPartition(Load, Formulas)' /\ Pieces(Load)' = Pieces(Load)
  <2>1. AllHeld[wid] = {}
    BY <1>1, HeldCases DEF AllHeld
  <2>2. /\ AllHeld'[wid] = JobParts(m)
        /\ \A v \in Workers : v # wid => AllHeld'[v] = AllHeld[v]
    <3>1. /\ Held(DoneJob, <<m>>, <<>>) = JobParts(m)
          /\ \A v \in Workers : AllHeld'[v] = Held(job'[v], fromMain'[v], toMain'[v])
          /\ \A v \in Workers : AllHeld[v] = Held(job[v], fromMain[v], toMain[v])
      BY HeldCases DEF AllHeld
    <3> QED BY <1>1, <1>4, <1>6, <3>1
  <2>3. Played(st)' = Played(st)
    BY <1>4, <1>5 DEF Played
  <2> DEFINE p == Played(st)
             c == st.stored_result.parts
             h == AllHeld
             h2 == AllHeld'
             r == Tail(q)
  <2>4. IsPartition(Layout(q, c, p, h), Formulas)
    BY <1>1 DEF IInv, PartitionInv, Load, q
  <2>5. Load' = Layout(Tail(q), c, p, h2) /\ Load = Layout(q, c, p, h)
    BY <1>5, <2>3 DEF Load, q
  <2>6. h[wid] = {} /\ h2[wid] = JobParts(q[1]) /\ \A v \in Workers : v # wid => h2[v] = h[v]
    BY <2>1, <2>2 DEF m
  <2> HIDE DEF p, c, h, h2, r
  <2>7. /\ IsPartition(Layout(r, c, p, h2), Formulas)
        /\ Pieces(Layout(r, c, p, h2)) = Pieces(Layout(q, c, p, h))
    <3>1. q \in Seq(Jobs) /\ q # <<>> /\ r = Tail(q) /\ wid \in Workers
      BY <1>1, <1>2 DEF r
    <3>2. Rearranged(Layout(q, c, p, h), Layout(r, c, p, h2))
      BY <3>1, <2>6, Dequeued
    <3> QED BY <3>2, <2>4 DEF Rearranged
  <2> QED BY <2>5, <2>7 DEF r, IsPartition, Pieces
<1> QED BY <1>1, <1>5, <1>7, <1>8, <1>9, <1>10, <1>11, <1>12 DEF IInv, PartitionInv

-----------------------------------------------------------------------------
(***************************************************************************)
(* What the master does with a result, in terms of layouts.                *)
(***************************************************************************)
LEMMA AddResultFacts ==
  ASSUME NEW s \in MasterState, NEW g \in Games
  PROVE  LET t == AddResult(s, g)
             h == Merge(s.stored_result, g)
         IN  /\ t \in MasterState
             /\ t.losing = s.losing /\ t.invariant = s.invariant /\ t.base_remaining = s.base_remaining
             /\ \/ /\ s.stored_result = NoGame /\ s.stored_result.parts = {}
                   /\ t.stored_result = g /\ t.pending_jobs = s.pending_jobs
                \/ /\ s.stored_result \in Games /\ h \in Games
                   /\ h.parts = s.stored_result.parts \cup g.parts
                   /\ t.stored_result = NoGame /\ t.stored_result.parts = {}
                   /\ t.pending_jobs = Append(s.pending_jobs, SolveJob(h))
<1> DEFINE t == AddResult(s, g)
           h == Merge(s.stored_result, g)
<1>1. s.pending_jobs \in Seq(Jobs) /\ s.stored_result \in Games \cup {NoGame} /\ NoGame.parts = {}
  BY DEF MasterState, NoGame
<1>2. CASE s.stored_result = NoGame
  <2>1. t = [s EXCEPT !.stored_result = g]
    BY <1>2 DEF AddResult
  <2> HIDE DEF t
  <2>2. t.stored_result = g /\ t.pending_jobs = s.pending_jobs
        /\ t.losing = s.losing /\ t.invariant = s.invariant /\ t.base_remaining = s.base_remaining
    BY <2>1 DEF MasterState
  <2>3. t \in MasterState
    BY <2>1 DEF MasterState
  <2> QED BY <1>1, <1>2, <2>2, <2>3 DEF t
<1>3. CASE s.stored_result # NoGame
  <2>1. s.stored_result \in Games
    BY <1>1, <1>3
  <2>2. h \in Games /\ h.parts = s.stored_result.parts \cup g.parts
    BY <2>1 DEF Merge, Games
  <2> DEFINE j == SolveJob(h)
             q == Append(s.pending_jobs, j)
  <2>3. j \in Jobs
    BY <2>2, DataTypes
  <2>4. q \in Seq(Jobs)
    BY <1>1, <2>3, QueueFacts
  <2>5. t = [[s EXCEPT !.pending_jobs = q] EXCEPT !.stored_result = NoGame]
    BY <1>3 DEF AddResult, Enqueue
  <2> HIDE DEF t, q, j, h
  <2>6. t.stored_result = NoGame /\ t.pending_jobs = q
        /\ t.losing = s.losing /\ t.invariant = s.invariant /\ t.base_remaining = s.base_remaining
    BY <2>5 DEF MasterState
  <2>7. t \in MasterState
    BY <2>4, <2>5 DEF MasterState
  <2> QED BY <1>1, <2>1, <2>2, <2>6, <2>7 DEF t, q, j, h
<1> QED BY <1>2, <1>3

LEMMA SetInvariantFacts ==
  ASSUME NEW j \in Jobs, NEW inv \in SUBSET Formulas
  PROVE  LET i == SetInvariant(j, inv)
         IN  /\ i \in Jobs /\ JobParts(i) = JobParts(j) /\ JobUnder(i, inv)
             /\ \A f : NewJob(i, f) <=> NewJob(j, f)
<1> DEFINE i == SetInvariant(j, inv)
<1>1. CASE j.type = "formula"
  <2>1. i = j
    BY <1>1 DEF SetInvariant
  <2> HIDE DEF i
  <2>2. i \in Jobs /\ JobParts(i) = JobParts(j) /\ JobUnder(i, inv) /\ \A f : NewJob(i, f) <=> NewJob(j, f)
    BY <1>1, <2>1 DEF JobUnder
  <2> QED BY <2>2 DEF i
<1>2. CASE j.type = "solve"
  <2>1. i = [j EXCEPT !.invariant = inv]
    BY <1>2 DEF SetInvariant
  <2>2. j \in [type : {"solve"}, game : Games, invariant : SUBSET Formulas]
    BY <1>2 DEF Jobs
  <2> HIDE DEF i
  <2>3. i \in Jobs /\ i.type = "solve" /\ i.game = j.game /\ i.invariant = inv
    BY <2>1, <2>2 DEF Jobs
  <2>4. JobParts(i) = JobParts(j) /\ JobUnder(i, inv) /\ \A f : NewJob(i, f) <=> NewJob(j, f)
    BY <1>2, <2>3 DEF JobParts, JobUnder, NewJob
  <2> QED BY <2>3, <2>4 DEF i
<1> QED BY <1>1, <1>2, DataTypes

(* What lies at x is gathered with what lies in some other places. *)
Gathered(L, M, x) ==
  \E X \in SUBSET Places : x \in X /\ \E y \in X : M = Gather(L, X, y)

OwnPlaces == {Invariant} \cup {Worker(w) : w \in Workers}

LEMMA OwnPlacesFacts ==
  /\ OwnPlaces \subseteq Places /\ Stored \notin OwnPlaces /\ Stored \in Places
  /\ \A n \in Nat \ {0} : Pending(n) \in Places \ OwnPlaces /\ Pending(n) # Stored
  /\ \A x \in Places : x = Stored \/ x \in OwnPlaces \/ \E n \in Nat \ {0} : x = Pending(n)
  /\ \A n, m \in Nat \ {0} : Pending(n) = Pending(m) => n = m
BY PlacesDiffer DEF OwnPlaces

LEMMA AppendAt ==
  ASSUME NEW q \in Seq(Jobs), NEW j \in Jobs
  PROVE  /\ Len(q) + 1 \in Nat \ {0}
         /\ QueueAt(q, Len(q) + 1) = {} /\ QueueAt(Append(q, j), Len(q) + 1) = JobParts(j)
         /\ \A n \in Nat \ {0} : n # Len(q) + 1 => QueueAt(Append(q, j), n) = QueueAt(q, n)
BY QueueFacts DEF QueueAt

(* A job is made of what lies at x and what is stored: the rest stays. *)
LEMMA Queued ==
  ASSUME NEW q \in Seq(Jobs), NEW j \in Jobs, NEW x \in OwnPlaces,
         NEW L, NEW M, DOMAIN L = Places, M = [z \in Places |-> M[z]],
         JobParts(j) = L[x] \cup L[Stored], M[x] = {}, M[Stored] = {},
         \A z \in OwnPlaces : z # x => M[z] = L[z],
         \A n \in Nat \ {0} : L[Pending(n)] = QueueAt(q, n) /\ M[Pending(n)] = QueueAt(Append(q, j), n)
  PROVE  Gathered(L, M, x)
<1> DEFINE n == Len(q) + 1
           y == Pending(n)
           X == {x, Stored, y}
<1>1. /\ n \in Nat \ {0} /\ L[y] = {} /\ M[y] = JobParts(j)
      /\ \A m \in Nat \ {0} : m # n => M[Pending(m)] = L[Pending(m)]
  BY AppendAt
<1>2. X \in SUBSET Places /\ x \in X /\ y \in X
  BY <1>1, OwnPlacesFacts
<1> HIDE DEF n, y
<1>3. M[y] = UNION {L[z] : z \in X}
  <2>1. {L[z] : z \in X} = {L[x], L[Stored], L[y]}
    OBVIOUS
  <2> QED BY <1>1, <2>1
<1>4. \A z \in X : z # y => M[z] = {}
  OBVIOUS
<1>5. ASSUME NEW z \in Places \ X
      PROVE  M[z] = L[z]
  <2>1. CASE z \in OwnPlaces
    BY <2>1
  <2>2. CASE \E m \in Nat \ {0} : z = Pending(m)
    BY <2>2, <1>1 DEF y
  <2> QED BY <2>1, <2>2, OwnPlacesFacts
<1>6. DOMAIN M = Places
  OBVIOUS
<1> HIDE DEF X
<1>7. M = Gather(L, X, y)
  BY <1>2, <1>3, <1>4, <1>5, <1>6 DEF Gather
<1> QED BY <1>2, <1>7 DEF Gathered

LEMMA Kept ==
  ASSUME NEW q, NEW x \in OwnPlaces,
         NEW L, NEW M, DOMAIN L = Places, M = [z \in Places |-> M[z]],
         L[Stored] = {}, M[x] = {}, M[Stored] = L[x],
         \A z \in OwnPlaces : z # x => M[z] = L[z],
         \A n \in Nat \ {0} : L[Pending(n)] = QueueAt(q, n) /\ M[Pending(n)] = QueueAt(q, n)
  PROVE  Gathered(L, M, x)
<1> DEFINE X == {x, Stored}
<1>1. X \in SUBSET Places /\ x \in X /\ Stored \in X /\ x # Stored
  BY OwnPlacesFacts
<1>2. M[Stored] = UNION {L[z] : z \in X}
  <2>1. {L[z] : z \in X} = {L[x], L[Stored]}
    OBVIOUS
  <2> QED BY <2>1
<1>3. \A z \in Places \ X : M[z] = L[z]
  BY OwnPlacesFacts
<1>4. DOMAIN M = Places /\ \A z \in X : z # Stored => M[z] = {}
  OBVIOUS
<1> HIDE DEF X
<1>5. M = Gather(L, X, Stored)
  BY <1>1, <1>2, <1>3, <1>4 DEF Gather
<1> QED BY <1>1, <1>5 DEF Gathered

(* A result that only moves to the end of the queue. *)
MovedFrom(L, M, x) == \E y \in Places : L[y] = {} /\ M = Gather(L, {x, y}, y)

LEMMA Moved ==
  ASSUME NEW q \in Seq(Jobs), NEW j \in Jobs, NEW x \in OwnPlaces,
         NEW L, NEW M, DOMAIN L = Places, M = [z \in Places |-> M[z]],
         JobParts(j) = L[x], M[x] = {}, M[Stored] = L[Stored],
         \A z \in OwnPlaces : z # x => M[z] = L[z],
         \A n \in Nat \ {0} : L[Pending(n)] = QueueAt(q, n) /\ M[Pending(n)] = QueueAt(Append(q, j), n)
  PROVE  MovedFrom(L, M, x)
<1> DEFINE n == Len(q) + 1
           y == Pending(n)
           X == {x, y}
<1>1. /\ n \in Nat \ {0} /\ L[y] = {} /\ M[y] = JobParts(j)
      /\ \A m \in Nat \ {0} : m # n => M[Pending(m)] = L[Pending(m)]
  BY AppendAt
<1>2. X \in SUBSET Places /\ x \in X /\ y \in X
  BY <1>1, OwnPlacesFacts
<1> HIDE DEF n, y
<1>3. M[y] = UNION {L[z] : z \in X}
  <2>1. {L[z] : z \in X} = {L[x], L[y]}
    OBVIOUS
  <2> QED BY <1>1, <2>1
<1>4. \A z \in X : z # y => M[z] = {}
  OBVIOUS
<1>5. ASSUME NEW z \in Places \ X
      PROVE  M[z] = L[z]
  <2>1. CASE z \in OwnPlaces
    BY <2>1
  <2>2. CASE \E m \in Nat \ {0} : z = Pending(m)
    BY <2>2, <1>1 DEF y
  <2> QED BY <2>1, <2>2, OwnPlacesFacts
<1> HIDE DEF X
<1>6. M = Gather(L, X, y)
  BY <1>2, <1>3, <1>4, <1>5 DEF Gather
<1> QED BY <1>1, <1>2, <1>6 DEF X, MovedFrom

LEMMA MovedPieces ==
  ASSUME NEW L, NEW M, NEW x \in Places, DOMAIN L = Places, MovedFrom(L, M, x)
  PROVE  Rearranged(L, M)
<1>1. PICK y \in Places : L[y] = {} /\ M = Gather(L, {x, y}, y)
  BY DEF MovedFrom
<1> DEFINE X == {x, y}
<1>2. X \in SUBSET DOMAIN L /\ x \in X /\ y \in X /\ \A z \in X : z # x => L[z] = {}
  BY <1>1
<1> HIDE DEF X
<1>3. ASSUME IsPartition(L, Formulas)
      PROVE  IsPartition(Gather(L, X, y), Formulas) /\ Pieces(Gather(L, X, y)) = Pieces(L)
  BY <1>2, <1>3, GatherPartition, GatherMoves
<1> QED BY <1>1, <1>3 DEF X, Rearranged

LEMMA AddResultPlaces ==
  ASSUME NEW s \in MasterState, NEW g \in Games
  PROVE  LET t == AddResult(s, g)
             h == Merge(s.stored_result, g)
         IN  \/ /\ s.stored_result.parts = {} /\ t.stored_result = g /\ t.pending_jobs = s.pending_jobs
             \/ /\ h \in Games /\ h.parts = s.stored_result.parts \cup g.parts
                /\ t.stored_result.parts = {} /\ t.pending_jobs = Append(s.pending_jobs, SolveJob(h))
BY AddResultFacts

LEMMA Added ==
  ASSUME NEW s \in MasterState, NEW g \in Games, NEW t, t = AddResult(s, g), NEW x \in OwnPlaces,
         NEW L, NEW M, DOMAIN L = Places, M = [z \in Places |-> M[z]],
         L[x] = g.parts, M[x] = {},
         L[Stored] = s.stored_result.parts, M[Stored] = t.stored_result.parts,
         \A z \in OwnPlaces : z # x => M[z] = L[z],
         \A n \in Nat \ {0} : /\ L[Pending(n)] = QueueAt(s.pending_jobs, n)
                              /\ M[Pending(n)] = QueueAt(t.pending_jobs, n)
  PROVE  Gathered(L, M, x)
<1> DEFINE h == Merge(s.stored_result, g)
           q == s.pending_jobs
<1>1. \/ /\ s.stored_result.parts = {} /\ t.stored_result = g /\ t.pending_jobs = q
      \/ /\ h \in Games /\ h.parts = s.stored_result.parts \cup g.parts
         /\ t.stored_result.parts = {} /\ t.pending_jobs = Append(q, SolveJob(h))
  BY AddResultPlaces
<1>2. q \in Seq(Jobs)
  BY DEF MasterState
<1>3. CASE s.stored_result.parts = {} /\ t.stored_result = g /\ t.pending_jobs = q
  <2>1. L[Stored] = {} /\ M[Stored] = L[x]
    BY <1>3
  <2>2. \A n \in Nat \ {0} : L[Pending(n)] = QueueAt(q, n) /\ M[Pending(n)] = QueueAt(q, n)
    BY <1>3
  <2> HIDE DEF q
  <2> QED BY <2>1, <2>2, Kept
<1>4. CASE /\ h \in Games /\ h.parts = s.stored_result.parts \cup g.parts
           /\ t.stored_result.parts = {} /\ t.pending_jobs = Append(q, SolveJob(h))
  <2> DEFINE j == SolveJob(h)
  <2>1. j \in Jobs /\ JobParts(j) = L[x] \cup L[Stored]
    BY <1>4, DataTypes
  <2>2. \A n \in Nat \ {0} : L[Pending(n)] = QueueAt(q, n) /\ M[Pending(n)] = QueueAt(Append(q, j), n)
    BY <1>4
  <2>3. M[Stored] = {}
    BY <1>4
  <2> HIDE DEF q, h, j
  <2> QED BY <1>2, <2>1, <2>2, <2>3, Queued
<1> QED BY <1>1, <1>3, <1>4

LEMMA GatheredJoins ==
  ASSUME NEW L, NEW M, NEW x, DOMAIN L = Places, IsPartition(L, Formulas), Gathered(L, M, x)
  PROVE  IsPartition(M, Formulas) /\ Joined(Pieces(L), Pieces(M))
<1>1. PICK X \in SUBSET Places : \E y \in X : M = Gather(L, X, y)
  BY DEF Gathered
<1>2. PICK y \in X : M = Gather(L, X, y)
  BY <1>1
<1>3. IsPartition(Gather(L, X, y), Formulas)
  BY GatherPartition
<1>4. Joined(Pieces(L), Pieces(Gather(L, X, y)))
  BY GatherJoins
<1> QED BY <1>2, <1>3, <1>4

LEMMA GatheredTwice ==
  ASSUME NEW L, NEW M, NEW N, NEW X \in SUBSET Places, NEW x \in X, DOMAIN L = Places,
         M = Gather(L, X, x), Gathered(M, N, x)
  PROVE  Gathered(L, N, x)
<1>1. DOMAIN M = Places
  BY DEF Gather
<1>2. PICK Y \in SUBSET Places : x \in Y /\ \E y \in Y : N = Gather(M, Y, y)
  BY DEF Gathered
<1>3. PICK y \in Y : N = Gather(M, Y, y)
  BY <1>2
<1>4. N = Gather(L, X \cup Y, y)
  BY <1>2, <1>3, GatherTwice
<1>5. X \cup Y \in SUBSET Places /\ x \in X \cup Y /\ y \in X \cup Y
  OBVIOUS
<1> QED BY <1>4, <1>5 DEF Gathered

-----------------------------------------------------------------------------
(* The master reads a result: the worker it comes from has nothing else. *)
Reading == mpc = "read_result" /\ toMain[wid] # <<>>

Result == toMain[wid][1]

Freed == [AllHeld EXCEPT ![wid] = {}]

LayoutOf(s, held) == Layout(s.pending_jobs, s.stored_result.parts, Played(s), held)

(* Formulas to be translated, or on their way, without those of the result. *)
NewLeft(q, f) ==
  NewPending(q, f) \/ \E v \in Workers \ {wid} : NewHeld(job[v], fromMain[v], toMain[v], f)

CountLeft(q) == Cardinality({f \in Formulas : NewLeft(q, f)})

LEMMA ResultRead ==
  ASSUME IInv, Reading
  PROVE  /\ wid \in Workers /\ toMain[wid] = <<Result>>
         /\ Head(toMain[wid]) = Result /\ Tail(toMain[wid]) = <<>>
         /\ Result \in Results /\ ResultSound(Result)
         /\ job[wid] = DoneJob /\ fromMain[wid] = <<>> /\ active[wid]
         /\ ~st.losing /\ IsPartition(Load, Formulas)
         /\ AllHeld[wid] = ResultParts(Result)
<1>1. wid \in Workers /\ ~st.losing
  BY DEF IInv, PhaseInv, Reading
<1>2. /\ job[wid] = DoneJob /\ fromMain[wid] = <<>> /\ active[wid] /\ Len(toMain[wid]) = 1
  BY <1>1 DEF IInv, WorkerInv, OneThing, Reading
<1>3. /\ toMain[wid] = <<Result>> /\ Head(toMain[wid]) = Result /\ Tail(toMain[wid]) = <<>>
      /\ Result \in Results /\ DOMAIN toMain[wid] = {1}
  BY <1>1, <1>2, OneMessage DEF IInv, TypeOK, Result
<1>4. ResultSound(Result)
  BY <1>1, <1>3 DEF IInv, SoundInv, Result
<1>5. AllHeld[wid] = ResultParts(Result)
  <2>1. AllHeld[wid] = Held(job[wid], fromMain[wid], toMain[wid])
    BY <1>1 DEF AllHeld
  <2>2. Held(DoneJob, <<>>, <<Result>>) = ResultParts(Result)
    BY HeldCases
  <2> QED BY <1>2, <1>3, <2>1, <2>2
<1>6. IsPartition(Load, Formulas)
  BY <1>1 DEF IInv, PartitionInv
<1> QED BY <1>1, <1>2, <1>3, <1>4, <1>5, <1>6

LEMMA NewIsHeld ==
  /\ \A j, f : NewJob(j, f) => f \in JobParts(j)
  /\ \A r, f : NewResult(r, f) => f \in ResultParts(r)
  /\ \A j, from, to, f : NewHeld(j, from, to, f) => f \in Held(j, from, to)
<1>1. \A j, f : NewJob(j, f) => f \in JobParts(j)
  BY DEF NewJob, JobParts
<1>2. \A r, f : NewResult(r, f) => f \in ResultParts(r)
  BY DEF NewResult, ResultParts
<1>3. \A j, from, to, f : NewHeld(j, from, to, f) => f \in Held(j, from, to)
  BY <1>1, <1>2 DEF NewHeld, Held
<1> QED BY <1>1, <1>2, <1>3

(* A formula whose translation is read is nowhere else. *)
LEMMA OnlyHere ==
  ASSUME IInv, Reading, NEW f, NewResult(Result, f)
  PROVE  f \in Formulas /\ ~NewLeft(st.pending_jobs, f)
<1>1. f \in ResultParts(Result)
  BY NewIsHeld
<1>2. f \in Formulas
  BY <1>1, ResultRead, DataTypes
<1>3. /\ Load[Worker(wid)] = AllHeld[wid]
      /\ \A n \in Nat \ {0} : Load[Pending(n)] = QueueAt(st.pending_jobs, n)
      /\ \A v \in Workers : Load[Worker(v)] = AllHeld[v]
      /\ DOMAIN Load = Places
  BY ResultRead, LayoutAt DEF Load
<1>4. f \in Load[Worker(wid)]
  BY <1>1, <1>3, ResultRead
<1>5. \A x \in Places : f \in Load[x] => x = Worker(wid)
  BY <1>3, <1>4, ResultRead, PlacesDiffer DEF IsPartition
<1>6. ~NewPending(st.pending_jobs, f)
  <2> SUFFICES ASSUME NEW n \in DOMAIN st.pending_jobs, NewJob(st.pending_jobs[n], f)
               PROVE  FALSE
    BY DEF NewPending
  <2>1. n \in Nat \ {0}
    BY QueueFacts DEF IInv, TypeOK, MasterState
  <2>2. f \in Load[Pending(n)]
    BY <2>1, <1>3, NewIsHeld DEF QueueAt
  <2> QED BY <2>1, <2>2, <1>5, PlacesDiffer, ResultRead
<1>7. ASSUME NEW v \in Workers \ {wid}, NewHeld(job[v], fromMain[v], toMain[v], f)
      PROVE  FALSE
  <2>1. f \in Load[Worker(v)]
    BY <1>3, <1>7, NewIsHeld DEF AllHeld
  <2> QED BY <2>1, <1>5, <1>7, PlacesDiffer, ResultRead
<1> QED BY <1>2, <1>6, <1>7 DEF NewLeft

LEMMA LeftCount ==
  ASSUME IInv, Reading
  PROVE  /\ \A f : NewResult(Result, f) =>
              st.base_remaining \in Nat \ {0} /\ CountLeft(st.pending_jobs) = st.base_remaining - 1
         /\ (\A f : ~NewResult(Result, f)) =>
              CountLeft(st.pending_jobs) = IF st.base_remaining = -1 THEN 0 ELSE st.base_remaining
<1> DEFINE q == st.pending_jobs
           U == {f \in Formulas : Untranslated(f)}
           N == {f \in Formulas : NewLeft(q, f)}
<1>1. IsFiniteSet(U) /\ Cardinality(U) = IF st.base_remaining = -1 THEN 0 ELSE st.base_remaining
  BY CompositionAssumption, FS_Subset DEF IInv, CountInv
<1>2. \A f : Untranslated(f) <=> NewLeft(q, f) \/ NewResult(Result, f)
  <2>1. \A f : NewHeld(job[wid], fromMain[wid], toMain[wid], f) <=> NewResult(Result, f)
    <3>1. \A f : NewHeld(DoneJob, <<>>, <<Result>>, f) <=> NewResult(Result, f)
      BY HeldCases
    <3> QED BY <3>1, ResultRead
  <2>2. wid \in Workers
    BY ResultRead
  <2> QED BY <2>1, <2>2, UntranslatedIs DEF NewLeft
<1>3. ASSUME NEW f, NewResult(Result, f)
      PROVE  st.base_remaining \in Nat \ {0} /\ CountLeft(q) = st.base_remaining - 1
  <2>1. f \in U /\ f \notin N
    BY <1>2, <1>3, OnlyHere
  <2>2. \A e : NewResult(Result, e) => e = f
    BY <1>3 DEF NewResult
  <2>3. N = U \ {f}
    BY <1>2, <2>1, <2>2
  <2> HIDE DEF U, N
  <2>4. Cardinality(N) = Cardinality(U) - 1 /\ Cardinality(N) \in Nat /\ Cardinality(U) \in Nat
    BY <1>1, <2>1, <2>3, FS_RemoveElement, FS_CardinalityType, FS_Subset
  <2>5. Cardinality(U) # 0
    BY <1>1, <2>1, FS_EmptySet
  <2> QED BY <1>1, <2>4, <2>5 DEF CountLeft, N
<1>4. ASSUME \A f : ~NewResult(Result, f)
      PROVE  CountLeft(q) = IF st.base_remaining = -1 THEN 0 ELSE st.base_remaining
  <2>1. N = U
    BY <1>2, <1>4
  <2> QED BY <1>1, <2>1 DEF CountLeft
<1> QED BY <1>3, <1>4

LEMMA FreedLayout ==
  ASSUME IInv, Reading, NEW s
  PROVE  LET M == LayoutOf(s, Freed)
         IN  /\ M = [z \in Places |-> M[z]]
             /\ M[Worker(wid)] = {} /\ M[Invariant] = Played(s) /\ M[Stored] = s.stored_result.parts
             /\ \A v \in Workers : v # wid => M[Worker(v)] = Load[Worker(v)]
             /\ \A n \in Nat \ {0} : M[Pending(n)] = QueueAt(s.pending_jobs, n)
<1> DEFINE M == LayoutOf(s, Freed)
<1>1. /\ M = [z \in Places |-> M[z]] /\ M[Invariant] = Played(s) /\ M[Stored] = s.stored_result.parts
      /\ \A v \in Workers : M[Worker(v)] = Freed[v]
      /\ \A n \in Nat \ {0} : M[Pending(n)] = QueueAt(s.pending_jobs, n)
  BY LayoutAt DEF LayoutOf
<1>2. Freed[wid] = {} /\ \A v \in Workers : v # wid => Freed[v] = AllHeld[v]
  BY ResultRead DEF Freed, AllHeld
<1>3. \A v \in Workers : Load[Worker(v)] = AllHeld[v]
  BY LayoutAt DEF Load
<1> HIDE DEF M
<1>4. /\ M = [z \in Places |-> M[z]]
      /\ M[Worker(wid)] = {} /\ M[Invariant] = Played(s) /\ M[Stored] = s.stored_result.parts
      /\ \A v \in Workers : v # wid => M[Worker(v)] = Load[Worker(v)]
      /\ \A n \in Nat \ {0} : M[Pending(n)] = QueueAt(s.pending_jobs, n)
  BY <1>1, <1>2, <1>3, ResultRead
<1> QED BY <1>4 DEF M

LEMMA LoadAt ==
  ASSUME IInv, Reading
  PROVE  /\ DOMAIN Load = Places
         /\ Load[Worker(wid)] = ResultParts(Result) /\ Load[Invariant] = Played(st)
         /\ Load[Stored] = st.stored_result.parts
         /\ \A n \in Nat \ {0} : Load[Pending(n)] = QueueAt(st.pending_jobs, n)
         /\ Worker(wid) \in OwnPlaces /\ Invariant \in OwnPlaces
         /\ \A z \in OwnPlaces : z # Worker(wid) =>
              z = Invariant \/ \E v \in Workers : v # wid /\ z = Worker(v)
<1>1. /\ DOMAIN Load = Places
      /\ Load[Invariant] = Played(st) /\ Load[Stored] = st.stored_result.parts
      /\ \A n \in Nat \ {0} : Load[Pending(n)] = QueueAt(st.pending_jobs, n)
      /\ \A v \in Workers : Load[Worker(v)] = AllHeld[v]
  BY LayoutAt DEF Load
<1>2. /\ Worker(wid) \in OwnPlaces /\ Invariant \in OwnPlaces
      /\ \A z \in OwnPlaces : z # Worker(wid) =>
           z = Invariant \/ \E v \in Workers : v # wid /\ z = Worker(v)
  BY ResultRead DEF OwnPlaces
<1> QED BY <1>1, <1>2, ResultRead

(***************************************************************************)
(* The master's object s after the result: nothing is lost, and what it    *)
(* says is right.                                                          *)
(***************************************************************************)
SoundMaster(s) ==
  /\ s \in MasterState
  /\ st.invariant \subseteq s.invariant /\ s.invariant \subseteq Invariants
  /\ \A n \in DOMAIN s.pending_jobs : JobUnder(s.pending_jobs[n], s.invariant)
  /\ StoredSound(s.stored_result)
  /\ CountLeft(s.pending_jobs) = IF s.base_remaining = -1 THEN 0 ELSE s.base_remaining
  /\ s.base_remaining = -1 => ~world.supports_invariant
  /\ s.losing => /\ Formulas \notin world.realizable
                 /\ \E S \in SUBSET Pieces(Load) : UNION S \notin world.realizable

Placed(s) ==
  /\ IsPartition(LayoutOf(s, Freed), Formulas)
  /\ Joined(Pieces(Load), Pieces(LayoutOf(s, Freed)))

(* A conjunction that the result refutes together with the invariant. *)
LEMMA Refuted ==
  ASSUME IInv, Reading, NEW X, X \notin world.realizable, X \subseteq ResultParts(Result) \cup Played(st)
  PROVE  /\ Formulas \notin world.realizable
         /\ \E S \in SUBSET Pieces(Load) : UNION S \notin world.realizable
<1> DEFINE S == {Load[Worker(wid)], Load[Invariant]} \ {{}}
<1>1. \A R \in world.realizable : SUBSET R \subseteq world.realizable
  BY CompositionAssumption DEF IInv, SoundInv, IsWorld
<1>2. UNION S = ResultParts(Result) \cup Played(st)
  BY LoadAt
<1>3. Worker(wid) \in Places /\ Invariant \in Places /\ DOMAIN Load = Places
  BY LoadAt, OwnPlacesFacts
<1>4. S \in SUBSET Pieces(Load)
  BY <1>3 DEF Pieces
<1>5. ResultParts(Result) \cup Played(st) \subseteq Formulas
  BY ResultRead, DataTypes DEF Played, IInv, TypeOK, MasterState
<1>6. X \in SUBSET (UNION S) /\ X \in SUBSET Formulas
  BY <1>2, <1>5
<1> HIDE DEF S
<1>7. UNION S \notin world.realizable /\ Formulas \notin world.realizable
  BY <1>1, <1>6
<1> QED BY <1>4, <1>7

LEMMA HandleInvariant ==
  ASSUME IInv, Reading, Result.type = "invariant",
         NEW s, s = HandleResult(st, Result)
  PROVE  /\ SoundMaster(s)
         /\ ~s.losing => LayoutOf(s, Freed) = Gather(Load, {Worker(wid), Invariant}, Invariant)
<1> DEFINE f == Result.formula
           inv == st.invariant \cup {f}
           b == st.base_remaining - 1
           lost == inv \in world.falsum
<1>1. NewResult(Result, f) /\ f \in Formulas /\ f \in Invariants /\ ResultParts(Result) = {f}
  BY ResultRead, DataTypes DEF NewResult, ResultSound, ResultParts
<1>2. st \in MasterState /\ st.base_remaining \in Nat \ {0} /\ CountLeft(st.pending_jobs) = b
  BY <1>1, LeftCount DEF IInv, TypeOK
<1>3. ~st.losing
  BY ResultRead
<1>4. s = [[st EXCEPT !.base_remaining = b] EXCEPT !.invariant = inv, !.losing = lost]
  <2> DEFINE u == [st EXCEPT !.base_remaining = b]
  <2>1. u.invariant = st.invariant /\ u.losing = FALSE
    BY <1>2, <1>3 DEF MasterState
  <2>2. s = AddInvariant(u, f)
    BY DEF HandleResult
  <2> HIDE DEF u
  <2>3. (u.losing \/ (u.invariant \cup {f}) \in world.falsum) = lost
    BY <2>1
  <2> HIDE DEF lost
  <2>4. s = [u EXCEPT !.invariant = inv, !.losing = lost]
    BY <2>1, <2>2, <2>3 DEF AddInvariant
  <2> QED BY <2>4 DEF u
<1> HIDE DEF b, inv
<1>13. lost \in BOOLEAN
  OBVIOUS
<1> HIDE DEF lost
<1>5. /\ s.pending_jobs = st.pending_jobs /\ s.stored_result = st.stored_result
      /\ s.base_remaining = b /\ s.invariant = inv /\ s.losing = lost
  BY <1>2, <1>4 DEF MasterState
<1>6. b \in Nat /\ inv \in SUBSET Formulas /\ st.invariant \subseteq inv /\ inv \subseteq Invariants
  BY <1>1, <1>2 DEF b, inv, MasterState, IInv, SoundInv
<1>7. s \in MasterState
  <2> DEFINE u == [st EXCEPT !.base_remaining = b]
  <2>1. u \in MasterState
    BY <1>2, <1>6 DEF MasterState
  <2>2. s = [u EXCEPT !.invariant = inv, !.losing = lost]
    BY <1>4
  <2> HIDE DEF u
  <2> QED BY <2>1, <2>2, <1>6, <1>13 DEF MasterState
<1>8. Played(st) = st.invariant /\ Played(s) = inv
  BY <1>2, <1>5, <1>6 DEF Played
<1>9. ASSUME lost
      PROVE  /\ Formulas \notin world.realizable
             /\ \E S \in SUBSET Pieces(Load) : UNION S \notin world.realizable
  <2>1. inv \notin world.realizable
    BY <1>9, CompositionAssumption DEF lost, IInv, SoundInv, IsWorld
  <2>2. inv \subseteq ResultParts(Result) \cup Played(st)
    BY <1>1, <1>8 DEF inv
  <2> QED BY <2>1, <2>2, Refuted
<1>10. \A n \in DOMAIN s.pending_jobs : JobUnder(s.pending_jobs[n], s.invariant)
  BY <1>5, <1>6 DEF IInv, SoundInv, JobSound, JobUnder
<1>11. SoundMaster(s)
  BY <1>2, <1>5, <1>6, <1>7, <1>9, <1>10 DEF SoundMaster, IInv, SoundInv
<1>12. LayoutOf(s, Freed) = Gather(Load, {Worker(wid), Invariant}, Invariant)
  <2> DEFINE L == Load
             M == LayoutOf(s, Freed)
             X == {Worker(wid), Invariant}
  <2>1. /\ M = [z \in Places |-> M[z]]
        /\ M[Worker(wid)] = {} /\ M[Invariant] = Played(s) /\ M[Stored] = s.stored_result.parts
        /\ \A v \in Workers : v # wid => M[Worker(v)] = L[Worker(v)]
        /\ \A n \in Nat \ {0} : M[Pending(n)] = QueueAt(s.pending_jobs, n)
    BY FreedLayout
  <2>2. /\ DOMAIN L = Places
        /\ L[Worker(wid)] = ResultParts(Result) /\ L[Invariant] = Played(st)
        /\ L[Stored] = st.stored_result.parts
        /\ \A n \in Nat \ {0} : L[Pending(n)] = QueueAt(st.pending_jobs, n)
        /\ X \subseteq OwnPlaces
        /\ \A z \in OwnPlaces : z # Worker(wid) =>
             z = Invariant \/ \E v \in Workers : v # wid /\ z = Worker(v)
    BY LoadAt
  <2> HIDE DEF L, M
  <2>3. M[Invariant] = UNION {L[z] : z \in X}
    <3>1. {L[z] : z \in X} = {L[Worker(wid)], L[Invariant]}
      OBVIOUS
    <3> QED BY <1>1, <1>8, <2>1, <2>2, <3>1 DEF inv
  <2>4. \A z \in X : z # Invariant => M[z] = {}
    BY <2>1
  <2>5. ASSUME NEW z \in Places \ X
        PROVE  M[z] = L[z]
    <3>1. CASE z = Stored
      BY <3>1, <2>1, <2>2, <1>5
    <3>2. CASE z \in OwnPlaces
      BY <3>2, <2>1, <2>2
    <3>3. CASE \E n \in Nat \ {0} : z = Pending(n)
      BY <3>3, <2>1, <2>2, <1>5
    <3> QED BY <3>1, <3>2, <3>3, OwnPlacesFacts
  <2> HIDE DEF X
  <2>6. M = Gather(L, X, Invariant)
    BY <2>1, <2>2, <2>3, <2>4, <2>5 DEF Gather
  <2> QED BY <2>6 DEF L, M, X
<1> QED BY <1>11, <1>12

LEMMA HandleLosing ==
  ASSUME IInv, Reading, Result.type = "game", ~Result.game.safe,
         NEW s, s = HandleResult(st, Result)
  PROVE  SoundMaster(s) /\ s.losing /\ s.base_remaining = st.base_remaining
<1> DEFINE g == Result.game
<1>1. Solved(g) /\ g.invariant \subseteq st.invariant /\ g \in Games /\ ResultParts(Result) = g.parts
  BY ResultRead, DataTypes DEF ResultSound, Translated, ResultParts
<1>2. \A f : ~NewResult(Result, f)
  BY <1>1 DEF NewResult, Solved
<1>3. CountLeft(st.pending_jobs) = IF st.base_remaining = -1 THEN 0 ELSE st.base_remaining
  BY <1>2, LeftCount
<1>4. s = [st EXCEPT !.losing = TRUE]
  BY DEF HandleResult
<1>5. st \in MasterState
  BY DEF IInv, TypeOK
<1>6. /\ s \in MasterState /\ s.losing
      /\ s.pending_jobs = st.pending_jobs /\ s.stored_result = st.stored_result
      /\ s.base_remaining = st.base_remaining /\ s.invariant = st.invariant
  BY <1>4, <1>5 DEF MasterState
<1>7. /\ Formulas \notin world.realizable
      /\ \E S \in SUBSET Pieces(Load) : UNION S \notin world.realizable
  <2> DEFINE X == g.parts \cup UsedInvariant(g.invariant)
  <2>1. X \notin world.realizable
    BY <1>1 DEF Solved
  <2>2. X \subseteq ResultParts(Result) \cup Played(st)
    BY <1>1 DEF UsedInvariant, Played
  <2> HIDE DEF X
  <2> QED BY <2>1, <2>2, Refuted
<1> QED BY <1>3, <1>6, <1>7 DEF SoundMaster, IInv, SoundInv, JobSound, CountInv

(* Solve jobs are no formulas to translate, and are sound when made. *)
LEMMA SolveJobQueued ==
  ASSUME NEW q \in Seq(Jobs), NEW g \in Games, NEW inv, \A n \in DOMAIN q : JobUnder(q[n], inv)
  PROVE  LET r == Append(q, SolveJob(g))
         IN  /\ r \in Seq(Jobs) /\ CountLeft(r) = CountLeft(q)
             /\ \A n \in DOMAIN r : JobUnder(r[n], inv)
<1> DEFINE j == SolveJob(g)
           r == Append(q, j)
<1>1. j \in Jobs /\ (\A f : ~NewJob(j, f)) /\ JobUnder(j, inv)
  BY DataTypes DEF JobUnder, SolveJob
<1> HIDE DEF j
<1>2. /\ r \in Seq(Jobs) /\ DOMAIN r = 1 .. Len(q) + 1 /\ DOMAIN q = 1 .. Len(q) /\ Len(q) \in Nat
      /\ \A n \in 1 .. Len(q) : r[n] = q[n]
      /\ r[Len(q) + 1] = j
      /\ \A f : NewPending(r, f) <=> NewPending(q, f) \/ NewJob(j, f)
  BY <1>1, QueueFacts
<1> HIDE DEF r
<1>3. \A f : NewLeft(r, f) <=> NewLeft(q, f)
  BY <1>1, <1>2 DEF NewLeft
<1>4. CountLeft(r) = CountLeft(q)
  BY <1>3 DEF CountLeft
<1>5. \A n \in DOMAIN r : JobUnder(r[n], inv)
  <2> SUFFICES ASSUME NEW n \in DOMAIN r
               PROVE  JobUnder(r[n], inv)
    OBVIOUS
  <2>1. CASE n = Len(q) + 1
    BY <2>1, <1>1, <1>2
  <2>2. CASE n \in 1 .. Len(q)
    BY <2>2, <1>2
  <2> QED BY <2>1, <2>2, <1>2
<1> QED BY <1>2, <1>4, <1>5 DEF r, j

LEMMA AddSound ==
  ASSUME IInv, Reading, NEW s, SoundMaster(s), NEW g \in Games, StoredSound(g), NEW t, t = AddResult(s, g)
  PROVE  SoundMaster(t) /\ t.losing = s.losing /\ t.base_remaining = s.base_remaining /\ t.invariant = s.invariant
<1> DEFINE h == Merge(s.stored_result, g)
<1>1. s \in MasterState /\ s.pending_jobs \in Seq(Jobs)
  BY DEF SoundMaster, MasterState
<1>2. /\ t \in MasterState
      /\ t.losing = s.losing /\ t.invariant = s.invariant /\ t.base_remaining = s.base_remaining
      /\ \/ t.stored_result = g /\ t.pending_jobs = s.pending_jobs
         \/ h \in Games /\ t.stored_result = NoGame /\ t.pending_jobs = Append(s.pending_jobs, SolveJob(h))
  BY <1>1, AddResultFacts
<1> HIDE DEF h
<1>3. StoredSound(t.stored_result)
  BY <1>2 DEF StoredSound
<1>4. /\ CountLeft(t.pending_jobs) = CountLeft(s.pending_jobs)
      /\ \A n \in DOMAIN t.pending_jobs : JobUnder(t.pending_jobs[n], s.invariant)
  <2>1. CASE t.pending_jobs = s.pending_jobs
    BY <2>1 DEF SoundMaster
  <2>2. CASE h \in Games /\ t.pending_jobs = Append(s.pending_jobs, SolveJob(h))
    BY <2>2, <1>1, SolveJobQueued DEF SoundMaster
  <2> QED BY <2>1, <2>2, <1>2
<1> QED BY <1>2, <1>3, <1>4 DEF SoundMaster

(* The game of the result, or that of the invariants, is stored or merged. *)
LEMMA AddGathers ==
  ASSUME IInv, Reading, NEW s \in MasterState, NEW g \in Games, NEW t, t = AddResult(s, g), NEW r
  PROVE  /\ s = st /\ Played(t) = Played(s) /\ g.parts = ResultParts(Result) =>
              Gathered(Load, LayoutOf(t, Freed), Worker(wid))
         /\ /\ Played(t) = {} /\ g.parts = Played(r)
            /\ r.pending_jobs = s.pending_jobs /\ r.stored_result = s.stored_result
            => Gathered(LayoutOf(r, Freed), LayoutOf(t, Freed), Invariant)
<1> DEFINE K == Load
           L == LayoutOf(r, Freed)
           M == LayoutOf(t, Freed)
<1>1. /\ M = [z \in Places |-> M[z]]
      /\ M[Worker(wid)] = {} /\ M[Invariant] = Played(t) /\ M[Stored] = t.stored_result.parts
      /\ \A v \in Workers : v # wid => M[Worker(v)] = K[Worker(v)]
      /\ \A n \in Nat \ {0} : M[Pending(n)] = QueueAt(t.pending_jobs, n)
  BY FreedLayout
<1>2. /\ L = [z \in Places |-> L[z]]
      /\ L[Worker(wid)] = {} /\ L[Invariant] = Played(r) /\ L[Stored] = r.stored_result.parts
      /\ \A v \in Workers : v # wid => L[Worker(v)] = K[Worker(v)]
      /\ \A n \in Nat \ {0} : L[Pending(n)] = QueueAt(r.pending_jobs, n)
  BY FreedLayout
<1>3. /\ DOMAIN K = Places
      /\ K[Worker(wid)] = ResultParts(Result) /\ K[Invariant] = Played(st)
      /\ K[Stored] = st.stored_result.parts
      /\ \A n \in Nat \ {0} : K[Pending(n)] = QueueAt(st.pending_jobs, n)
      /\ Worker(wid) \in OwnPlaces /\ Invariant \in OwnPlaces
      /\ \A z \in OwnPlaces : z # Worker(wid) =>
           z = Invariant \/ \E v \in Workers : v # wid /\ z = Worker(v)
  BY LoadAt
<1> HIDE DEF K, L, M
<1>4. ASSUME s = st, Played(t) = Played(s), g.parts = ResultParts(Result)
      PROVE  Gathered(K, M, Worker(wid))
  <2>1. K[Stored] = s.stored_result.parts /\ K[Worker(wid)] = g.parts
    BY <1>3, <1>4
  <2>2. \A z \in OwnPlaces : z # Worker(wid) => M[z] = K[z]
    BY <1>1, <1>3, <1>4
  <2>3. \A n \in Nat \ {0} : /\ K[Pending(n)] = QueueAt(s.pending_jobs, n)
                             /\ M[Pending(n)] = QueueAt(t.pending_jobs, n)
    BY <1>1, <1>3, <1>4
  <2> QED BY <1>1, <1>3, <2>1, <2>2, <2>3, Added
<1>5. ASSUME Played(t) = {}, g.parts = Played(r),
             r.pending_jobs = s.pending_jobs, r.stored_result = s.stored_result
      PROVE  Gathered(L, M, Invariant)
  <2>1. L[Invariant] = g.parts /\ M[Invariant] = {} /\ DOMAIN L = Places
    BY <1>1, <1>2, <1>5
  <2>2. ASSUME NEW z \in OwnPlaces, z # Invariant
        PROVE  M[z] = L[z]
    <3>1. CASE z = Worker(wid)
      BY <3>1, <1>1, <1>2
    <3>2. CASE z # Worker(wid)
      <4>1. PICK v \in Workers : v # wid /\ z = Worker(v)
        BY <2>2, <3>2, <1>3
      <4> QED BY <4>1, <1>1, <1>2
    <3> QED BY <3>1, <3>2
  <2>3. \A n \in Nat \ {0} : /\ L[Pending(n)] = QueueAt(s.pending_jobs, n)
                             /\ M[Pending(n)] = QueueAt(t.pending_jobs, n)
    BY <1>1, <1>2, <1>5
  <2>4. L[Stored] = s.stored_result.parts
    BY <1>2, <1>5
  <2> QED BY <1>1, <1>3, <2>1, <2>2, <2>3, <2>4, Added
<1> QED BY <1>4, <1>5 DEF K, L, M

LEMMA HandleSolved ==
  ASSUME IInv, Reading, Result.type = "game", Result.game.safe, Result.game.solved,
         NEW s, s = HandleResult(st, Result)
  PROVE  /\ SoundMaster(s) /\ ~s.losing /\ s.base_remaining = st.base_remaining
         /\ Gathered(Load, LayoutOf(s, Freed), Worker(wid))
<1> DEFINE g == Result.game
<1>1. Solved(g) /\ g \in Games /\ ResultParts(Result) = g.parts
  BY ResultRead, DataTypes DEF ResultSound, Translated, ResultParts
<1>2. \A f : ~NewResult(Result, f)
  BY DEF NewResult
<1>3. CountLeft(st.pending_jobs) = IF st.base_remaining = -1 THEN 0 ELSE st.base_remaining
  BY <1>2, LeftCount
<1>4. SoundMaster(st) /\ ~st.losing
  BY <1>3, ResultRead DEF SoundMaster, IInv, TypeOK, SoundInv, JobSound, CountInv
<1>5. s = AddResult(st, g)
  BY DEF HandleResult
<1>6. StoredSound(g)
  BY <1>1 DEF StoredSound
<1> HIDE DEF g
<1>7. /\ SoundMaster(s) /\ ~s.losing
      /\ s.base_remaining = st.base_remaining /\ s.invariant = st.invariant
  BY <1>1, <1>4, <1>5, <1>6, AddSound
<1>8. Played(s) = Played(st)
  BY <1>7 DEF Played
<1>9. Gathered(Load, LayoutOf(s, Freed), Worker(wid))
  BY <1>1, <1>4, <1>5, <1>8, AddGathers DEF SoundMaster
<1> QED BY <1>7, <1>9

LEMMA HandleTranslated ==
  ASSUME IInv, Reading, Result.type = "game", Result.game.safe, ~Result.game.solved,
         NEW s, s = HandleResult(st, Result)
  PROVE  SoundMaster(s) /\ ~s.losing /\ Rearranged(Load, LayoutOf(s, Freed))
<1> DEFINE g == Result.game
           b == st.base_remaining - 1
           j == SolveJob(g)
           q == Append(st.pending_jobs, j)
<1>1. Translated(g) /\ g \in Games /\ ResultParts(Result) = g.parts
  BY ResultRead, DataTypes DEF ResultSound, Solved, ResultParts
<1>2. PICK f \in Formulas : g.parts = {f}
  BY <1>1 DEF Translated
<1>3. NewResult(Result, f)
  BY <1>2 DEF NewResult
<1>4. b \in Nat /\ CountLeft(st.pending_jobs) = b /\ st.base_remaining # -1
  BY <1>3, LeftCount
<1>5. st \in MasterState /\ st.pending_jobs \in Seq(Jobs) /\ ~st.losing
  BY ResultRead DEF IInv, TypeOK, MasterState
<1>6. /\ q \in Seq(Jobs) /\ CountLeft(q) = b
      /\ \A n \in DOMAIN q : JobUnder(q[n], st.invariant)
  BY <1>1, <1>4, <1>5, SolveJobQueued DEF IInv, SoundInv, JobSound
<1>7. j \in Jobs /\ JobParts(j) = ResultParts(Result)
  BY <1>1, DataTypes
<1>8. s = [[st EXCEPT !.base_remaining = b] EXCEPT !.pending_jobs = q]
  <2> DEFINE u == [st EXCEPT !.base_remaining = b]
  <2>1. u.pending_jobs = st.pending_jobs
    BY <1>5 DEF MasterState
  <2>2. s = Enqueue(u, j)
    BY DEF HandleResult
  <2> HIDE DEF u
  <2> QED BY <2>1, <2>2 DEF Enqueue, u
<1> HIDE DEF b, q, j
<1>9. /\ s \in MasterState /\ s.pending_jobs = q /\ s.base_remaining = b
      /\ s.stored_result = st.stored_result /\ s.invariant = st.invariant /\ s.losing = st.losing
  <2> DEFINE u == [st EXCEPT !.base_remaining = b]
  <2>1. /\ u \in MasterState /\ u.base_remaining = b
        /\ u.stored_result = st.stored_result /\ u.invariant = st.invariant /\ u.losing = st.losing
    BY <1>4, <1>5 DEF MasterState
  <2>2. s = [u EXCEPT !.pending_jobs = q]
    BY <1>8
  <2> HIDE DEF u
  <2> QED BY <2>1, <2>2, <1>6 DEF MasterState
<1>10. SoundMaster(s) /\ ~s.losing
  BY <1>4, <1>5, <1>6, <1>9 DEF SoundMaster, IInv, SoundInv
<1>11. Played(s) = Played(st)
  BY <1>4, <1>9 DEF Played
<1> DEFINE L == Load
           M == LayoutOf(s, Freed)
<1>12. /\ M = [z \in Places |-> M[z]]
       /\ M[Worker(wid)] = {} /\ M[Invariant] = Played(s) /\ M[Stored] = s.stored_result.parts
       /\ \A v \in Workers : v # wid => M[Worker(v)] = L[Worker(v)]
       /\ \A n \in Nat \ {0} : M[Pending(n)] = QueueAt(s.pending_jobs, n)
  BY FreedLayout
<1>13. /\ DOMAIN L = Places
       /\ L[Worker(wid)] = ResultParts(Result) /\ L[Invariant] = Played(st)
       /\ L[Stored] = st.stored_result.parts
       /\ \A n \in Nat \ {0} : L[Pending(n)] = QueueAt(st.pending_jobs, n)
       /\ Worker(wid) \in OwnPlaces
       /\ \A z \in OwnPlaces : z # Worker(wid) =>
            z = Invariant \/ \E v \in Workers : v # wid /\ z = Worker(v)
  BY LoadAt
<1> HIDE DEF L, M
<1>14. \A z \in OwnPlaces : z # Worker(wid) => M[z] = L[z]
  BY <1>11, <1>12, <1>13
<1>15. \A n \in Nat \ {0} : /\ L[Pending(n)] = QueueAt(st.pending_jobs, n)
                            /\ M[Pending(n)] = QueueAt(Append(st.pending_jobs, j), n)
  BY <1>9, <1>12, <1>13 DEF q
<1>16. JobParts(j) = L[Worker(wid)] /\ M[Stored] = L[Stored]
  BY <1>7, <1>9, <1>12, <1>13
<1>17. MovedFrom(L, M, Worker(wid))
  BY <1>5, <1>7, <1>12, <1>13, <1>14, <1>15, <1>16, Moved
<1>18. Rearranged(L, M)
  BY <1>13, <1>17, MovedPieces, OwnPlacesFacts
<1> QED BY <1>10, <1>18 DEF L, M

(* Once all formulas are translated, the invariants become a game of their own. *)
LEMMA InvariantsFinished ==
  ASSUME IInv, Reading, NEW u, SoundMaster(u), ~world.supports_invariant, u.base_remaining = 0,
         NEW s, s = AfterResult(u)
  PROVE  /\ SoundMaster(s) /\ s.base_remaining = -1 /\ s.losing = u.losing
         /\ LayoutOf(s, Freed) = LayoutOf(u, Freed)
            \/ Gathered(LayoutOf(u, Freed), LayoutOf(s, Freed), Invariant)
<1> DEFINE v == [u EXCEPT !.base_remaining = -1]
           g == InvariantGame(u.invariant)
<1>1. u \in MasterState /\ u.invariant \in SUBSET Formulas
  BY DEF SoundMaster, MasterState
<1>2. /\ v \in MasterState /\ v.base_remaining = -1 /\ v.pending_jobs = u.pending_jobs
      /\ v.stored_result = u.stored_result /\ v.losing = u.losing /\ v.invariant = u.invariant
  BY <1>1 DEF MasterState
<1>3. s = FinishInvariant(v)
  BY DEF AfterResult
<1> HIDE DEF v
<1>4. SoundMaster(v)
  BY <1>2 DEF SoundMaster
<1>5. Played(u) = u.invariant
  BY DEF Played
<1>6. CASE u.invariant = {}
  <2>1. s = v
    BY <1>2, <1>3, <1>6 DEF FinishInvariant
  <2>2. Played(v) = Played(u)
    BY <1>2, <1>5, <1>6 DEF Played
  <2>3. LayoutOf(s, Freed) = LayoutOf(u, Freed)
    BY <1>2, <2>1, <2>2 DEF LayoutOf
  <2> QED BY <1>2, <1>4, <2>1, <2>3
<1>7. CASE u.invariant # {}
  <2>1. s = AddResult(v, g)
    BY <1>2, <1>3, <1>7 DEF FinishInvariant
  <2>2. g \in Games /\ g.parts = u.invariant /\ g.safe /\ g.solved
    BY <1>1 DEF InvariantGame, Games
  <2>3. StoredSound(g)
    BY <2>2 DEF StoredSound, SoundMaster
  <2> HIDE DEF g
  <2>4. /\ SoundMaster(s) /\ s.losing = v.losing
        /\ s.base_remaining = v.base_remaining /\ s.invariant = v.invariant
    BY <1>4, <2>1, <2>2, <2>3, AddSound
  <2>5. Played(s) = {} /\ g.parts = Played(u)
    BY <1>2, <1>5, <2>2, <2>4 DEF Played
  <2>6. Gathered(LayoutOf(u, Freed), LayoutOf(s, Freed), Invariant)
    BY <1>2, <2>1, <2>2, <2>5, AddGathers
  <2> QED BY <1>2, <2>4, <2>6
<1> QED BY <1>6, <1>7

LEMMA ResultDigested ==
  ASSUME IInv, Reading, NEW s, s = AfterResult(HandleResult(st, Result))
  PROVE  /\ SoundMaster(s) /\ (s.base_remaining = 0 => world.supports_invariant)
         /\ ~s.losing => Placed(s)
<1> DEFINE u == HandleResult(st, Result)
           fired == ~world.supports_invariant /\ u.base_remaining = 0
<1>1. DOMAIN Load = Places /\ Worker(wid) \in Places /\ Invariant \in Places
  BY LoadAt, OwnPlacesFacts
<1>2. IsPartition(Load, Formulas)
  BY ResultRead
<1>3. SoundMaster(u)
  <2>1. CASE Result.type = "invariant"
    BY <2>1, HandleInvariant
  <2>2. CASE Result.type = "game" /\ ~Result.game.safe
    BY <2>2, HandleLosing
  <2>3. CASE Result.type = "game" /\ Result.game.safe /\ Result.game.solved
    BY <2>3, HandleSolved
  <2>4. CASE Result.type = "game" /\ Result.game.safe /\ ~Result.game.solved
    BY <2>4, HandleTranslated
  <2> QED BY <2>1, <2>2, <2>3, <2>4, ResultRead, DataTypes
<1>4. ~u.losing =>
        \/ LayoutOf(u, Freed) = Gather(Load, {Worker(wid), Invariant}, Invariant)
        \/ Rearranged(Load, LayoutOf(u, Freed))
        \/ Gathered(Load, LayoutOf(u, Freed), Worker(wid)) /\ ~fired
  <2>1. CASE Result.type = "invariant"
    BY <2>1, HandleInvariant
  <2>2. CASE Result.type = "game" /\ ~Result.game.safe
    BY <2>2, HandleLosing
  <2>3. CASE Result.type = "game" /\ Result.game.safe /\ Result.game.solved
    <3>1. st.base_remaining = 0 => world.supports_invariant
      BY DEF IInv, CountInv
    <3> QED BY <2>3, <3>1, HandleSolved
  <2>4. CASE Result.type = "game" /\ Result.game.safe /\ ~Result.game.solved
    BY <2>4, HandleTranslated
  <2> QED BY <2>1, <2>2, <2>3, <2>4, ResultRead, DataTypes
<1>5. s = AfterResult(u)
  OBVIOUS
<1> HIDE DEF u
<1>6. CASE ~fired
  <2>1. s = u
    BY <1>5, <1>6 DEF AfterResult
  <2>2. ASSUME ~u.losing
        PROVE  Placed(u)
    <3>1. CASE LayoutOf(u, Freed) = Gather(Load, {Worker(wid), Invariant}, Invariant)
      <4> DEFINE X == {Worker(wid), Invariant}
      <4>1. X \in SUBSET DOMAIN Load /\ Invariant \in X
        BY <1>1
      <4> HIDE DEF X
      <4>2. /\ IsPartition(Gather(Load, X, Invariant), Formulas)
            /\ Joined(Pieces(Load), Pieces(Gather(Load, X, Invariant)))
        BY <1>2, <4>1, GatherPartition, GatherJoins
      <4> QED BY <3>1, <4>2 DEF X, Placed
    <3>2. CASE Rearranged(Load, LayoutOf(u, Freed))
      BY <1>2, <3>2 DEF Rearranged, Placed, Joined
    <3>3. CASE Gathered(Load, LayoutOf(u, Freed), Worker(wid))
      BY <1>1, <1>2, <3>3, GatheredJoins DEF Placed
    <3> QED BY <1>4, <2>2, <3>1, <3>2, <3>3
  <2> QED BY <1>3, <1>6, <2>1, <2>2
<1>7. CASE fired
  <2>1. /\ SoundMaster(s) /\ s.base_remaining = -1 /\ s.losing = u.losing
        /\ LayoutOf(s, Freed) = LayoutOf(u, Freed)
           \/ Gathered(LayoutOf(u, Freed), LayoutOf(s, Freed), Invariant)
    BY <1>3, <1>5, <1>7, InvariantsFinished
  <2>2. ASSUME ~u.losing
        PROVE  Placed(s)
    <3>1. CASE LayoutOf(u, Freed) = Gather(Load, {Worker(wid), Invariant}, Invariant)
      <4> DEFINE X == {Worker(wid), Invariant}
      <4>1. X \in SUBSET Places /\ Invariant \in X
        BY <1>1
      <4>2. LayoutOf(u, Freed) = Gather(Load, X, Invariant)
        BY <3>1
      <4> HIDE DEF X
      <4>3. CASE LayoutOf(s, Freed) = LayoutOf(u, Freed)
        <5>1. /\ IsPartition(Gather(Load, X, Invariant), Formulas)
              /\ Joined(Pieces(Load), Pieces(Gather(Load, X, Invariant)))
          BY <1>1, <1>2, <4>1, GatherPartition, GatherJoins
        <5> QED BY <4>2, <4>3, <5>1 DEF Placed
      <4>4. CASE Gathered(LayoutOf(u, Freed), LayoutOf(s, Freed), Invariant)
        <5>1. Gathered(Load, LayoutOf(s, Freed), Invariant)
          BY <1>1, <4>1, <4>2, <4>4, GatheredTwice
        <5> QED BY <1>1, <1>2, <5>1, GatheredJoins DEF Placed
      <4> QED BY <2>1, <4>3, <4>4
    <3>2. CASE Rearranged(Load, LayoutOf(u, Freed))
      <4>1. IsPartition(LayoutOf(u, Freed), Formulas) /\ Pieces(LayoutOf(u, Freed)) = Pieces(Load)
        BY <1>2, <3>2 DEF Rearranged
      <4>2. CASE LayoutOf(s, Freed) = LayoutOf(u, Freed)
        BY <4>1, <4>2 DEF Placed, Joined
      <4>3. CASE Gathered(LayoutOf(u, Freed), LayoutOf(s, Freed), Invariant)
        <5>1. DOMAIN LayoutOf(u, Freed) = Places
          BY LayoutAt DEF LayoutOf
        <5> QED BY <4>1, <4>3, <5>1, GatheredJoins DEF Placed
      <4> QED BY <2>1, <4>2, <4>3
    <3> QED BY <1>4, <1>7, <2>2, <3>1, <3>2
  <2> QED BY <1>7, <2>1, <2>2
<1> QED BY <1>6, <1>7

(* What holds after the result of wid was taken, whatever wid was given then. *)
LEMMA ResultTaken ==
  ASSUME IInv, Reading, NEW s, SoundMaster(s), s.base_remaining = 0 => world.supports_invariant,
         world' = world, job' = job, toMain' = [toMain EXCEPT ![wid] = <<>>],
         st'.stored_result = s.stored_result, st'.invariant = s.invariant,
         st'.losing = s.losing, st'.base_remaining = s.base_remaining,
         \A n \in DOMAIN st'.pending_jobs : JobUnder(st'.pending_jobs[n], s.invariant),
         \A v \in Workers : v # wid => fromMain'[v] = fromMain[v],
         \A n \in DOMAIN fromMain'[wid] : JobUnder(fromMain'[wid][n], s.invariant),
         \A f : Untranslated(f)' <=> NewLeft(s.pending_jobs, f)
  PROVE  SoundInv' /\ CountInv'
<1>1. SoundInv'
  <2>1. st.invariant \subseteq st'.invariant
    BY DEF SoundMaster
  <2>2. /\ \A j : JobSound(j) => JobSound(j)'
        /\ \A r : ResultSound(r) => ResultSound(r)'
    BY <2>1, SoundGrows
  <2>3. \A j : JobUnder(j, s.invariant) => JobSound(j)'
    BY DEF JobSound, JobUnder
  <2>4. (\A n \in DOMAIN st.pending_jobs : JobSound(st.pending_jobs[n]))'
    BY <2>3 DEF JobSound, JobUnder
  <2>5. ASSUME NEW v \in Workers
        PROVE  /\ JobSound(job[v])'
               /\ (\A n \in DOMAIN fromMain[v] : JobSound(fromMain[v][n]))'
               /\ (\A n \in DOMAIN toMain[v] : ResultSound(toMain[v][n]))'
    <3>1. CASE v = wid
      <4>1. toMain'[v] = <<>> /\ DOMAIN <<>> = {}
        BY <3>1 DEF IInv, TypeOK
      <4>2. JobSound(job[v])'
        BY <2>2 DEF IInv, SoundInv, JobSound, JobUnder
      <4> QED BY <3>1, <4>1, <4>2, <2>3 DEF JobSound, JobUnder
    <3>2. CASE v # wid
      <4>1. toMain'[v] = toMain[v] /\ fromMain'[v] = fromMain[v] /\ job'[v] = job[v]
        BY <3>2 DEF IInv, TypeOK
      <4>2. /\ JobSound(job[v])
            /\ \A n \in DOMAIN fromMain[v] : JobSound(fromMain[v][n])
            /\ \A n \in DOMAIN toMain[v] : ResultSound(toMain[v][n])
        BY DEF IInv, SoundInv
      <4>3. JobSound(job[v])' /\ (\A n \in DOMAIN fromMain[v] : JobSound(fromMain[v][n]))'
        BY <4>1, <4>2, <2>1 DEF JobSound, JobUnder
      <4>4. (\A n \in DOMAIN toMain[v] : ResultSound(toMain[v][n]))'
        <5> SUFFICES ASSUME NEW n \in DOMAIN toMain'[v]
                     PROVE  ResultSound(toMain[v][n])'
          OBVIOUS
        <5>1. PICK r : r = toMain[v][n]
          OBVIOUS
        <5>2. ResultSound(r)'
          BY <4>1, <4>2, <5>1, <2>2
        <5>3. toMain'[v][n] = r
          BY <4>1, <5>1
        <5> QED BY <5>2, <5>3 DEF ResultSound, Translated, Solved
      <4> QED BY <4>3, <4>4
    <3> QED BY <3>1, <3>2
  <2>6. StoredSound(st.stored_result)'
    BY DEF SoundMaster, StoredSound, Solved, UsedInvariant, Invariants
  <2>7. /\ world' \in Worlds /\ st'.invariant \subseteq Invariants'
        /\ st'.losing => Formulas \notin world'.realizable
    BY DEF SoundMaster, Invariants, IInv, SoundInv
  <2> QED BY <2>4, <2>5, <2>6, <2>7 DEF SoundInv
<1>2. CountInv'
  <2>1. {f \in Formulas : Untranslated(f)}' = {f \in Formulas : NewLeft(s.pending_jobs, f)}
    OBVIOUS
  <2> QED BY <2>1 DEF CountInv, SoundMaster, CountLeft
<1> QED BY <1>1, <1>2

LEMMA ReadResultStep ==
  ASSUME IInv, ReadResult
  PROVE  /\ IInv' /\ ~st.losing
         /\ ~st'.losing => Joined(Pieces(Load), Pieces(Load)')
         /\ st'.losing => \E S \in SUBSET Pieces(Load) : UNION S \notin world.realizable
<1> DEFINE s == AfterResult(HandleResult(st, Result))
<1>1. Reading
  BY DEF ReadResult, Reading
<1>2. /\ wid \in Workers /\ toMain[wid] = <<Result>>
      /\ Head(toMain[wid]) = Result /\ Tail(toMain[wid]) = <<>>
      /\ job[wid] = DoneJob /\ fromMain[wid] = <<>> /\ active[wid] /\ ~st.losing
  BY <1>1, ResultRead
<1>3. /\ SoundMaster(s) /\ (s.base_remaining = 0 => world.supports_invariant)
      /\ ~s.losing => Placed(s)
  BY <1>1, ResultDigested
<1>4. /\ \/ /\ s.losing
            /\ st' = s
            /\ mpc' = "kill"
            /\ UNCHANGED <<fromMain, active>>
         \/ /\ ~s.losing
            /\ s.pending_jobs = <<>>
            /\ st' = s
            /\ fromMain' = [fromMain EXCEPT ![wid] = Append(@, DoneJob)]
            /\ active' = [active EXCEPT ![wid] = FALSE]
            /\ mpc' = "reap"
         \/ /\ ~s.losing
            /\ s.pending_jobs # <<>>
            /\ st' = [s EXCEPT !.pending_jobs = Tail(@)]
            /\ fromMain' = [fromMain EXCEPT
                 ![wid] = Append(@, SetInvariant(Head(s.pending_jobs), s.invariant))]
            /\ mpc' = "read_id"
            /\ UNCHANGED active
      /\ toMain' = [toMain EXCEPT ![wid] = <<>>]
      /\ UNCHANGED <<world, wid, verdict, wpc, job, shared>>
      /\ mpc = "read_result"
  BY <1>2 DEF ReadResult
<1> HIDE DEF s
<1>5. s \in MasterState /\ s.pending_jobs \in Seq(Jobs) /\ s.invariant \in SUBSET Formulas
  BY <1>3 DEF SoundMaster, MasterState
<1>6. /\ toMain'[wid] = <<>> /\ \A v \in Workers : v # wid => toMain'[v] = toMain[v]
      /\ toMain' \in [Workers -> Seq(Results)]
  BY <1>2, <1>4 DEF IInv, TypeOK
<1>7. AllHeld' = [v \in Workers |-> Held(job'[v], fromMain'[v], toMain'[v])]
  BY DEF AllHeld
<1>8. \A f : Untranslated(f)' <=> \/ NewPending(st'.pending_jobs, f)
                                  \/ NewHeld(job'[wid], fromMain'[wid], toMain'[wid], f)
                                  \/ \E v \in Workers \ {wid} : NewHeld(job'[v], fromMain'[v], toMain'[v], f)
  BY <1>2, UntranslatedNext
<1>9. \A n \in DOMAIN s.pending_jobs : JobUnder(s.pending_jobs[n], s.invariant)
  BY <1>3 DEF SoundMaster
<1>10. Freed[wid] = {} /\ (\A v \in Workers : v # wid => Freed[v] = AllHeld[v]) /\ Freed = [v \in Workers |-> Freed[v]]
  BY <1>2 DEF Freed, AllHeld
<1>11. \A f : ~NewHeld(DoneJob, <<>>, <<>>, f)
  BY HeldCases
<1>12. CASE s.losing
  <2>1. st' = s /\ mpc' = "kill" /\ UNCHANGED <<fromMain, active>>
    BY <1>4, <1>12
  <2>2. TypeOK'
    BY <1>4, <1>5, <1>6, <2>1 DEF IInv, TypeOK
  <2>3. WorkerInv'
    BY <1>2, <1>4, <1>6, <2>1 DEF IInv, WorkerInv, OneThing
  <2>4. PhaseInv'
    BY <1>4, <1>12, <2>1 DEF IInv, PhaseInv
  <2>5. \A f : Untranslated(f)' <=> NewLeft(s.pending_jobs, f)
    BY <1>2, <1>4, <1>6, <1>8, <1>11, <2>1 DEF NewLeft
  <2>6. DOMAIN fromMain'[wid] = {}
    BY <1>2, <2>1
  <2>7. SoundInv' /\ CountInv'
    BY <1>1, <1>3, <1>4, <1>9, <2>1, <2>5, <2>6, ResultTaken
  <2>8. \E S \in SUBSET Pieces(Load) : UNION S \notin world.realizable
    BY <1>3, <1>12 DEF SoundMaster
  <2> QED BY <1>2, <1>12, <2>1, <2>2, <2>3, <2>4, <2>7, <2>8 DEF IInv, PartitionInv
<1>13. CASE ~s.losing /\ s.pending_jobs = <<>>
  <2>1. /\ st' = s /\ fromMain' = [fromMain EXCEPT ![wid] = <<DoneJob>>]
        /\ active' = [active EXCEPT ![wid] = FALSE] /\ mpc' = "reap"
    BY <1>2, <1>4, <1>13
  <2>2. /\ fromMain'[wid] = <<DoneJob>> /\ ~active'[wid]
        /\ \A v \in Workers : v # wid => fromMain'[v] = fromMain[v] /\ active'[v] = active[v]
        /\ fromMain' \in [Workers -> Seq(Jobs \cup {DoneJob})] /\ active' \in [Workers -> BOOLEAN]
    BY <1>2, <2>1 DEF IInv, TypeOK
  <2>3. TypeOK'
    BY <1>4, <1>5, <1>6, <2>1, <2>2 DEF IInv, TypeOK
  <2>4. WorkerInv'
    <3> SUFFICES ASSUME NEW v \in Workers
                 PROVE  OneThing(v)'
      BY DEF WorkerInv
    <3>1. CASE v = wid
      <4>1. wpc[wid] \notin {"unborn", "exited"}
        BY <1>2 DEF IInv, WorkerInv, OneThing
      <4> QED BY <3>1, <4>1, <1>2, <1>4, <1>6, <2>2 DEF OneThing, IInv, WorkerInv
    <3>2. CASE v # wid
      BY <3>2, <1>4, <1>6, <2>2 DEF IInv, WorkerInv, OneThing
    <3> QED BY <3>1, <3>2
  <2>5. PhaseInv'
    BY <1>2, <1>4, <1>13, <2>1 DEF IInv, PhaseInv
  <2>6. \A f : Untranslated(f)' <=> NewLeft(s.pending_jobs, f)
    <3>1. \A f : ~NewHeld(DoneJob, <<DoneJob>>, <<>>, f)
      BY HeldCases, DataTypes
    <3> QED BY <1>2, <1>4, <1>6, <1>8, <2>1, <2>2, <3>1 DEF NewLeft
  <2>7. \A n \in DOMAIN fromMain'[wid] : JobUnder(fromMain'[wid][n], s.invariant)
    BY <2>2 DEF JobUnder, DoneJob
  <2>8. SoundInv' /\ CountInv'
    BY <1>1, <1>3, <1>4, <1>9, <2>1, <2>2, <2>6, <2>7, ResultTaken
  <2>9. Load' = LayoutOf(s, Freed)
    <3>1. Held(DoneJob, <<DoneJob>>, <<>>) = {}
      BY HeldCases, DataTypes
    <3>2. \A v \in Workers : AllHeld'[v] = Freed[v]
      <4> SUFFICES ASSUME NEW v \in Workers
                   PROVE  AllHeld'[v] = Freed[v]
        OBVIOUS
      <4>1. CASE v = wid
        BY <4>1, <1>2, <1>4, <1>6, <1>7, <1>10, <2>2, <3>1
      <4>2. CASE v # wid
        BY <4>2, <1>4, <1>6, <1>7, <1>10, <2>2 DEF AllHeld
      <4> QED BY <4>1, <4>2
    <3>3. AllHeld' = Freed
      BY <3>2, <1>7, <1>10
    <3>4. Played(st)' = Played(s)
      BY <1>4, <2>1 DEF Played
    <3> QED BY <2>1, <3>3, <3>4 DEF Load, LayoutOf
  <2>10. IsPartition(Load, Formulas)' /\ Joined(Pieces(Load), Pieces(Load)')
    BY <1>3, <1>13, <2>9 DEF Placed, IsPartition, Pieces
  <2> QED BY <1>2, <1>13, <2>1, <2>3, <2>4, <2>5, <2>8, <2>10 DEF IInv, PartitionInv
<1>14. CASE ~s.losing /\ s.pending_jobs # <<>>
  <2> DEFINE q == s.pending_jobs
             r == Tail(q)
             m == SetInvariant(q[1], s.invariant)
  <2>1. /\ Head(q) = q[1] /\ q[1] \in Jobs /\ r \in Seq(Jobs)
        /\ DOMAIN q = 1 .. Len(q) /\ Len(q) \in Nat /\ DOMAIN r = 1 .. Len(q) - 1
        /\ \A n \in 1 .. Len(q) - 1 : r[n] = q[n + 1]
        /\ \A f : NewPending(q, f) <=> NewJob(q[1], f) \/ NewPending(r, f)
    BY <1>5, <1>14, QueueFacts
  <2>2. /\ m \in Jobs /\ JobParts(m) = JobParts(q[1]) /\ JobUnder(m, s.invariant)
        /\ \A f : NewJob(m, f) <=> NewJob(q[1], f)
    BY <1>5, <2>1, SetInvariantFacts
  <2>3. /\ st' = [s EXCEPT !.pending_jobs = r] /\ fromMain' = [fromMain EXCEPT ![wid] = <<m>>]
        /\ mpc' = "read_id" /\ active' = active
    BY <1>2, <1>4, <1>14, <2>1
  <2> HIDE DEF m, r
  <2>4. /\ fromMain'[wid] = <<m>> /\ <<m>>[1] = m /\ DOMAIN <<m>> = {1}
        /\ \A v \in Workers : v # wid => fromMain'[v] = fromMain[v]
        /\ fromMain' \in [Workers -> Seq(Jobs \cup {DoneJob})]
    <3>1. <<m>> \in Seq(Jobs \cup {DoneJob})
      BY <2>2
    <3> QED BY <1>2, <2>3, <3>1 DEF IInv, TypeOK
  <2>5. /\ st' \in MasterState /\ st'.pending_jobs = r /\ st'.stored_result = s.stored_result
        /\ st'.losing = s.losing /\ st'.invariant = s.invariant /\ st'.base_remaining = s.base_remaining
    BY <1>5, <2>1, <2>3 DEF MasterState
  <2>6. TypeOK'
    BY <1>4, <1>6, <2>3, <2>4, <2>5 DEF IInv, TypeOK
  <2>7. WorkerInv'
    <3> SUFFICES ASSUME NEW v \in Workers
                 PROVE  OneThing(v)'
      BY DEF WorkerInv
    <3>1. CASE v = wid
      <4>1. wpc[wid] \notin {"unborn", "exited"}
        BY <1>1, <1>2 DEF IInv, WorkerInv, OneThing, Reading
      <4>2. Len(<<m>>) = 1
        OBVIOUS
      <4> QED BY <3>1, <4>1, <4>2, <1>2, <1>4, <1>6, <2>3, <2>4 DEF OneThing, IInv, WorkerInv
    <3>2. CASE v # wid
      BY <3>2, <1>4, <1>6, <2>3, <2>4 DEF IInv, WorkerInv, OneThing
    <3> QED BY <3>1, <3>2
  <2>8. PhaseInv'
    BY <1>2, <1>4, <1>14, <2>3, <2>5 DEF IInv, PhaseInv
  <2>9. \A f : Untranslated(f)' <=> NewLeft(q, f)
    <3>1. \A f : NewHeld(DoneJob, <<m>>, <<>>, f) <=> NewJob(m, f)
      BY HeldCases
    <3> QED BY <1>2, <1>4, <1>6, <1>8, <2>1, <2>2, <2>4, <2>5, <3>1 DEF NewLeft
  <2>10. \A n \in DOMAIN fromMain'[wid] : JobUnder(fromMain'[wid][n], s.invariant)
    BY <2>2, <2>4
  <2>11. \A n \in DOMAIN st'.pending_jobs : JobUnder(st'.pending_jobs[n], s.invariant)
    <3> SUFFICES ASSUME NEW n \in 1 .. Len(q) - 1
                 PROVE  JobUnder(r[n], s.invariant)
      BY <2>1, <2>5
    <3>1. n + 1 \in DOMAIN q /\ r[n] = q[n + 1]
      BY <2>1
    <3> QED BY <3>1, <1>9
  <2>12. SoundInv' /\ CountInv'
    BY <1>1, <1>3, <1>4, <2>4, <2>5, <2>9, <2>10, <2>11, ResultTaken
  <2> DEFINE c == s.stored_result.parts
             p == Played(s)
             h == Freed
             h2 == AllHeld'
  <2>13. LayoutOf(s, Freed) = Layout(q, c, p, h) /\ Load' = Layout(r, c, p, h2)
    <3>1. Played(st)' = Played(s)
      BY <1>4, <2>5 DEF Played
    <3> QED BY <2>5, <3>1 DEF Load, LayoutOf
  <2>14. h[wid] = {} /\ h2[wid] = JobParts(q[1]) /\ \A v \in Workers : v # wid => h2[v] = h[v]
    <3>1. Held(DoneJob, <<m>>, <<>>) = JobParts(m)
      BY HeldCases
    <3>2. h2[wid] = JobParts(q[1])
      BY <1>2, <1>4, <1>6, <1>7, <2>2, <2>4, <3>1
    <3>3. ASSUME NEW v \in Workers, v # wid
          PROVE  h2[v] = h[v]
      BY <3>3, <1>4, <1>6, <1>7, <1>10, <2>4 DEF AllHeld
    <3> QED BY <1>10, <3>2, <3>3
  <2>15. q \in Seq(Jobs) /\ q # <<>> /\ r = Tail(q)
    BY <1>5, <1>14 DEF r
  <2> HIDE DEF q, c, p, h, h2
  <2>16. Rearranged(Layout(q, c, p, h), Layout(r, c, p, h2))
    BY <1>2, <2>14, <2>15, Dequeued
  <2>17. IsPartition(Load', Formulas) /\ Pieces(Load') = Pieces(LayoutOf(s, Freed))
    BY <1>3, <1>14, <2>13, <2>16 DEF Rearranged, Placed
  <2>18. IsPartition(Load, Formulas)' /\ Joined(Pieces(Load), Pieces(Load)')
    BY <1>3, <1>14, <2>17 DEF Placed, IsPartition, Pieces
  <2> QED BY <1>2, <1>14, <2>5, <2>6, <2>7, <2>8, <2>12, <2>18 DEF IInv, PartitionInv
<1> QED BY <1>4, <1>12, <1>13, <1>14

-----------------------------------------------------------------------------
(* The first jobs are the formulas, each once. *)
LEMMA OrderInjective ==
  ASSUME NEW order \in [1 .. Cardinality(Formulas) -> Formulas],
         {order[n] : n \in DOMAIN order} = Formulas,
         NEW a \in 1 .. Cardinality(Formulas), NEW b \in 1 .. Cardinality(Formulas),
         order[a] = order[b]
  PROVE  a = b
<1> DEFINE N == Cardinality(Formulas)
           D == (1 .. N) \ {a}
           g == [n \in D |-> order[n]]
<1> SUFFICES ASSUME a # b
             PROVE  FALSE
  OBVIOUS
<1>1. N \in Nat \ {0}
  BY Sizes
<1> HIDE DEF N
<1>2. IsFiniteSet(1 .. N) /\ Cardinality(1 .. N) = N
  <2>1. 1 \in Int /\ N \in Int
    BY <1>1
  <2>2. IsFiniteSet(1 .. N) /\ Cardinality(1 .. N) = IF 1 > N THEN 0 ELSE N - 1 + 1
    BY ONLY <2>1, FS_Interval
  <2> QED BY <1>1, <2>2
<1>3. IsFiniteSet(D) /\ Cardinality(D) = N - 1
  BY <1>1, <1>2, FS_RemoveElement DEF N
<1>4. g \in [D -> Formulas] /\ \A f \in Formulas : \E n \in D : g[n] = f
  BY DEF N
<1>5. g \in Surjection(D, Formulas)
  BY <1>4 DEF Surjection
<1>6. Cardinality(Formulas) <= Cardinality(D)
  BY <1>3, <1>5, FS_Surjection
<1> QED BY <1>1, <1>3, <1>6 DEF N

LEMMA InitIInv ==
  ASSUME Init
  PROVE  IInv /\ Pieces(Load) = {{f} : f \in Formulas}
<1> DEFINE N == Cardinality(Formulas)
<1>1. N \in Nat \ {0} /\ NumWorkers \in Nat \ {0} /\ Workers = 0 .. NumWorkers - 1 /\ 0 \in Workers
  BY Sizes
<1>2. PICK order \in [1 .. N -> Formulas] :
        /\ {order[n] : n \in DOMAIN order} = Formulas
        /\ st = [pending_jobs   |-> [n \in 1 .. N |-> FormulaJob(order[n])],
                 stored_result  |-> NoGame,
                 losing         |-> FALSE,
                 invariant      |-> {},
                 base_remaining |-> N]
  BY DEF Init
<1> DEFINE q == [n \in 1 .. N |-> FormulaJob(order[n])]
<1>3. /\ world \in Worlds
      /\ mpc = "spawn" /\ wid = 0 /\ verdict = -1
      /\ active = [w \in Workers |-> TRUE]
      /\ wpc = [w \in Workers |-> "unborn"]
      /\ job = [w \in Workers |-> DoneJob]
      /\ shared = <<>>
      /\ fromMain = [w \in Workers |-> <<>>]
      /\ toMain = [w \in Workers |-> <<>>]
  BY DEF Init
<1>4. /\ st.pending_jobs = q /\ st.stored_result = NoGame /\ ~st.losing
      /\ st.invariant = {} /\ st.base_remaining = N
  BY <1>2
<1>5. \A n \in 1 .. N : q[n] \in Jobs /\ JobParts(q[n]) = {order[n]} /\ q[n] = FormulaJob(order[n])
  BY <1>2, DataTypes
<1>6. q \in Seq(Jobs) /\ Len(q) = N /\ DOMAIN q = 1 .. N
  BY <1>1, <1>5
<1> HIDE DEF q
<1>7. TypeOK
  <2>1. st \in MasterState
    BY <1>1, <1>2, <1>6 DEF MasterState, q
  <2> QED BY <1>1, <1>3, <2>1, CompositionAssumption DEF TypeOK
<1>8. WorkerInv
  BY <1>3 DEF WorkerInv, OneThing
<1>9. PhaseInv
  BY <1>1, <1>3, <1>4, <1>6 DEF PhaseInv
<1>10. SoundInv
  <2>1. \A n \in DOMAIN q : JobSound(q[n])
    BY <1>5, <1>6 DEF JobSound, JobUnder, FormulaJob
  <2>2. JobSound(DoneJob)
    BY DEF JobSound, JobUnder, DoneJob
  <2> QED BY <1>3, <1>4, <2>1, <2>2 DEF SoundInv, StoredSound
<1>11. CountInv
  <2>1. \A f \in Formulas : NewPending(q, f)
    <3> SUFFICES ASSUME NEW f \in Formulas
                 PROVE  NewPending(q, f)
      OBVIOUS
    <3>1. PICK n \in 1 .. N : order[n] = f
      BY <1>2
    <3>2. q[n].type = "formula" /\ q[n].formula = f
      <4>1. q[n] = FormulaJob(f)
        BY <1>5, <3>1
      <4> QED BY <4>1 DEF FormulaJob
    <3> QED BY <1>6, <3>2 DEF NewPending, NewJob
  <2>2. {f \in Formulas : Untranslated(f)} = Formulas
    BY <1>4, <2>1, UntranslatedIs
  <2>3. N # -1 /\ N # 0
    BY <1>1
  <2> QED BY <1>4, <2>2, <2>3 DEF CountInv
<1>12. IsPartition(Load, Formulas) /\ Pieces(Load) = {{f} : f \in Formulas}
  <2>1. AllHeld = [w \in Workers |-> {}]
    <3>1. Held(DoneJob, <<>>, <<>>) = {}
      BY HeldCases
    <3> QED BY <1>3, <3>1 DEF AllHeld
  <2>2. /\ DOMAIN Load = Places
        /\ Load[Stored] = {} /\ Load[Invariant] = {}
        /\ \A n \in Nat \ {0} : Load[Pending(n)] = IF n \in 1 .. N THEN {order[n]} ELSE {}
        /\ \A w \in Workers : Load[Worker(w)] = {}
    <3>1. NoGame.parts = {} /\ Played(st) = {}
      BY <1>4 DEF NoGame, Played
    <3>2. \A n \in Nat \ {0} : QueueAt(q, n) = IF n \in 1 .. N THEN {order[n]} ELSE {}
      BY <1>5, <1>6 DEF QueueAt
    <3>3. Load = Layout(q, {}, {}, [w \in Workers |-> {}])
      BY <1>4, <2>1, <3>1 DEF Load
    <3>4. LET L == Layout(q, {}, {}, [w \in Workers |-> {}])
          IN  /\ DOMAIN L = Places
              /\ L[Stored] = {} /\ L[Invariant] = {}
              /\ \A n \in Nat \ {0} : L[Pending(n)] = QueueAt(q, n)
              /\ \A w \in Workers : L[Worker(w)] = {}
      <4> DEFINE held == [w \in Workers |-> {}]
      <4>1. \A w \in Workers : held[w] = {}
        OBVIOUS
      <4> HIDE DEF held
      <4> QED BY <4>1, LayoutAt DEF held
    <3> QED BY <3>2, <3>3, <3>4
  <2>3. \A x \in Places : \A f : f \in Load[x] =>
          \E n \in 1 .. N : x = Pending(n) /\ f = order[n] /\ Load[x] = {f}
    <3> SUFFICES ASSUME NEW x \in Places, NEW f, f \in Load[x]
                 PROVE  \E n \in 1 .. N : x = Pending(n) /\ f = order[n] /\ Load[x] = {f}
      OBVIOUS
    <3>1. PICK n \in Nat \ {0} : x = Pending(n)
      BY <2>2, PlacesDiffer
    <3>2. n \in 1 .. N
      BY <2>2, <3>1
    <3> QED BY <2>2, <3>1, <3>2
  <2>4. \A f \in Formulas : \E x \in Places : Load[x] = {f}
    <3> SUFFICES ASSUME NEW f \in Formulas
                 PROVE  \E x \in Places : Load[x] = {f}
      OBVIOUS
    <3>1. PICK n \in 1 .. N : order[n] = f
      BY <1>2
    <3>2. n \in Nat \ {0}
      BY <1>1
    <3>3. Pending(n) \in Places
      BY <3>2, PlacesDiffer
    <3>4. Load[Pending(n)] = {f}
      BY <2>2, <3>1, <3>2
    <3> QED BY <3>3, <3>4
  <2>5. IsPartition(Load, Formulas)
    <3>1. \A x \in Places : Load[x] \subseteq Formulas
      BY <2>3, <1>2
    <3>2. \A f \in Formulas : \E x \in Places : f \in Load[x]
      BY <2>4
    <3>3. ASSUME NEW x \in Places, NEW y \in Places, NEW f, f \in Load[x], f \in Load[y]
          PROVE  x = y
      <4>1. PICK n \in 1 .. N : x = Pending(n) /\ f = order[n]
        BY <2>3, <3>3
      <4>2. PICK m \in 1 .. N : y = Pending(m) /\ f = order[m]
        BY <2>3, <3>3
      <4>3. n = m
        BY <1>2, <4>1, <4>2, OrderInjective
      <4> QED BY <4>1, <4>2, <4>3
    <3> QED BY <2>2, <3>1, <3>2, <3>3 DEF IsPartition
  <2>6. Pieces(Load) = {{f} : f \in Formulas}
    <3>1. ASSUME NEW p \in Pieces(Load)
          PROVE  p \in {{f} : f \in Formulas}
      <4>1. PICK x \in Places : p = Load[x] /\ p # {}
        BY <2>2 DEF Pieces
      <4>2. PICK f : f \in Load[x]
        BY <4>1
      <4>3. \E n \in 1 .. N : f = order[n] /\ Load[x] = {f}
        BY <2>3, <4>2
      <4> QED BY <1>2, <4>1, <4>3
    <3>2. ASSUME NEW f \in Formulas
          PROVE  {f} \in Pieces(Load)
      BY <2>2, <2>4 DEF Pieces
    <3> QED BY <3>1, <3>2
  <2> QED BY <2>5, <2>6
<1> QED BY <1>7, <1>8, <1>9, <1>10, <1>11, <1>12 DEF IInv, PartitionInv

-----------------------------------------------------------------------------
LEMMA NextInv ==
  ASSUME IInv, [Next]_vars
  PROVE  IInv'
<1>1. CASE Spawn
  BY <1>1, SpawnStep
<1>2. CASE ReadId
  BY <1>2, ReadIdStep
<1>3. CASE ReadResult
  BY <1>3, ReadResultStep
<1>4. CASE Reap
  BY <1>4, ReapStep
<1>5. CASE KillAll
  BY <1>5, KillAllStep
<1>6. CASE Epilogue
  BY <1>6, EpilogueStep
<1>7. ASSUME NEW w \in Workers, WorkerStep(w)
      PROVE  IInv'
  BY <1>7, ReadJobStep, AnnounceStep, WriteResultStep DEF WorkerStep
<1>8. ASSUME NEW w \in Workers, Crash(w)
      PROVE  IInv'
  BY <1>8, CrashStep
<1>9. CASE UNCHANGED vars
  <2>1. TypeOK' /\ WorkerInv' /\ PhaseInv'
    BY <1>9 DEF IInv, TypeOK, WorkerInv, OneThing, PhaseInv, vars
  <2> QED BY <1>9, <2>1, DataKept DEF vars
<1> QED BY <1>1, <1>2, <1>3, <1>4, <1>5, <1>6, <1>7, <1>8, <1>9 DEF Next, MasterStep, Finished, Hung

LEMMA CompositionInv == Spec => []IInv
<1>1. Init => IInv
  BY InitIInv
<1>2. IInv /\ [Next]_vars => IInv'
  BY NextInv
<1> QED BY <1>1, <1>2, PTL DEF Spec

(***************************************************************************)
(* The master's object, the pipes and the workers always have their types, *)
(* whatever the formulas, the number of workers and the crashes.           *)
(***************************************************************************)
THEOREM CompositionTypeOK == Spec => []TypeOK
<1>1. IInv => TypeOK
  BY DEF IInv
<1> QED BY <1>1, CompositionInv, PTL

(***************************************************************************)
(* base_remaining is the number of formulas that are not translated or     *)
(* whose translation is on its way, until it is set to -1.                 *)
(***************************************************************************)
THEOREM CompositionCountdown == Spec => []CountdownExact
<1>1. IInv => CountdownExact
  BY DEF IInv, CountInv, CountdownExact
<1> QED BY <1>1, CompositionInv, PTL

-----------------------------------------------------------------------------
(* Where worker w has formula f, as Holders counts it. *)
HeldBy(w, f) ==
  {<<"job", w>> : x \in {f} \cap JobParts(job[w])}
  \cup {<<"from", w, n>> : n \in {n \in DOMAIN fromMain[w] : f \in JobParts(fromMain[w][n])}}
  \cup {<<"to", w, n>> : n \in {n \in DOMAIN toMain[w] : f \in ResultParts(toMain[w][n])}}

(* A worker that has a formula has it once. *)
LEMMA HeldOnce ==
  ASSUME IInv, NEW w \in Workers, NEW f
  PROVE  /\ f \notin AllHeld[w] => HeldBy(w, f) = {}
         /\ f \in AllHeld[w] => \E h : HeldBy(w, f) = {h}
<1>1. /\ JobParts(DoneJob) = {}
      /\ job[w] # DoneJob => fromMain[w] = <<>> /\ toMain[w] = <<>>
      /\ fromMain[w] # <<>> => Len(fromMain[w]) = 1 /\ toMain[w] = <<>>
      /\ toMain[w] # <<>> => Len(toMain[w]) = 1
      /\ fromMain[w] \in Seq(Jobs \cup {DoneJob}) /\ toMain[w] \in Seq(Results)
  BY DataTypes DEF IInv, TypeOK, WorkerInv, OneThing
<1>2. /\ fromMain[w] = <<>> => DOMAIN fromMain[w] = {}
      /\ toMain[w] = <<>> => DOMAIN toMain[w] = {}
      /\ fromMain[w] # <<>> => DOMAIN fromMain[w] = {1}
      /\ toMain[w] # <<>> => DOMAIN toMain[w] = {1}
  BY <1>1, OneMessage
<1>3. f \in AllHeld[w] <=> \/ f \in JobParts(job[w])
                           \/ \E n \in DOMAIN fromMain[w] : f \in JobParts(fromMain[w][n])
                           \/ \E n \in DOMAIN toMain[w] : f \in ResultParts(toMain[w][n])
  BY DEF AllHeld, Held
<1>4. CASE f \notin AllHeld[w]
  BY <1>3, <1>4 DEF HeldBy
<1>5. CASE f \in JobParts(job[w])
  <2>1. DOMAIN fromMain[w] = {} /\ DOMAIN toMain[w] = {}
    BY <1>1, <1>2, <1>5
  <2>2. HeldBy(w, f) = {<<"job", w>>}
    BY <1>5, <2>1 DEF HeldBy
  <2> QED BY <2>2, <1>3, <1>5
<1>6. CASE f \notin JobParts(job[w]) /\ \E n \in DOMAIN fromMain[w] : f \in JobParts(fromMain[w][n])
  <2>1. DOMAIN fromMain[w] = {1} /\ DOMAIN toMain[w] = {}
    BY <1>1, <1>2, <1>6
  <2>2. HeldBy(w, f) = {<<"from", w, 1>>}
    BY <1>6, <2>1 DEF HeldBy
  <2> QED BY <2>2, <1>3, <1>6
<1>7. CASE /\ f \notin JobParts(job[w])
           /\ ~\E n \in DOMAIN fromMain[w] : f \in JobParts(fromMain[w][n])
           /\ \E n \in DOMAIN toMain[w] : f \in ResultParts(toMain[w][n])
  <2>1. DOMAIN toMain[w] = {1}
    BY <1>2, <1>7
  <2>2. HeldBy(w, f) = {<<"to", w, 1>>}
    BY <1>7, <2>1 DEF HeldBy
  <2> QED BY <2>2, <1>3, <1>7
<1> QED BY <1>3, <1>4, <1>5, <1>6, <1>7

LEMMA HoldersAre ==
  ASSUME NEW f
  PROVE  Holders(f) =
           {<<"pending", n>> : n \in {n \in DOMAIN st.pending_jobs : f \in JobParts(st.pending_jobs[n])}}
           \cup (UNION {HeldBy(w, f) : w \in Workers})
           \cup {<<"stored">> : x \in {f} \cap st.stored_result.parts}
           \cup {<<"invariant">> : x \in {f} \cap PlayedInvariant}
<1> DEFINE A == {<<"job", w>> : w \in {w \in Workers : f \in JobParts(job[w])}}
           B(w) == {<<"from", w, n>> : n \in {n \in DOMAIN fromMain[w] : f \in JobParts(fromMain[w][n])}}
           C(w) == {<<"to", w, n>> : n \in {n \in DOMAIN toMain[w] : f \in ResultParts(toMain[w][n])}}
           D(w) == {<<"job", w>> : x \in {f} \cap JobParts(job[w])}
<1>1. A \cup (UNION {B(w) : w \in Workers}) \cup (UNION {C(w) : w \in Workers})
      = UNION {D(w) \cup B(w) \cup C(w) : w \in Workers}
  <2>1. \A h : h \in A <=> \E w \in Workers : h \in D(w)
    OBVIOUS
  <2> HIDE DEF A, B, C, D
  <2> QED BY <2>1
<1>2. \A w : HeldBy(w, f) = D(w) \cup B(w) \cup C(w)
  BY DEF HeldBy
<1> HIDE DEF A, B, C, D
<1>3. UNION {HeldBy(w, f) : w \in Workers}
      = A \cup (UNION {B(w) : w \in Workers}) \cup (UNION {C(w) : w \in Workers})
  BY <1>1, <1>2
<1> QED BY <1>3 DEF Holders, A, B, C

LEMMA HoldersByPlace ==
  ASSUME IInv, ~st.losing, NEW f \in Formulas
  PROVE  \E h : Holders(f) = {h}
<1> DEFINE P == {<<"pending", n>> : n \in {n \in DOMAIN st.pending_jobs : f \in JobParts(st.pending_jobs[n])}}
           W == UNION {HeldBy(w, f) : w \in Workers}
           S == {<<"stored">> : x \in {f} \cap st.stored_result.parts}
           V == {<<"invariant">> : x \in {f} \cap PlayedInvariant}
<1>1. Holders(f) = P \cup W \cup S \cup V
  BY HoldersAre
<1>2. /\ DOMAIN Load = Places
      /\ Load[Stored] = st.stored_result.parts /\ Load[Invariant] = PlayedInvariant
      /\ \A n \in Nat \ {0} : Load[Pending(n)] = QueueAt(st.pending_jobs, n)
      /\ \A w \in Workers : Load[Worker(w)] = AllHeld[w]
  BY LayoutAt DEF Load, Played, PlayedInvariant
<1>3. DOMAIN st.pending_jobs \subseteq Nat \ {0}
  <2>1. st.pending_jobs \in Seq(Jobs)
    BY DEF IInv, TypeOK, MasterState
  <2> QED BY <2>1, LenProperties
<1>4. PICK x \in Places : f \in Load[x] /\ \A y \in Places : f \in Load[y] => y = x
  <2>1. IsPartition(Load, Formulas)
    BY DEF IInv, PartitionInv
  <2> QED BY <1>2, <2>1 DEF IsPartition
<1>5. \A n \in Nat \ {0} : f \in QueueAt(st.pending_jobs, n) <=>
         n \in DOMAIN st.pending_jobs /\ f \in JobParts(st.pending_jobs[n])
  BY DEF QueueAt
<1>6. /\ \A n \in DOMAIN st.pending_jobs : f \in JobParts(st.pending_jobs[n]) => Pending(n) = x
      /\ \A w \in Workers : f \in AllHeld[w] => Worker(w) = x
      /\ f \in st.stored_result.parts => Stored = x
      /\ f \in PlayedInvariant => Invariant = x
  BY <1>2, <1>3, <1>4, <1>5, PlacesDiffer
<1>7. CASE x = Stored
  <2>1. P = {} /\ V = {} /\ S = {<<"stored">>}
    BY <1>2, <1>3, <1>4, <1>6, <1>7, PlacesDiffer
  <2>2. W = {}
    BY <1>6, <1>7, HeldOnce, PlacesDiffer
  <2> QED BY <1>1, <2>1, <2>2
<1>8. CASE x = Invariant
  <2>1. P = {} /\ S = {} /\ V = {<<"invariant">>}
    BY <1>2, <1>3, <1>4, <1>6, <1>8, PlacesDiffer
  <2>2. W = {}
    BY <1>6, <1>8, HeldOnce, PlacesDiffer
  <2> QED BY <1>1, <2>1, <2>2
<1>9. ASSUME NEW n \in Nat \ {0}, x = Pending(n)
      PROVE  \E h : Holders(f) = {h}
  <2>1. n \in DOMAIN st.pending_jobs /\ f \in JobParts(st.pending_jobs[n])
    BY <1>2, <1>4, <1>5, <1>9
  <2>2. \A m \in DOMAIN st.pending_jobs : f \in JobParts(st.pending_jobs[m]) => m = n
    BY <1>3, <1>6, <1>9, PlacesDiffer
  <2>3. P = {<<"pending", n>>}
    BY <2>1, <2>2
  <2>4. S = {} /\ V = {}
    BY <1>6, <1>9, PlacesDiffer
  <2>5. W = {}
    BY <1>6, <1>9, HeldOnce, PlacesDiffer
  <2> QED BY <1>1, <2>3, <2>4, <2>5
<1>10. ASSUME NEW w \in Workers, x = Worker(w)
       PROVE  \E h : Holders(f) = {h}
  <2>1. P = {}
    BY <1>3, <1>6, <1>10, PlacesDiffer
  <2>2. S = {} /\ V = {}
    BY <1>6, <1>10, PlacesDiffer
  <2>3. \A v \in Workers : v # w => HeldBy(v, f) = {}
    BY <1>6, <1>10, HeldOnce, PlacesDiffer
  <2>4. PICK h : HeldBy(w, f) = {h}
    BY <1>2, <1>4, <1>10, HeldOnce
  <2>5. W = {h}
    BY <2>3, <2>4
  <2> QED BY <1>1, <2>1, <2>2, <2>5
<1> QED BY <1>7, <1>8, <1>9, <1>10, PlacesDiffer

(***************************************************************************)
(* No formula is lost or played twice, however results and deaths are      *)
(* interleaved: until an abort each is in exactly one pending job,         *)
(* message, running job, stored result, or in the invariant.               *)
(***************************************************************************)
THEOREM CompositionEachFormulaOnce == Spec => []EachFormulaOnce
<1>1. ASSUME IInv, ~st.losing, NEW f \in Formulas
      PROVE  Cardinality(Holders(f)) = 1
  BY <1>1, HoldersByPlace, FS_Singleton
<1>2. IInv => EachFormulaOnce
  BY <1>1 DEF EachFormulaOnce
<1> QED BY <1>2, CompositionInv, PTL

-----------------------------------------------------------------------------
(***************************************************************************)
(* The run implements Conjunction: its blocks are the pieces of the layout *)
(* of the formulas over the places.                                        *)
(***************************************************************************)
LEMMA PiecesHeld ==
  ASSUME IInv, NEW w \in Workers, NEW p, p # {}
  PROVE  p = AllHeld[w] <=> \/ p = JobParts(job[w])
                            \/ \E n \in DOMAIN fromMain[w] : p = JobParts(fromMain[w][n])
                            \/ \E n \in DOMAIN toMain[w] : p = ResultParts(toMain[w][n])
<1>1. /\ JobParts(DoneJob) = {}
      /\ job[w] # DoneJob => fromMain[w] = <<>> /\ toMain[w] = <<>>
      /\ fromMain[w] # <<>> => Len(fromMain[w]) = 1 /\ toMain[w] = <<>>
      /\ toMain[w] # <<>> => Len(toMain[w]) = 1
      /\ fromMain[w] \in Seq(Jobs \cup {DoneJob}) /\ toMain[w] \in Seq(Results)
  BY DataTypes DEF IInv, TypeOK, WorkerInv, OneThing
<1>2. /\ fromMain[w] = <<>> => DOMAIN fromMain[w] = {}
      /\ toMain[w] = <<>> => DOMAIN toMain[w] = {}
      /\ fromMain[w] # <<>> => DOMAIN fromMain[w] = {1}
      /\ toMain[w] # <<>> => DOMAIN toMain[w] = {1}
  BY <1>1, OneMessage
<1>3. AllHeld[w] = JobParts(job[w])
                   \cup (UNION {JobParts(fromMain[w][n]) : n \in DOMAIN fromMain[w]})
                   \cup (UNION {ResultParts(toMain[w][n]) : n \in DOMAIN toMain[w]})
  BY DEF AllHeld, Held
<1>4. CASE job[w] # DoneJob
  <2>1. DOMAIN fromMain[w] = {} /\ DOMAIN toMain[w] = {}
    BY <1>1, <1>2, <1>4
  <2>2. AllHeld[w] = JobParts(job[w])
    BY <1>3, <2>1
  <2> QED BY <2>1, <2>2
<1>5. CASE job[w] = DoneJob /\ fromMain[w] # <<>>
  <2>1. DOMAIN fromMain[w] = {1} /\ DOMAIN toMain[w] = {}
    BY <1>1, <1>2, <1>5
  <2>2. AllHeld[w] = JobParts(fromMain[w][1])
    BY <1>1, <1>3, <1>5, <2>1
  <2> QED BY <1>1, <1>5, <2>1, <2>2
<1>6. CASE job[w] = DoneJob /\ fromMain[w] = <<>> /\ toMain[w] # <<>>
  <2>1. DOMAIN fromMain[w] = {} /\ DOMAIN toMain[w] = {1}
    BY <1>1, <1>2, <1>6
  <2>2. AllHeld[w] = ResultParts(toMain[w][1])
    BY <1>1, <1>3, <1>6, <2>1
  <2> QED BY <1>1, <1>6, <2>1, <2>2
<1>7. CASE job[w] = DoneJob /\ fromMain[w] = <<>> /\ toMain[w] = <<>>
  <2>1. DOMAIN fromMain[w] = {} /\ DOMAIN toMain[w] = {}
    BY <1>1, <1>2, <1>7
  <2>2. AllHeld[w] = {}
    BY <1>1, <1>3, <1>7, <2>1
  <2> QED BY <1>1, <1>7, <2>1, <2>2
<1> QED BY <1>4, <1>5, <1>6, <1>7

LEMMA BlocksArePieces == IInv => Blocks = Pieces(Load)
<1> SUFFICES ASSUME IInv
             PROVE  Blocks = Pieces(Load)
  OBVIOUS
<1>1. /\ DOMAIN Load = Places
      /\ Load[Stored] = st.stored_result.parts /\ Load[Invariant] = PlayedInvariant
      /\ \A n \in Nat \ {0} : Load[Pending(n)] = QueueAt(st.pending_jobs, n)
      /\ \A w \in Workers : Load[Worker(w)] = AllHeld[w]
  BY LayoutAt DEF Load, Played, PlayedInvariant
<1>2. DOMAIN st.pending_jobs \subseteq Nat \ {0}
  <2>1. st.pending_jobs \in Seq(Jobs)
    BY DEF IInv, TypeOK, MasterState
  <2> QED BY <2>1, LenProperties
<1> DEFINE InPending(p) == \E n \in DOMAIN st.pending_jobs : p = JobParts(st.pending_jobs[n])
           InWorker(p) == \E w \in Workers :
                            \/ p = JobParts(job[w])
                            \/ \E n \in DOMAIN fromMain[w] : p = JobParts(fromMain[w][n])
                            \/ \E n \in DOMAIN toMain[w] : p = ResultParts(toMain[w][n])
<1>3. \A p : p \in Blocks <=> /\ p # {}
                              /\ \/ InPending(p) \/ InWorker(p)
                                 \/ p = st.stored_result.parts \/ p = PlayedInvariant
  BY DEF Blocks
<1>4. ASSUME NEW p, p # {}
      PROVE  InPending(p) <=> \E n \in Nat \ {0} : p = Load[Pending(n)]
  BY <1>1, <1>2, <1>4 DEF QueueAt
<1>5. ASSUME NEW p, p # {}
      PROVE  InWorker(p) <=> \E w \in Workers : p = Load[Worker(w)]
  BY <1>1, <1>5, PiecesHeld
<1> HIDE DEF InPending, InWorker
<1>6. \A p : p \in Pieces(Load) <=> /\ p # {}
                                    /\ \/ \E n \in Nat \ {0} : p = Load[Pending(n)]
                                       \/ \E w \in Workers : p = Load[Worker(w)]
                                       \/ p = st.stored_result.parts \/ p = PlayedInvariant
  <2>1. \A p : p \in Pieces(Load) <=> p # {} /\ \E x \in Places : p = Load[x]
    BY <1>1 DEF Pieces
  <2>2. \A p : (\E x \in Places : p = Load[x])
                 <=> \/ \E n \in Nat \ {0} : p = Load[Pending(n)]
                     \/ \E w \in Workers : p = Load[Worker(w)]
                     \/ p = Load[Stored] \/ p = Load[Invariant]
    BY PlacesDiffer
  <2> QED BY <1>1, <2>1, <2>2
<1> QED BY <1>3, <1>4, <1>5, <1>6

(* At the end one game is left, and the invariant. *)
LEMMA EpilogueBlocks ==
  ASSUME IInv, mpc = "epilogue", ~st.losing
  PROVE  /\ Pieces(Load) \subseteq {st.stored_result.parts, Played(st)}
         /\ st.stored_result.parts \cup Played(st) = Formulas
         /\ ~world.supports_invariant => st.base_remaining = -1
<1>1. st.pending_jobs = <<>> /\ DOMAIN st.pending_jobs = {}
  BY DEF IInv, PhaseInv
<1>2. \A w \in Workers : AllHeld[w] = {} /\ \A f : ~NewHeld(job[w], fromMain[w], toMain[w], f)
  <2> SUFFICES ASSUME NEW w \in Workers
               PROVE  AllHeld[w] = {} /\ \A f : ~NewHeld(job[w], fromMain[w], toMain[w], f)
    OBVIOUS
  <2>1. job[w] = DoneJob /\ toMain[w] = <<>> /\ fromMain[w] \in {<<>>, <<DoneJob>>}
    BY DEF IInv, PhaseInv, WorkerInv, OneThing
  <2>2. /\ Held(DoneJob, <<DoneJob>>, <<>>) = {} /\ Held(DoneJob, <<>>, <<>>) = {}
        /\ \A f : ~NewHeld(DoneJob, <<DoneJob>>, <<>>, f) /\ ~NewHeld(DoneJob, <<>>, <<>>, f)
    <3>1. JobParts(DoneJob) = {} /\ \A f : ~NewJob(DoneJob, f)
      BY DataTypes
    <3> QED BY <3>1, HeldCases
  <2> QED BY <2>1, <2>2 DEF AllHeld
<1>3. /\ DOMAIN Load = Places
      /\ Load[Stored] = st.stored_result.parts /\ Load[Invariant] = Played(st)
      /\ \A n \in Nat \ {0} : Load[Pending(n)] = {}
      /\ \A w \in Workers : Load[Worker(w)] = {}
  <2>1. \A n : QueueAt(st.pending_jobs, n) = {}
    BY <1>1 DEF QueueAt
  <2> QED BY <1>2, <2>1, LayoutAt DEF Load
<1>4. \A x \in Places : Load[x] # {} => x = Stored \/ x = Invariant
  BY <1>3, PlacesDiffer
<1>5. Pieces(Load) \subseteq {st.stored_result.parts, Played(st)}
  BY <1>3, <1>4 DEF Pieces
<1>6. st.stored_result.parts \cup Played(st) = Formulas
  <2>1. IsPartition(Load, Formulas)
    BY DEF IInv, PartitionInv
  <2>2. Load[Stored] \subseteq Formulas /\ Load[Invariant] \subseteq Formulas
    BY <1>3, <2>1, PlacesDiffer DEF IsPartition
  <2>3. \A f \in Formulas : \E x \in Places : f \in Load[x]
    BY <1>3, <2>1 DEF IsPartition
  <2> QED BY <1>3, <1>4, <2>2, <2>3
<1>7. ~world.supports_invariant => st.base_remaining = -1
  <2>1. \A f : ~NewPending(st.pending_jobs, f)
    BY <1>1 DEF NewPending
  <2>2. {f \in Formulas : Untranslated(f)} = {}
    BY <1>2, <2>1, UntranslatedIs
  <2>3. Cardinality({f \in Formulas : Untranslated(f)}) = 0
    BY <2>2, FS_EmptySet
  <2> QED BY <2>3 DEF IInv, CountInv
<1> QED BY <1>5, <1>6, <1>7

(***************************************************************************)
(* Without any game, the answer is not right: epilogue then takes the      *)
(* invariant for realizable without solving it.                            *)
(***************************************************************************)
SomeGame == \A w \in Worlds : \E f \in Formulas : w.kind[f] = "game"

(* The last game stands for all formulas that are not in the invariant. *)
LEMMA FinalGameRight ==
  ASSUME SomeGame, IInv, mpc = "epilogue", ~st.losing
  PROVE  FinalGame.safe <=> Formulas \in world.realizable
<1> DEFINE g == st.stored_result
<1>1. PICK f \in Formulas : world.kind[f] = "game"
  BY DEF SomeGame, IInv, SoundInv
<1>2. Played(st) \subseteq Invariants /\ f \notin Invariants
  BY <1>1 DEF Played, Invariants, IInv, SoundInv
<1>3. f \in g.parts /\ g.parts \cup Played(st) = Formulas
  BY <1>2, EpilogueBlocks
<1>4. g # NoGame /\ g \in Games
  BY <1>3 DEF NoGame, IInv, TypeOK, MasterState
<1>5. Solved(g)
  BY <1>2, <1>3, <1>4 DEF IInv, SoundInv, StoredSound
<1> HIDE DEF g
<1>6. FinalGame = IF g.invariant # st.invariant /\ world.supports_invariant
                  THEN SolveGame(g, st.invariant) ELSE g
  BY <1>4, <1>5 DEF FinalGame, g, Solved
<1>7. SolveGame(g, st.invariant).safe <=> (g.parts \cup UsedInvariant(st.invariant)) \in world.realizable
  BY <1>4 DEF SolveGame, Games
<1>8. CASE world.supports_invariant
  <2>1. g.parts \cup UsedInvariant(st.invariant) = Formulas
    BY <1>3, <1>8 DEF UsedInvariant, Played
  <2>2. g.invariant = st.invariant => (g.safe <=> Formulas \in world.realizable)
    BY <1>5, <2>1 DEF Solved
  <2> QED BY <1>6, <1>7, <1>8, <2>1, <2>2
<1>9. CASE ~world.supports_invariant
  <2>1. Played(st) = {}
    BY <1>9, EpilogueBlocks DEF Played
  <2>2. g.parts \cup UsedInvariant(g.invariant) = Formulas
    BY <1>3, <1>9, <2>1 DEF UsedInvariant
  <2> QED BY <1>5, <1>6, <1>9, <2>2 DEF Solved
<1> QED BY <1>8, <1>9

LEMMA VerdictStep ==
  ASSUME SomeGame, IInv, Epilogue
  PROVE  verdict' = IF Formulas \in world.realizable THEN 1 ELSE 0
<1>1. mpc = "epilogue" /\ verdict' = IF ~st.losing /\ FinalGame.safe THEN 1 ELSE 0
  BY DEF Epilogue
<1>2. st.losing => Formulas \notin world.realizable
  BY DEF IInv, SoundInv
<1> QED BY <1>1, <1>2, FinalGameRight

(***************************************************************************)
(* run() returns 1 exactly if the conjunction of all formulas is           *)
(* realizable, provided that one of them is not an invariant: for any      *)
(* number of formulas and workers, any order of the results and whatever   *)
(* dies.                                                                   *)
(***************************************************************************)
THEOREM CompositionVerdict ==
  ASSUME SomeGame
  PROVE  Spec => []VerdictExact
<1>1. Init => VerdictExact
  BY DEF Init, VerdictExact
<1>2. ASSUME IInv, VerdictExact, [Next]_vars
      PROVE  VerdictExact'
  <2>1. CASE Epilogue
    <3>1. verdict' = IF Formulas \in world.realizable THEN 1 ELSE 0
      BY <1>2, <2>1, VerdictStep
    <3>2. world' = world
      BY <2>1 DEF Epilogue
    <3> QED BY <3>1, <3>2 DEF VerdictExact
  <2>2. CASE Spawn \/ ReadId \/ ReadResult \/ Reap \/ KillAll
    BY <2>2 DEF VerdictExact, Spawn, ReadId, ReadResult, Reap, KillAll
  <2>3. ASSUME NEW w \in Workers, WorkerStep(w) \/ Crash(w)
        PROVE  VerdictExact'
    BY <1>2, <2>3 DEF VerdictExact, WorkerStep, ReadJob, Announce, WriteResult, Crash, master
  <2>4. CASE UNCHANGED vars
    BY <1>2, <2>4 DEF VerdictExact, vars
  <2> QED BY <1>2, <2>1, <2>2, <2>3, <2>4 DEF Next, MasterStep, Finished, Hung
<1>3. IInv /\ VerdictExact /\ [Next]_vars => VerdictExact'
  BY <1>2
<1> QED BY <1>1, <1>3, CompositionInv, PTL DEF Spec

-----------------------------------------------------------------------------
Lost == \E w \in Workers : wpc[w] = "crashed"

LEMMA InitPromise ==
  ASSUME Init
  PROVE  Promise!Init
<1>1. IInv /\ Pieces(Load) = {{f} : f \in Formulas}
  BY InitIInv
<1>2. Blocks = {{f} : f \in Formulas}
  BY <1>1, BlocksArePieces
<1>3. ~st.losing /\ verdict = -1 /\ ~Lost
  BY DEF Init, Lost
<1>4. IsWorld(world)
  BY CompositionAssumption DEF Init
<1> QED BY <1>2, <1>3, <1>4 DEF Promise!Init, IsWorld, Lost

LEMMA BlocksNext == (IInv => Blocks = Pieces(Load))'
BY BlocksArePieces, PTL

(* A step that leaves every formula where it is is none of Conjunction. *)
LEMMA QuietStep ==
  ASSUME IInv, IInv', Load' = Load \/ Pieces(Load)' = Pieces(Load),
         st'.losing = st.losing, world' = world, verdict' = verdict, Lost' <=> Lost
  PROVE  UNCHANGED Promise!vars
<1>1. Blocks' = Blocks
  BY BlocksArePieces, BlocksNext DEF Pieces
<1>2. (IF st.losing THEN {} ELSE Blocks)' = IF st.losing THEN {} ELSE Blocks
  BY <1>1
<1> QED BY <1>2 DEF Promise!vars, Lost

LEMMA SpawnPromise ==
  ASSUME IInv, Spawn
  PROVE  UNCHANGED Promise!vars
<1>1. wpc \in [Workers -> {"unborn", "waiting", "busy", "writing", "exited", "crashed", "killed"}]
  BY DEF IInv, TypeOK
<1>2. wid \in Workers /\ wpc[wid] = "unborn" /\ wpc' = [wpc EXCEPT ![wid] = "waiting"]
  BY Sizes DEF IInv, PhaseInv, Spawn
<1>3. Lost' <=> Lost
  BY <1>1, <1>2 DEF Lost
<1>4. world' = world /\ verdict' = verdict
  BY DEF Spawn
<1> QED BY <1>3, <1>4, SpawnStep, QuietStep

LEMMA ReadResultPromise ==
  ASSUME IInv, ReadResult
  PROVE  Promise!Join \/ Promise!Lose \/ UNCHANGED Promise!vars
<1>1. /\ IInv' /\ ~st.losing
      /\ ~st'.losing => Joined(Pieces(Load), Pieces(Load)')
      /\ st'.losing => \E S \in SUBSET Pieces(Load) : UNION S \notin world.realizable
  BY ReadResultStep
<1>2. mpc = "read_result" /\ UNCHANGED <<world, verdict, wpc>>
  BY DEF ReadResult
<1>3. verdict = -1 /\ (Lost' <=> Lost) /\ Blocks = Pieces(Load)
  BY <1>2, BlocksArePieces DEF Lost, IInv, PhaseInv, TypeOK
<1>4. CASE st'.losing
  <2>1. \E S \in SUBSET Blocks : UNION S \notin world.realizable
    BY <1>1, <1>3, <1>4
  <2> QED BY <1>1, <1>2, <1>3, <1>4, <2>1 DEF Promise!Lose
<1>5. CASE ~st'.losing
  <2>1. Joined(Blocks, Blocks')
    BY <1>1, <1>3, <1>5, BlocksNext
  <2>2. CASE Blocks' = Blocks
    BY <1>1, <1>2, <1>5, <2>2 DEF Promise!vars
  <2>3. CASE \E S \in (SUBSET Blocks) \ {{}} : Blocks' = (Blocks \ S) \cup {UNION S}
    BY <1>1, <1>2, <1>3, <1>5, <2>3 DEF Promise!Join
  <2> QED BY <2>1, <2>2, <2>3 DEF Joined
<1> QED BY <1>4, <1>5

LEMMA PromiseCardinality ==
  ASSUME NEW S
  PROVE  Promise!Cardinality(S) = Cardinality(S)
BY DEF Promise!Cardinality, Cardinality

LEMMA EpiloguePromise ==
  ASSUME SomeGame, IInv, Epilogue
  PROVE  Promise!Decide
<1>1. mpc = "epilogue" /\ UNCHANGED <<world, st, wpc>>
  BY DEF Epilogue
<1>2. verdict = -1
  BY <1>1 DEF IInv, PhaseInv, TypeOK
<1>3. IInv' /\ Load' = Load
  BY EpilogueStep
<1>4. Blocks' = Blocks /\ Blocks = Pieces(Load)
  BY <1>3, BlocksArePieces, BlocksNext DEF Pieces
<1>5. Cardinality(IF st.losing THEN {} ELSE Blocks) =< 2
  <2>1. CASE st.losing
    BY <2>1, FS_EmptySet
  <2>2. CASE ~st.losing
    <3> DEFINE a == st.stored_result.parts
               b == Played(st)
    <3>1. Blocks \subseteq {a, b}
      BY <1>1, <1>4, <2>2, EpilogueBlocks
    <3> HIDE DEF a, b
    <3>2. IsFiniteSet({a, b}) /\ Cardinality({a, b}) \in Nat /\ Cardinality({a, b}) =< 2
      <4>1. IsFiniteSet({a}) /\ Cardinality({a}) = 1
        BY FS_Singleton
      <4>2. IsFiniteSet({a} \cup {b})
            /\ Cardinality({a} \cup {b}) = IF b \in {a} THEN Cardinality({a}) ELSE Cardinality({a}) + 1
        BY <4>1, FS_AddElement
      <4>3. {a} \cup {b} = {a, b}
        OBVIOUS
      <4> QED BY <4>1, <4>2, <4>3
    <3>3. Cardinality(Blocks) \in Nat /\ Cardinality(Blocks) =< Cardinality({a, b})
      BY <3>1, <3>2, FS_Subset, FS_CardinalityType
    <3> QED BY <2>2, <3>2, <3>3
  <2> QED BY <2>1, <2>2
<1>6. verdict' = IF Formulas \in world.realizable THEN 1 ELSE 0
  BY VerdictStep
<1>7. /\ (IF st.losing THEN {} ELSE Blocks)' = IF st.losing THEN {} ELSE Blocks
      /\ Lost' <=> Lost
  BY <1>1, <1>4 DEF Lost
<1> QED BY <1>1, <1>2, <1>5, <1>6, <1>7, PromiseCardinality DEF Promise!Decide, Lost

LEMMA KillAllPromise ==
  ASSUME IInv, KillAll
  PROVE  UNCHANGED Promise!vars
<1>1. wpc' = [w \in Workers |-> IF active[w] /\ wpc[w] # "crashed" THEN "killed" ELSE wpc[w]]
  BY DEF KillAll
<1>2. Lost' <=> Lost
  BY <1>1 DEF Lost
<1>3. UNCHANGED <<world, st, verdict>>
  BY DEF KillAll
<1> QED BY <1>2, <1>3, KillAllStep, QuietStep

LEMMA WorkerPromise ==
  ASSUME IInv, NEW w \in Workers, WorkerStep(w)
  PROVE  UNCHANGED Promise!vars
<1>1. wpc \in [Workers -> {"unborn", "waiting", "busy", "writing", "exited", "crashed", "killed"}]
  BY DEF IInv, TypeOK
<1>2. PICK s \in {"waiting", "busy", "writing", "exited"} :
        wpc' = [wpc EXCEPT ![w] = s] /\ wpc[w] # "crashed"
  BY DEF WorkerStep, ReadJob, Announce, WriteResult
<1>3. Lost' <=> Lost
  BY <1>1, <1>2 DEF Lost
<1>4. UNCHANGED <<world, st, verdict>>
  BY DEF WorkerStep, ReadJob, Announce, WriteResult, master
<1>5. IInv' /\ Load' = Load
  BY ReadJobStep, AnnounceStep, WriteResultStep DEF WorkerStep
<1> QED BY <1>3, <1>4, <1>5, QuietStep

LEMMA CrashPromise ==
  ASSUME IInv, NEW w \in Workers, Crash(w)
  PROVE  Promise!LoseWorker
<1>1. UNCHANGED <<world, st, verdict>> /\ IInv' /\ Load' = Load /\ wpc'[w] = "crashed"
  BY CrashStep DEF Crash, master
<1>2. Blocks' = Blocks
  BY <1>1, BlocksArePieces, BlocksNext DEF Pieces
<1>3. (\E v \in Workers : wpc[v] = "crashed")'
  BY <1>1
<1> QED BY <1>1, <1>2, <1>3 DEF Promise!LoseWorker

LEMMA NextPromise ==
  ASSUME SomeGame, IInv, [Next]_vars
  PROVE  [Promise!Next]_(Promise!vars)
<1>1. CASE Spawn
  BY <1>1, SpawnPromise
<1>2. CASE ReadId \/ Reap
  <2>1. UNCHANGED <<world, st, verdict, wpc>> /\ IInv' /\ Load' = Load
    BY <1>2, ReadIdStep, ReapStep DEF ReadId, Reap
  <2> QED BY <2>1, QuietStep DEF Lost
<1>3. CASE ReadResult
  BY <1>3, ReadResultPromise DEF Promise!Next
<1>4. CASE KillAll
  BY <1>4, KillAllPromise
<1>5. CASE Epilogue
  BY <1>5, EpiloguePromise DEF Promise!Next
<1>6. ASSUME NEW w \in Workers, WorkerStep(w)
      PROVE  UNCHANGED Promise!vars
  BY <1>6, WorkerPromise
<1>7. ASSUME NEW w \in Workers, Crash(w)
      PROVE  Promise!Next
  BY <1>7, CrashPromise DEF Promise!Next
<1>8. CASE UNCHANGED vars
  <2>1. UNCHANGED <<world, st, verdict, wpc, job, fromMain, toMain>>
    BY <1>8 DEF vars
  <2>2. Blocks' = Blocks
    BY <2>1 DEF Blocks, PlayedInvariant
  <2> QED BY <2>1, <2>2 DEF Promise!vars
<1> QED BY <1>1, <1>2, <1>3, <1>4, <1>5, <1>6, <1>7, <1>8 DEF Next, MasterStep, Finished, Hung

(***************************************************************************)
(* run() implements Conjunction, provided that one formula is not an       *)
(* invariant: every handler of the master and every step of a worker       *)
(* joins blocks, loses with blocks that cannot be realized together,       *)
(* decides when at most two blocks are left, or leaves the blocks alone.   *)
(***************************************************************************)
THEOREM CompositionImplementsConjunction ==
  ASSUME SomeGame
  PROVE  Spec => ImplementsConjunction
<1>1. Init => Promise!Init
  BY InitPromise
<1>2. IInv /\ [Next]_vars => [Promise!Next]_(Promise!vars)
  BY NextPromise
<1> QED BY <1>1, <1>2, CompositionInv, PTL DEF Spec, ImplementsConjunction, Promise!Spec

-----------------------------------------------------------------------------
(* How often e is in the sequence q. *)
Count(q, e) == Cardinality({n \in DOMAIN q : q[n] = e})

LEMMA CountType ==
  ASSUME NEW S, NEW q \in Seq(S), NEW e
  PROVE  IsFiniteSet({n \in DOMAIN q : q[n] = e}) /\ Count(q, e) \in Nat
<1>1. DOMAIN q = 1 .. Len(q) /\ Len(q) \in Nat
  BY LenProperties
<1>2. 1 \in Int /\ Len(q) \in Int
  BY <1>1
<1>3. IsFiniteSet(1 .. Len(q))
  BY ONLY <1>2, FS_Interval
<1>4. IsFiniteSet({n \in DOMAIN q : q[n] = e})
  BY <1>1, <1>3, FS_Subset
<1> QED BY <1>4, FS_CardinalityType DEF Count

LEMMA CountAppend ==
  ASSUME NEW S, NEW q \in Seq(S), NEW x \in S, NEW e
  PROVE  Count(Append(q, x), e) = Count(q, e) + (IF x = e THEN 1 ELSE 0)
<1> DEFINE k == Len(q) + 1
           A == {n \in DOMAIN q : q[n] = e}
           B == {n \in DOMAIN Append(q, x) : Append(q, x)[n] = e}
<1>1. DOMAIN q = 1 .. Len(q) /\ Len(q) \in Nat /\ DOMAIN Append(q, x) = 1 .. k
  BY LenProperties, AppendProperties
<1>2. Append(q, x)[k] = x /\ \A n \in 1 .. Len(q) : Append(q, x)[n] = q[n]
  BY AppendProperties
<1>3. k \notin A /\ \A n : n \in 1 .. k <=> n \in 1 .. Len(q) \/ n = k
  BY <1>1
<1>4. IsFiniteSet(A) /\ Cardinality(A) \in Nat
  BY CountType DEF Count
<1>5. Count(q, e) = Cardinality(A) /\ Count(Append(q, x), e) = Cardinality(B)
  BY DEF Count
<1>6. B = {n \in DOMAIN Append(q, x) : Append(q, x)[n] = e} /\ A = {n \in DOMAIN q : q[n] = e}
  OBVIOUS
<1> HIDE DEF A, B, k
<1>7. CASE x = e
  <2>1. B = A \cup {k}
    BY <1>1, <1>2, <1>3, <1>7, <1>6
  <2>2. Cardinality(A \cup {k}) = Cardinality(A) + 1
    BY <1>3, <1>4, FS_AddElement
  <2> QED BY <1>7, <1>5, <2>1, <2>2
<1>8. CASE x # e
  <2>1. B = A
    BY <1>1, <1>2, <1>3, <1>8, <1>6
  <2> QED BY <1>4, <1>8, <1>5, <2>1
<1> QED BY <1>7, <1>8

LEMMA CountTail ==
  ASSUME NEW S, NEW q \in Seq(S), q # <<>>, NEW e
  PROVE  Count(q, e) = Count(Tail(q), e) + (IF Head(q) = e THEN 1 ELSE 0)
<1> DEFINE A == {n \in DOMAIN q : q[n] = e}
           B == {n \in DOMAIN Tail(q) : Tail(q)[n] = e}
           h == [n \in B |-> n + 1]
<1>1. /\ Tail(q) \in Seq(S) /\ Len(Tail(q)) = Len(q) - 1 /\ Len(q) \in Nat
      /\ \A n \in 1 .. Len(Tail(q)) : Tail(q)[n] = q[n + 1]
      /\ Head(q) = q[1]
  BY HeadTailProperties, LenProperties
<1>2. DOMAIN q = 1 .. Len(q) /\ DOMAIN Tail(q) = 1 .. (Len(q) - 1) /\ 1 \in DOMAIN q
  <2>1. DOMAIN q = 1 .. Len(q) /\ DOMAIN Tail(q) = 1 .. Len(Tail(q))
    BY <1>1, LenProperties
  <2>2. Len(q) # 0
    BY EmptySeq
  <2> QED BY <1>1, <2>1, <2>2
<1>3. IsFiniteSet(A) /\ IsFiniteSet(B) /\ Cardinality(A) \in Nat /\ Cardinality(B) \in Nat
  BY <1>1, CountType DEF Count
<1>4. \A n : n \in B <=> n \in 1 .. (Len(q) - 1) /\ q[n + 1] = e
  BY <1>1, <1>2
<1>5. \A n : n \in A <=> n \in 1 .. Len(q) /\ q[n] = e
  BY <1>2
<1> HIDE DEF A, B
<1>6. \A m \in A \ {1} : m - 1 \in B /\ h[m - 1] = m
  BY <1>1, <1>4, <1>5
<1>7. h \in [B -> A \ {1}]
  BY <1>1, <1>4, <1>5
<1>8. h \in Bijection(B, A \ {1})
  <2>1. h \in Surjection(B, A \ {1})
    BY <1>6, <1>7 DEF Surjection
  <2>2. h \in Injection(B, A \ {1})
    BY <1>4, <1>7 DEF Injection, IsInjective
  <2> QED BY <2>1, <2>2 DEF Bijection
<1>9. Cardinality(A \ {1}) = Cardinality(B)
  BY <1>3, <1>8, FS_Bijection DEF ExistsBijection
<1>10. Cardinality(A \ {1}) = IF 1 \in A THEN Cardinality(A) - 1 ELSE Cardinality(A)
  BY <1>3, FS_RemoveElement
<1>11. 1 \in A <=> Head(q) = e
  BY <1>1, <1>2, <1>5
<1>12. Count(q, e) = Cardinality(A) /\ Count(Tail(q), e) = Cardinality(B)
  BY DEF Count, A, B
<1> QED BY <1>3, <1>9, <1>10, <1>11, <1>12

(***************************************************************************)
(* Ids that are sent as one char come back as they are: with more than     *)
(* IdHalf (128) workers some are read as negative numbers, an assertion    *)
(* of the master fails, and nothing is claimed.                            *)
(***************************************************************************)
IdsFit == NumWorkers =< IdHalf

LEMMA CharFits == IdsFit => \A w \in Workers : Char(w) = w
BY Sizes, CompositionAssumption DEF Char, IdsFit

Allowed(p) == CASE p = "writing" -> {1} [] p = "crashed" -> {0, 1} [] OTHER -> {0}

Ahead(p, i, w) == IF p = "read_result" /\ i = w THEN 1 ELSE 0

(* n announcements of a worker at c that has the results in to. *)
Excess(n, to) == n - Len(to)

Balanced(n, to, c) == Excess(n, to) \in Allowed(c)

Listening(p) == p \in {"spawn", "read_id", "read_result", "reap"}

LEMMA AnnouncedIs ==
  AnnouncedOnce <=> (Listening(mpc) =>
                       \A w \in Workers :
                         Balanced(Count(shared, w) + Ahead(mpc, wid, w), toMain[w], wpc[w]))
<1>1. \A w \in Workers : Announcements(w) = Count(shared, w) + Ahead(mpc, wid, w)
  BY DEF Announcements, Count, Ahead
<1>2. \A w \in Workers :
        (Announcements(w) - Len(toMain[w]) \in
           CASE wpc[w] = "writing" -> {1}
             [] wpc[w] = "crashed" -> {0, 1}
             [] OTHER -> {0})
        <=> Balanced(Count(shared, w) + Ahead(mpc, wid, w), toMain[w], wpc[w])
  <2> SUFFICES ASSUME NEW w \in Workers
               PROVE  (Announcements(w) - Len(toMain[w]) \in
                         CASE wpc[w] = "writing" -> {1}
                           [] wpc[w] = "crashed" -> {0, 1}
                           [] OTHER -> {0})
                      <=> Balanced(Count(shared, w) + Ahead(mpc, wid, w), toMain[w], wpc[w])
    OBVIOUS
  <2> DEFINE a == Announcements(w)
  <2>1. a = Count(shared, w) + Ahead(mpc, wid, w)
    BY <1>1
  <2> HIDE DEF a
  <2>2. Balanced(Count(shared, w) + Ahead(mpc, wid, w), toMain[w], wpc[w])
        <=> a - Len(toMain[w]) \in Allowed(wpc[w])
    BY <2>1 DEF Balanced, Excess
  <2>3. Allowed(wpc[w]) = CASE wpc[w] = "writing" -> {1}
                            [] wpc[w] = "crashed" -> {0, 1}
                            [] OTHER -> {0}
    BY DEF Allowed
  <2> QED BY <2>2, <2>3 DEF a
<1> QED BY <1>2 DEF AnnouncedOnce, Listening

LEMMA AnnouncedNext ==
  (AnnouncedOnce <=> (Listening(mpc) =>
                       \A w \in Workers :
                         Balanced(Count(shared, w) + Ahead(mpc, wid, w), toMain[w], wpc[w])))'
BY AnnouncedIs, PTL

LEMMA AnnouncedTypes ==
  ASSUME IInv
  PROVE  /\ shared \in Seq(-IdHalf .. IdHalf - 1)
         /\ toMain \in [Workers -> Seq(Results)]
         /\ wpc \in [Workers -> {"unborn", "waiting", "busy", "writing", "exited", "crashed", "killed"}]
         /\ \A w \in Workers : Count(shared, w) \in Nat /\ Len(toMain[w]) \in Nat
<1>1. /\ shared \in Seq(-IdHalf .. IdHalf - 1)
      /\ toMain \in [Workers -> Seq(Results)]
      /\ wpc \in [Workers -> {"unborn", "waiting", "busy", "writing", "exited", "crashed", "killed"}]
  BY DEF IInv, TypeOK
<1>2. \A w \in Workers : toMain[w] \in Seq(Results)
  BY <1>1
<1> QED BY <1>1, <1>2, CountType, LenProperties

LEMMA AnnouncedMaster ==
  ASSUME IInv, AnnouncedOnce, Spawn \/ ReadId \/ ReadResult \/ Reap \/ KillAll \/ Epilogue
  PROVE  AnnouncedOnce'
<1> SUFFICES ASSUME Listening(mpc'), NEW w \in Workers
             PROVE  Balanced(Count(shared', w) + Ahead(mpc', wid', w), toMain'[w], wpc'[w])
  BY AnnouncedNext
<1>1. CASE Spawn
  <2>1. /\ mpc = "spawn" /\ mpc' \in {"spawn", "read_id"} /\ shared' = shared /\ toMain' = toMain
        /\ wpc' = [wpc EXCEPT ![wid] = "waiting"] /\ wid \in Workers /\ wpc[wid] = "unborn"
    BY <1>1, Sizes DEF Spawn, IInv, PhaseInv
  <2>2. Allowed(wpc'[w]) = Allowed(wpc[w]) /\ Ahead(mpc', wid', w) = Ahead(mpc, wid, w)
    BY <2>1, AnnouncedTypes DEF Allowed, Ahead
  <2>3. Listening(mpc)
    BY <2>1 DEF Listening
  <2> QED BY <2>1, <2>2, <2>3, AnnouncedIs DEF Balanced
<1>2. CASE ReadId
  <2>1. /\ mpc = "read_id" /\ wid' = Head(shared) /\ shared' = Tail(shared) /\ shared # <<>>
        /\ mpc' = IF Head(shared) \in Workers THEN "read_result" ELSE "aborted"
        /\ UNCHANGED <<toMain, wpc>>
    BY <1>2 DEF ReadId
  <2>2. mpc' = "read_result" /\ Listening(mpc)
    BY <2>1 DEF Listening
  <2>3. Ahead(mpc, wid, w) = 0 /\ Ahead(mpc', wid', w) = IF Head(shared) = w THEN 1 ELSE 0
    BY <2>1, <2>2 DEF Ahead
  <2>4. /\ Count(shared, w) = Count(shared', w) + (IF Head(shared) = w THEN 1 ELSE 0)
        /\ Count(shared', w) \in Nat
    <3>1. shared \in Seq(-IdHalf .. IdHalf - 1) /\ shared' \in Seq(-IdHalf .. IdHalf - 1)
      BY <2>1, AnnouncedTypes, HeadTailProperties
    <3> QED BY <2>1, <3>1, CountTail, CountType
  <2>5. Count(shared', w) + Ahead(mpc', wid', w) = Count(shared, w) + Ahead(mpc, wid, w)
    BY <2>3, <2>4
  <2>6. Balanced(Count(shared, w) + Ahead(mpc, wid, w), toMain[w], wpc[w])
    BY <2>2, AnnouncedIs
  <2>7. toMain'[w] = toMain[w] /\ wpc'[w] = wpc[w]
    BY <2>1
  <2> QED BY <2>5, <2>6, <2>7
<1>3. CASE ReadResult
  <2>1. /\ mpc = "read_result" /\ wid' = wid /\ shared' = shared /\ wid \in Workers
        /\ toMain' = [toMain EXCEPT ![wid] = Tail(@)] /\ toMain[wid] # <<>> /\ wpc' = wpc
        /\ mpc' \in {"kill", "reap", "read_id"}
    BY <1>3 DEF ReadResult, IInv, PhaseInv
  <2>2. Listening(mpc) /\ Ahead(mpc', wid', w) = 0 /\ Ahead(mpc, wid, w) = IF wid = w THEN 1 ELSE 0
    BY <2>1 DEF Listening, Ahead
  <2>3. Len(toMain'[w]) = Len(toMain[w]) - Ahead(mpc, wid, w)
    <3>1. toMain[wid] \in Seq(Results)
      BY <2>1, AnnouncedTypes
    <3>2. Len(Tail(toMain[wid])) = Len(toMain[wid]) - 1
      BY <2>1, <3>1, HeadTailProperties
    <3>3. toMain'[w] = IF wid = w THEN Tail(toMain[wid]) ELSE toMain[w]
      BY <2>1, AnnouncedTypes
    <3> QED BY <2>2, <3>2, <3>3, AnnouncedTypes
  <2>4. Excess(Count(shared', w) + Ahead(mpc', wid', w), toMain'[w])
        = Excess(Count(shared, w) + Ahead(mpc, wid, w), toMain[w])
    <3>1. Count(shared', w) = Count(shared, w) /\ Count(shared, w) \in Nat /\ Len(toMain[w]) \in Nat
      BY <2>1, AnnouncedTypes
    <3>2. Ahead(mpc', wid', w) = 0 /\ Ahead(mpc, wid, w) \in Nat
      BY <2>2
    <3>3. Count(shared', w) + Ahead(mpc', wid', w) \in Nat /\ Count(shared, w) + Ahead(mpc, wid, w) \in Nat
      BY <3>1, <3>2
    <3> QED BY <2>3, <3>1, <3>2, <3>3 DEF Excess
  <2>5. Balanced(Count(shared, w) + Ahead(mpc, wid, w), toMain[w], wpc[w])
    BY <2>2, AnnouncedIs
  <2> QED BY <2>1, <2>4, <2>5 DEF Balanced
<1>4. CASE Reap
  <2>1. mpc = "reap" /\ mpc' \in {"read_id", "epilogue"} /\ UNCHANGED <<wpc, shared, toMain>>
    BY <1>4 DEF Reap
  <2>2. Listening(mpc) /\ Ahead(mpc', wid', w) = Ahead(mpc, wid, w)
    BY <2>1 DEF Listening, Ahead
  <2> QED BY <2>1, <2>2, AnnouncedIs
<1>5. CASE KillAll \/ Epilogue
  BY <1>5 DEF KillAll, Epilogue, Listening
<1> QED BY <1>1, <1>2, <1>3, <1>4, <1>5

LEMMA AnnouncedWorker ==
  ASSUME IdsFit, IInv, AnnouncedOnce, NEW w \in Workers, WorkerStep(w) \/ Crash(w)
  PROVE  AnnouncedOnce'
<1>1. UNCHANGED <<mpc, wid>>
  BY DEF WorkerStep, ReadJob, Announce, WriteResult, Crash, master
<1> SUFFICES ASSUME Listening(mpc), NEW v \in Workers
             PROVE  Balanced(Count(shared', v) + Ahead(mpc, wid, v), toMain'[v], wpc'[v])
  BY <1>1, AnnouncedNext
<1>2. /\ Excess(Count(shared, v) + Ahead(mpc, wid, v), toMain[v]) \in Allowed(wpc[v])
      /\ Count(shared, v) \in Nat /\ Len(toMain[v]) \in Nat /\ Ahead(mpc, wid, v) \in {0, 1}
  BY AnnouncedIs, AnnouncedTypes DEF Balanced, Ahead
<1>3. CASE ReadJob(w) \/ Crash(w)
  <2>1. PICK c \in {"exited", "busy", "crashed"} :
          /\ wpc' = [wpc EXCEPT ![w] = c] /\ UNCHANGED <<shared, toMain>>
          /\ c = "crashed" \/ wpc[w] = "waiting"
          /\ wpc[w] \in {"waiting", "busy", "writing"}
    BY <1>3 DEF ReadJob, Crash
  <2>2. Allowed(wpc[v]) \subseteq Allowed(wpc'[v])
    BY <2>1, AnnouncedTypes DEF Allowed
  <2> QED BY <1>2, <2>1, <2>2 DEF Balanced
<1>4. CASE Announce(w)
  <2>1. /\ wpc[w] = "busy" /\ toMain' = toMain /\ shared' = Append(shared, w)
        /\ wpc' = [wpc EXCEPT ![w] = "writing"]
    BY <1>4, CharFits DEF Announce
  <2> DEFINE Ids == -IdHalf .. IdHalf - 1
  <2>2. shared \in Seq(Ids) /\ w \in Ids
    BY AnnouncedTypes, CharType, CharFits
  <2> HIDE DEF Ids
  <2>3. Count(Append(shared, w), v) = Count(shared, v) + (IF w = v THEN 1 ELSE 0)
    BY <2>2, CountAppend
  <2>4. CASE v = w
    <3>1. Allowed(wpc[v]) = {0} /\ Allowed(wpc'[v]) = {1}
      BY <2>1, <2>4, AnnouncedTypes DEF Allowed
    <3>2. Excess(Count(shared', v) + Ahead(mpc, wid, v), toMain'[v])
          = Excess(Count(shared, v) + Ahead(mpc, wid, v), toMain[v]) + 1
      BY <1>2, <2>1, <2>3, <2>4 DEF Excess
    <3> QED BY <1>2, <3>1, <3>2 DEF Balanced
  <2>5. CASE v # w
    <3>1. wpc'[v] = wpc[v] /\ Count(shared', v) = Count(shared, v)
      BY <1>2, <2>1, <2>3, <2>5, AnnouncedTypes
    <3> QED BY <1>2, <2>1, <3>1 DEF Balanced
  <2> QED BY <2>4, <2>5
<1>5. CASE WriteResult(w)
  <2>1. /\ wpc[w] = "writing" /\ toMain' = [toMain EXCEPT ![w] = Append(@, ResultOf(job[w]))]
        /\ shared' = shared /\ wpc' = [wpc EXCEPT ![w] = "waiting"] /\ toMain[w] = <<>>
    BY <1>5 DEF WriteResult, IInv, WorkerInv, OneThing
  <2>2. CASE v = w
    <3>1. Allowed(wpc[v]) = {1} /\ Allowed(wpc'[v]) = {0}
      BY <2>1, <2>2, AnnouncedTypes DEF Allowed
    <3>2. Len(toMain'[v]) = 1 /\ Len(toMain[v]) = 0
      BY <2>1, <2>2, AnnouncedTypes
    <3>3. Excess(Count(shared', v) + Ahead(mpc, wid, v), toMain'[v])
          = Excess(Count(shared, v) + Ahead(mpc, wid, v), toMain[v]) - 1
      <4>1. Count(shared', v) = Count(shared, v)
        BY <2>1
      <4>2. Count(shared', v) + Ahead(mpc, wid, v) \in Nat
        BY <1>2, <4>1
      <4> QED BY <1>2, <3>2, <4>1, <4>2 DEF Excess
    <3> QED BY <1>2, <3>1, <3>3 DEF Balanced
  <2>3. CASE v # w
    <3>1. wpc'[v] = wpc[v] /\ toMain'[v] = toMain[v]
      BY <2>1, <2>3, AnnouncedTypes
    <3> QED BY <1>2, <2>1, <3>1 DEF Balanced
  <2> QED BY <2>2, <2>3
<1> QED BY <1>3, <1>4, <1>5 DEF WorkerStep

(***************************************************************************)
(* As long as ids fit into a char, the master never waits for a result     *)
(* that no worker announced, and never takes one for another's: whatever   *)
(* the order in which workers write to the shared pipe and to their own.   *)
(***************************************************************************)
THEOREM CompositionAnnouncedOnce ==
  ASSUME IdsFit
  PROVE  Spec => []AnnouncedOnce
<1>1. ASSUME Init
      PROVE  AnnouncedOnce
  <2>1. /\ mpc = "spawn" /\ shared = <<>> /\ toMain = [w \in Workers |-> <<>>]
        /\ wpc = [w \in Workers |-> "unborn"]
    BY <1>1 DEF Init
  <2>2. \A w \in Workers : Count(shared, w) = 0
    <3>1. \A w : {n \in DOMAIN shared : shared[n] = w} = {}
      BY <2>1
    <3> QED BY <3>1, FS_EmptySet DEF Count
  <2>3. \A w \in Workers : Len(toMain[w]) = 0 /\ Allowed(wpc[w]) = {0} /\ Ahead(mpc, wid, w) = 0
    BY <2>1 DEF Allowed, Ahead
  <2>4. \A w \in Workers : Balanced(Count(shared, w) + Ahead(mpc, wid, w), toMain[w], wpc[w])
    <3> SUFFICES ASSUME NEW w \in Workers
                 PROVE  Excess(Count(shared, w) + Ahead(mpc, wid, w), toMain[w]) \in Allowed(wpc[w])
      BY DEF Balanced
    <3>1. Excess(Count(shared, w) + Ahead(mpc, wid, w), toMain[w]) = 0
      BY <2>2, <2>3 DEF Excess
    <3> QED BY <2>3, <3>1
  <2> QED BY <2>4, AnnouncedIs
<1>2. ASSUME IInv, AnnouncedOnce, [Next]_vars
      PROVE  AnnouncedOnce'
  <2>1. CASE MasterStep
    BY <1>2, <2>1, AnnouncedMaster DEF MasterStep
  <2>2. ASSUME NEW w \in Workers, WorkerStep(w) \/ Crash(w)
        PROVE  AnnouncedOnce'
    BY <1>2, <2>2, AnnouncedWorker
  <2>3. CASE UNCHANGED vars
    BY <1>2, <2>3, AnnouncedIs, AnnouncedNext DEF vars
  <2> QED BY <1>2, <2>1, <2>2, <2>3 DEF Next, Finished, Hung
<1>3. Init => AnnouncedOnce
  BY <1>1
<1>4. IInv /\ AnnouncedOnce /\ [Next]_vars => AnnouncedOnce'
  BY <1>2
<1> QED BY <1>3, <1>4, CompositionInv, PTL DEF Spec
==============================================================================
