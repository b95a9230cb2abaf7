-------------------------------- MODULE Merge --------------------------------
(***************************************************************************)
(* composition.hh: two solved games are merged into one whose plays should *)
(* be pairs of plays.  merge_aut copies the states of src behind those of  *)
(* dest, with a new initial state in between, moves the boolean states to  *)
(* the end and lets Spot purge the states that cannot be reached;          *)
(* merge_saferegions combines every vector of the one region with every    *)
(* vector of the other, through the same renaming.                         *)
(*                                                                         *)
(* The specification plays the two games and the merged one with the same  *)
(* letters.  States are numbers, as in the code, since the numbering is    *)
(* what can go wrong.  A safe region is the set of its maximal elements.   *)
(***************************************************************************)
EXTENDS Integers, FiniteSets

CONSTANTS
  Inputs, Outputs,
  K,       \* the one K of a composition (opt_Kinc is 0)
  Pairs    \* the pairs <<dest, src>> of solved games considered

(***************************************************************************)
(* A safety_game: aut->num_states(), its edges and initial and accepting   *)
(* states, bool_threshold, and the elements of the safe region.            *)
(***************************************************************************)
StatesOf(g) == 0 .. g.size - 1

Game(g) == INSTANCE KBoundedGame
             WITH States <- StatesOf(g), NonBool <- 0 .. g.bool_threshold - 1,
                  Automata <- {}, TopK <- K

IsGame(g) ==
  /\ g.size \in Nat \ {0} /\ g.bool_threshold \in 0 .. g.size /\ g.init \in StatesOf(g)
  /\ g.edge \subseteq StatesOf(g) \X Inputs \X Outputs \X StatesOf(g)
  /\ g.acc \subseteq 0 .. g.bool_threshold - 1
  /\ g.safe \subseteq Game(g)!Vectors

(***************************************************************************)
(* forward_saturation: the states in which a counter may grow have one,    *)
(* and so have all that follow them.                                       *)
(***************************************************************************)
Growing(g, C) ==
  /\ C \subseteq 0 .. g.bool_threshold - 1
  /\ \A e \in g.edge : e[4] \in g.acc \/ e[1] \in C => e[4] \in C

Saturated(g) == \E C \in SUBSET (0 .. g.bool_threshold - 1) : Growing(g, C)

Contains(g, v) == \E m \in g.safe : Game(g)!Leq(v, m)

Initial(g) == [q \in StatesOf(g) |-> IF q = g.init THEN 0 ELSE -1]

(***************************************************************************)
(* Only games that were solved are merged, and solved means that the       *)
(* initial vector is in the safe region.                                   *)
(***************************************************************************)
IsSolved(g) == IsGame(g) /\ Saturated(g) /\ Contains(g, Initial(g))

ASSUME MergeAssumption ==
  /\ K \in Nat \ {0}
  /\ \A p \in Pairs : IsSolved(p[1]) /\ IsSolved(p[2])

-----------------------------------------------------------------------------
(***************************************************************************)
(* merge_aut.  new_init has the edges of both initial states.  It counts   *)
(* as accepting when one of them does, but nothing leads to it.            *)
(***************************************************************************)
NewInit(dest) == dest.size

Offset(dest) == dest.size + 1

MergedSize(dest, src) == dest.size + src.size + 1

(* Mutant of AllEdges: new_init has no edge of src's initial state. *)
AllEdgesOfDest(dest, src) ==
  LET fromSrc == {<<e[1] + Offset(dest), e[2], e[3], e[4] + Offset(dest)>> : e \in src.edge}
  IN  dest.edge \cup fromSrc
      \cup {<<NewInit(dest), e[2], e[3], e[4]>> : e \in {e \in dest.edge : e[1] = dest.init}}

AllEdges(dest, src) ==
  LET fromSrc == {<<e[1] + Offset(dest), e[2], e[3], e[4] + Offset(dest)>> : e \in src.edge}
      initial == {dest.init, src.init + Offset(dest)}
  IN  dest.edge \cup fromSrc
      \cup {<<NewInit(dest), e[2], e[3], e[4]>> : e \in {e \in dest.edge \cup fromSrc : e[1] \in initial}}

AllAccepting(dest, src) ==
  dest.acc \cup {q + Offset(dest) : q \in src.acc}
  \cup {s \in {NewInit(dest)} : dest.init \in dest.acc \/ src.init \in src.acc}

(* States with a counter, new_init among them; they are numbered first. *)
HasCounter(dest, src, s) ==
  \/ s < dest.bool_threshold
  \/ s \in NewInit(dest) .. NewInit(dest) + src.bool_threshold

Rename(dest, src) ==
  LET All == 0 .. MergedSize(dest, src) - 1
      Before(t, s) == IF HasCounter(dest, src, t) = HasCounter(dest, src, s)
                      THEN t < s ELSE HasCounter(dest, src, t)
  IN  [s \in All |-> Cardinality({t \in All : Before(t, s)})]

Renamed(edges, r) == {<<r[e[1]], e[2], e[3], r[e[4]]>> : e \in edges}

(* purge_unreachable_states: what is left keeps its order; -1 for the rest. *)
Reachable(edges, init, size) ==
  LET Within[n \in Nat] ==
        IF n = 0 THEN {init}
        ELSE LET W == Within[n - 1] IN W \cup {e[4] : e \in {e \in edges : e[1] \in W}}
  IN  Within[size]

Purge(edges, init, size) ==
  LET R == Reachable(edges, init, size)
  IN  [s \in 0 .. size - 1 |-> IF s \in R THEN Cardinality({t \in R : t < s}) ELSE -1]

(* Mutant of Threshold: removed states are not taken into account. *)
ThresholdIgnoresPurge(dest, src, rename, rename2) == dest.bool_threshold + src.bool_threshold + 1

(***************************************************************************)
(* dest.bool_threshold is decremented for every removed state that is      *)
(* below the threshold, as it is at that moment.                           *)
(***************************************************************************)
Threshold(dest, src, rename, rename2) ==
  LET After[s \in 0 .. MergedSize(dest, src)] ==
        IF s = 0 THEN dest.bool_threshold + src.bool_threshold + 1
        ELSE LET now == After[s - 1]
             IN  IF rename2[rename[s - 1]] = -1 /\ rename[s - 1] < now THEN now - 1 ELSE now
  IN  After[MergedSize(dest, src)]

(* Mutants of Combine: new_init is not counted in the offset, or gets no run. *)
CombineShifted(m1, m2, rename, size) ==
  [q \in 0 .. size - 1 |->
     LET s == CHOOSE s \in DOMAIN rename : rename[s] = q
         n == Cardinality(DOMAIN m1)
     IN  CASE s \in DOMAIN m1 -> m1[s]
           [] s - n \in DOMAIN m2 -> m2[s - n]
           [] OTHER -> 0]

CombineInitLost(m1, m2, rename, size) ==
  [q \in 0 .. size - 1 |->
     LET s == CHOOSE s \in DOMAIN rename : rename[s] = q
         n == Cardinality(DOMAIN m1)
     IN  CASE s < n -> m1[s]
           [] s = n -> -1
           [] s > n -> m2[s - n - 1]]

(* combine_vectors: the new initial state, which neither vector gives, is 0. *)
Combine(m1, m2, rename, size) ==
  [q \in 0 .. size - 1 |->
     LET s == CHOOSE s \in DOMAIN rename : rename[s] = q
         n == Cardinality(DOMAIN m1)
     IN  CASE s < n -> m1[s]
           [] s = n -> 0
           [] s > n -> m2[s - n - 1]]

(* merge_aut, then merge_saferegions; rename is kept by the composition object. *)
MergeGames(dest, src) ==
  LET all     == MergedSize(dest, src)
      rename  == Rename(dest, src)
      edges   == Renamed(AllEdges(dest, src), rename)
      rename2 == Purge(edges, rename[NewInit(dest)], all)
      both    == [s \in 0 .. all - 1 |-> rename2[rename[s]]]
      left    == {q \in 0 .. all - 1 : rename2[q] # -1}
      size    == Cardinality(left)
  IN  [size  |-> size,
       init  |-> both[NewInit(dest)],
       edge  |-> Renamed({e \in edges : e[1] \in left}, rename2),
       acc   |-> {both[s] : s \in AllAccepting(dest, src)} \ {-1},
       bool_threshold |-> Threshold(dest, src, rename, rename2),
       safe  |-> {Combine(m1, m2, both, size) : m1 \in dest.safe, m2 \in src.safe},
       rename |-> both]

-----------------------------------------------------------------------------
VARIABLES
  dest, src, merged,  \* the games
  v1, v2, v           \* where a play of each is

vars == <<dest, src, merged, v1, v2, v>>

Init ==
  /\ \E p \in Pairs : dest = p[1] /\ src = p[2]
  /\ merged = MergeGames(dest, src)
  /\ v1 = Initial(dest) /\ v2 = Initial(src) /\ v = Initial(merged)

Forward(g, x, i, o) == Game(g)!Forward(g, x, i, o, K)

Play(i, o) ==
  /\ v1' = Forward(dest, v1, i, o)
  /\ v2' = Forward(src, v2, i, o)
  /\ v' = Forward(merged, v, i, o)
  /\ UNCHANGED <<dest, src, merged>>

Next == \E i \in Inputs, o \in Outputs : Play(i, o)

Spec == Init /\ [][Next]_vars

-----------------------------------------------------------------------------

(***************************************************************************)
(* After the first letter a position of the merged game is the positions   *)
(* of the two games side by side: every state of theirs has its counter in *)
(* the merged vector, and only states without a run have been purged.      *)
(***************************************************************************)
SideBySide(x, shift) ==
  \A s \in DOMAIN x :
    LET q == merged.rename[s + shift] IN IF q = -1 THEN x[s] = -1 ELSE v[q] = x[s]

Lockstep ==
  v # Initial(merged) =>
    SideBySide(v1, 0) /\ SideBySide(v2, Offset(dest)) /\ v[merged.init] = -1

(***************************************************************************)
(* A play is in the merged region exactly as long as both games are in     *)
(* theirs: the solver starts from the product of what was solved.          *)
(***************************************************************************)
RegionIsProduct ==
  Contains(merged, v) <=> Contains(dest, v1) /\ Contains(src, v2)
=============================================================================
