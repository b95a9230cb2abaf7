---------------------------- MODULE KBoundedGame ----------------------------
(***************************************************************************)
(* The safety game S^K_N that acacia-bonsai solves for a universal         *)
(* co-Buechi automaton (UcB) N, without the algorithm that solves it.      *)
(*                                                                         *)
(* A position of the game is a vector that gives, for every state of N,    *)
(* how many accepting states the worst run ending there has seen, or -1    *)
(* when no run ends there.  A vector is safe for K when no counter has     *)
(* reached K.  Environment picks an input, the controller answers with an  *)
(* output, and the actioner computes the successor vector.                 *)
(*                                                                         *)
(* The posets library (outside src/) stores downward closed sets of        *)
(* vectors by their maximal elements.  Here such a downset is the set of   *)
(* vectors it contains, so contains(), union_with() and intersect_with()   *)
(* are \in, \cup and \cap, and a downset built from elements is Down of    *)
(* these elements.                                                         *)
(***************************************************************************)
EXTENDS Integers, FiniteSetsExt

CONSTANTS
  States,    \* states of the automaton
  NonBool,   \* the states below bool_threshold: those with a real counter
  Inputs,    \* input letters, up to the equality of their action lists
  Outputs,   \* output letters
  Automata,  \* the automata considered, see IsAutomaton
  TopK       \* bound: the largest K any run of the solver reaches

(***************************************************************************)
(* An automaton after boolean_states has renamed it, with the invariant    *)
(* the IOs precomputer is given:                                           *)
(*   edge     p -> q when reading input i and output o                     *)
(*   acc      the accepting states                                         *)
(*   allowed  the letters <<i, o>> that satisfy the invariant              *)
(*   init     the vector of the initial configuration                      *)
(*   start    the safe region the game carries when it is to be solved     *)
(* forward_saturation makes boolean states non accepting, and the counter  *)
(* it saturates never decreases along an edge, so that no edge leads from  *)
(* a non-boolean state to a boolean one.                                   *)
(***************************************************************************)
Values == -1 .. TopK

Vectors == {v \in [States -> Values] : \A b \in States \ NonBool : v[b] =< 0}

IsAutomaton(a) ==
  /\ a.edge \subseteq States \X Inputs \X Outputs \X States
  /\ a.acc \subseteq NonBool
  /\ a.allowed \subseteq Inputs \X Outputs
  /\ a.init \in Vectors
  /\ a.start \subseteq Vectors
  /\ \A e \in a.edge : e[1] \in NonBool => e[4] \in NonBool

ASSUME GameAssumption ==
  /\ NonBool \subseteq States
  /\ TopK \in Nat \ {0}
  /\ \A a \in Automata : IsAutomaton(a)

(***************************************************************************)
(* The partial order on vectors and the downsets it gives.                 *)
(***************************************************************************)
Leq(v, w) == \A q \in States : v[q] =< w[q]

Down(S) == {v \in Vectors : \E m \in S : Leq(v, m)}

Bottom == [q \in States |-> -1]

(***************************************************************************)
(* The vector with counter x in every state that has one (backward_reset   *)
(* of the actioner, all_k of prepare_formula), and the vectors that are    *)
(* safe for k.                                                             *)
(***************************************************************************)
Uniform(x) == [q \in States |-> IF q \in NonBool THEN x ELSE 0]

Safe(k) == Down({Uniform(k - 1)})

(***************************************************************************)
(* actioner.apply, forward: the successor of v, counters capped at k.  A   *)
(* boolean state holds one bit, so whatever is computed for it reads back  *)
(* as -1 or 0.                                                             *)
(***************************************************************************)
Count(a, p) == IF p \in a.acc THEN 1 ELSE 0

ActivePreds(a, v, i, o, p) == {q \in States : v[q] # -1 /\ <<q, i, o, p>> \in a.edge}

Capped(k, x) == IF x =< k THEN x ELSE k

Stored(p, x) == IF p \in NonBool \/ x =< 0 THEN x ELSE 0

Forward(a, v, i, o, k) ==
  [p \in States |->
     Stored(p, Max({-1} \cup {Capped(k, v[q] + Count(a, p)) : q \in ActivePreds(a, v, i, o, p)}))]

(***************************************************************************)
(* actioner.apply, backward: the largest vector, among those below reset,  *)
(* whose successor is below m.                                             *)
(***************************************************************************)
AtLeastMinus1(x) == IF x >= -1 THEN x ELSE -1

Succs(a, q, i, o) == {p \in States : <<q, i, o, p>> \in a.edge}

Backward(a, m, i, o, reset) ==
  [q \in States |->
     Min({reset[q]} \cup {AtLeastMinus1(m[p] - Count(a, p)) : p \in Succs(a, q, i, o)})]

(***************************************************************************)
(* The outputs the IOs precomputer enumerates for an input.                *)
(***************************************************************************)
Answers(a, i) == {o \in Outputs : <<i, o>> \in a.allowed}

(***************************************************************************)
(* The configuration solve starts from without --init: one run, in the     *)
(* initial state of the automaton, that has seen no accepting state.       *)
(***************************************************************************)
DefaultInit(a) ==
  \E s \in States : a.init = [q \in States |-> IF q = s THEN 0 ELSE -1]

(***************************************************************************)
(* The winning region: from a controlled set the controller can answer     *)
(* every input without leaving the set; the winning region is the union of *)
(* the controlled sets of safe vectors.                                    *)
(***************************************************************************)
Controlled(a, W, k) ==
  \A v \in W, i \in Inputs : \E o \in Answers(a, i) : Forward(a, v, i, o, k) \in W

WinRegion(a, k) == UNION {W \in SUBSET Safe(k) : Controlled(a, W, k)}

(***************************************************************************)
(* The controller wins the game for K from the initial configuration.      *)
(***************************************************************************)
Winning(a, k) == a.init \in WinRegion(a, k)
=============================================================================
