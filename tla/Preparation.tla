----------------------------- MODULE Preparation -----------------------------
(***************************************************************************)
(* What happens to an automaton between its translation and the solver:    *)
(*   push_outputs        (to check unrealizability) an output is read one  *)
(*                       step later, and inputs and outputs swap roles     *)
(*   surely_losing       states from which the controller cannot keep K    *)
(*                       become sinks; what they led to is purged          *)
(*   forward_saturation  states whose counter is bounded are numbered      *)
(*                       last and stop counting                            *)
(*   ios_precomputers    letters are grouped into actions                  *)
(*                                                                         *)
(* States are numbers: 0 .. size - 1.  An automaton is a record            *)
(* [size, edges, acc, init] with edges <<p, cond, q>>; acceptance is state *)
(* based.                                                                  *)
(***************************************************************************)
EXTENDS IOsPrecomputers

CONSTANTS
  Inputs, Outputs,
  K,           \* opt_K, the largest K
  Automata,    \* the automata a translation may give
  Unreal,      \* those of them that come with --unreal-x=automaton
  Invariants,  \* sets of letters
  TopK         \* bound: the largest K a property looks at

Letters == Inputs \X Outputs

IsTranslation(a, letters) ==
  /\ a.size \in Nat \ {0} /\ a.init \in 0 .. a.size - 1 /\ a.acc \subseteq 0 .. a.size - 1
  /\ a.edges \subseteq (0 .. a.size - 1) \X (SUBSET letters) \X (0 .. a.size - 1)

ASSUME PreparationAssumption ==
  /\ IsFiniteSet(Inputs) /\ IsFiniteSet(Outputs)
  /\ K \in Nat \ {0} /\ TopK \in Nat \ {0}
  /\ \A a \in Automata \cup Unreal : IsTranslation(a, Letters)
  /\ \A a \in Automata : K + Cardinality(a.acc) =< TopK
  /\ Invariants \subseteq SUBSET Letters

VARIABLES
  given,      \* the automaton that was translated
  start,      \* the automaton to be preprocessed
  aut,        \* the automaton now
  cache,      \* of push_outputs: cache[s + 1] is <<state, saved outputs>> of state s
  swapped,    \* unrealizability is checked: inputs and outputs have swapped roles
  to_treat,   \* of push_outputs: the stack of states that have no edges yet
  pc,         \* "translated", "pushing", "losing", "saturation", "ios", "nogame", "done"
  q, c, changed,      \* the loop over states: the next one, counters, has_changed
  nunbounded,
  bool_threshold,
  allowed,            \* the letters the IOs precomputer was given
  actions             \* input_output_fwd_actions: pairs <<inputs, list>>

origin == <<given, start, cache, to_treat, swapped>>
loop == <<q, c, changed, nunbounded>>
vars == <<origin, aut, pc, loop, bool_threshold, allowed, actions>>

In == IF swapped THEN Outputs ELSE Inputs
Out == IF swapped THEN Inputs ELSE Outputs

StatesOf(a) == 0 .. a.size - 1
Acc(s) == IF s \in aut.acc THEN 1 ELSE 0
Least(x, y) == IF x =< y THEN x ELSE y

(* Both loops start from the initial counters of surely_losing. *)
Enter(a) ==
  /\ aut' = a /\ start' = a
  /\ c' = [s \in StatesOf(a) |-> IF s \in a.acc THEN 1 ELSE 0]
  /\ q' = 0 /\ changed' = FALSE /\ pc' = "losing"
  /\ UNCHANGED <<given, cache, to_treat, swapped, nunbounded, bool_threshold, allowed, actions>>

Keep == pc = "translated" /\ Enter(given)

-----------------------------------------------------------------------------
(***************************************************************************)
(* push_outputs.  A state <<s, saved>> still has to check that the output  *)
(* it reads is in saved; each edge of s and each input give a successor    *)
(* that saves the outputs of the condition.                                *)
(***************************************************************************)
OutputsWith(cond, i) == {l[2] : l \in {l \in cond : l[1] = i}}

Steps(a, s) ==
  UNION {{<<i, <<e[3], OutputsWith(e[2], i)>>>> : i \in InputsOf(e[2])} : e \in {e \in a.edges : e[1] = s}}

(* Mutant of PushedEdge: the saved outputs are not checked. *)
PushedEdgeUnchecked(n, saved, i, r) == <<n, Outputs \X {i}, r>>

PushedEdge(n, saved, i, r) == <<n, saved \X {i}, r>>

(* The initial state of the new automaton has nothing to check. *)
StartPushing ==
  /\ cache = <<<<given.init, Outputs>>>> /\ to_treat = <<0>>
  /\ aut = [size |-> 1, edges |-> {}, init |-> 0, acc |-> IF given.init \in given.acc THEN {0} ELSE {}]

(***************************************************************************)
(* A turn of the while loop takes the state on top of the stack: pairs     *)
(* that are new are numbered when they are found, and put on the stack.    *)
(***************************************************************************)
PushState ==
  /\ pc = "pushing" /\ to_treat # << >>
  /\ LET n == Last(to_treat)
         saved == cache[n + 1][2]
         steps == Steps(given, cache[n + 1][1])
         found == cache \o SetToSeq({x[2] : x \in steps} \ ToSet(cache))
         Number(pair) == (CHOOSE m \in DOMAIN found : found[m] = pair) - 1
     IN  /\ cache' = found
         /\ to_treat' = Front(to_treat) \o [m \in 1 .. Len(found) - Len(cache) |-> Len(cache) + m - 1]
         /\ aut' = [size  |-> Len(found), init |-> 0,
                    acc   |-> {m - 1 : m \in {m \in DOMAIN found : found[m][1] \in given.acc}},
                    edges |-> aut.edges \cup {PushedEdge(n, saved, x[1], Number(x[2])) : x \in steps}]
  /\ UNCHANGED <<given, start, swapped, pc, loop, bool_threshold, allowed, actions>>

Pushed == pc = "pushing" /\ to_treat = << >> /\ Enter(aut)

-----------------------------------------------------------------------------
(***************************************************************************)
(* surely_losing.  compute_isuccs cuts the inputs by the edges of a state  *)
(* and keeps the cells on which some edge can be taken for every output.   *)
(***************************************************************************)
OutEdges(s) == {<<e[2], <<e[2], e[3]>>>> : e \in {e \in aut.edges : e[1] = s}}

Covers(input, trans) ==
  UNION {{l[2] : l \in {l \in t[1] : l[1] \in input}} : t \in trans} = Out

Isuccs(s) ==
  {cell[2] : cell \in {cell \in Power(OutEdges(s), InputsOf, In) : Covers(cell[1], cell[2])}}

(* max over inputs, min over outputs. *)
Worst(s) ==
  LET Best(trans) == Min({K + 1} \cup {c[t[2]] : t \in trans})
  IN  Max({0} \cup {Best(trans) : trans \in Isuccs(s)}) + Acc(s)

LosingState ==
  /\ pc = "losing" /\ q < aut.size
  /\ IF c[q] > K \/ c[q] = Worst(q) THEN UNCHANGED <<c, changed>>
     ELSE c' = [c EXCEPT ![q] = Worst(q)] /\ changed' = TRUE
  /\ q' = q + 1
  /\ UNCHANGED <<origin, aut, pc, nunbounded, bool_threshold, allowed, actions>>

(* Mutant of NextRound: "changed" is not cleared. *)
NextRoundKeepsChanged ==
  /\ pc \in {"losing", "saturation"} /\ q = aut.size /\ changed
  /\ q' = 0
  /\ UNCHANGED <<origin, aut, pc, c, changed, nunbounded, bool_threshold, allowed, actions>>

(* The while loop of either algorithm starts another round. *)
NextRound ==
  /\ pc \in {"losing", "saturation"} /\ q = aut.size /\ changed
  /\ q' = 0 /\ changed' = FALSE
  /\ UNCHANGED <<origin, aut, pc, c, nunbounded, bool_threshold, allowed, actions>>

(* The least set of states that contains the initial one and is closed under edges. *)
Reachable(edges, init) ==
  {s \in StatesOf(aut) :
     \A W \in SUBSET StatesOf(aut) :
       init \in W /\ (\A e \in edges : e[1] \in W => e[3] \in W) => s \in W}

(* purge_dead_states, purge_unreachable_states: the rest keeps its order. *)
Purged(edges, acc) ==
  LET R == Reachable(edges, aut.init)
      New(s) == Cardinality({r \in R : r < s})
  IN  [size |-> Cardinality(R), init |-> New(aut.init), acc |-> {New(s) : s \in acc \cap R},
       edges |-> {<<New(e[1]), e[2], New(e[3])>> : e \in {e \in edges : e[1] \in R}}]

(* Mutant of Losing: K is still allowed. *)
LosingAtK == {s \in StatesOf(aut) : c[s] >= K}

Losing == {s \in StatesOf(aut) : c[s] > K}

(***************************************************************************)
(* Losing states become accepting sinks.  Then the other loop is set up:   *)
(* the initial state starts from 1 when it is accepting.                   *)
(***************************************************************************)
Flush ==
  /\ pc = "losing" /\ q = aut.size /\ ~changed
  /\ aut' = IF Losing = {} THEN aut
            ELSE Purged({e \in aut.edges : e[1] \notin Losing}
                          \cup {<<s, In \X Out, s>> : s \in Losing},
                        aut.acc \cup Losing)
  /\ c' = [s \in StatesOf(aut') |-> IF s = aut'.init /\ s \in aut'.acc THEN 1 ELSE 0]
  /\ nunbounded' = 0
  /\ q' = 0 /\ changed' = FALSE /\ pc' = "saturation"
  /\ UNCHANGED <<origin, bool_threshold, allowed, actions>>

-----------------------------------------------------------------------------
(***************************************************************************)
(* forward_saturation: no run of a bounded state sees more accepting       *)
(* states than there are, so that a larger number means a loop.            *)
(***************************************************************************)
(* Mutant of Saturated: one too low. *)
SaturatedEarly == Cardinality(aut.acc)

Saturated == Cardinality(aut.acc) + 1

SaturateState ==
  LET count == Least(Saturated, c[q] + Acc(q))
      raised == {e[3] : e \in {e \in aut.edges : e[1] = q /\ c[e[3]] < count}}
  IN  /\ pc = "saturation" /\ q < aut.size
      /\ c' = [s \in StatesOf(aut) |-> IF s \in raised THEN count ELSE c[s]]
      /\ nunbounded' = nunbounded + (IF count = Saturated THEN Cardinality(raised) ELSE 0)
      /\ changed' = (changed \/ raised # {})
      /\ q' = q + 1
      /\ UNCHANGED <<origin, aut, pc, bool_threshold, allowed, actions>>

Unbounded == {s \in StatesOf(aut) : c[s] > Cardinality(aut.acc)}

(* Mutant of Rename: bounded states are numbered from one on. *)
RenameFromOne(s) ==
  IF s \in Unbounded THEN Cardinality({r \in Unbounded : r < s})
  ELSE nunbounded + Cardinality({r \in StatesOf(aut) \ Unbounded : r =< s})

Rename(s) ==
  IF s \in Unbounded THEN Cardinality({r \in Unbounded : r < s})
  ELSE nunbounded + Cardinality({r \in StatesOf(aut) \ Unbounded : r < s})

(* Bounded states lose their acceptance marks and are numbered last. *)
RenameStates ==
  /\ pc = "saturation" /\ q = aut.size /\ ~changed
  /\ aut' = [size  |-> aut.size, init |-> Rename(aut.init),
             acc   |-> {Rename(s) : s \in aut.acc \cap Unbounded},
             edges |-> {<<Rename(e[1]), e[2], Rename(e[3])>> : e \in aut.edges}]
  /\ bool_threshold' = nunbounded
  /\ pc' = "ios"
  /\ UNCHANGED <<origin, loop, allowed, actions>>

-----------------------------------------------------------------------------
(* Unrealizability, and no counter is left: there is no game to solve. *)
OnlyBoolean == swapped /\ bool_threshold = 0

NoGame ==
  /\ pc = "ios" /\ OnlyBoolean
  /\ pc' = "nogame"
  /\ UNCHANGED <<origin, aut, loop, bool_threshold, allowed, actions>>

(* What the build's IOs precomputer and actioner make of it. *)
Precompute(letters, ioset) ==
  /\ pc = "ios" /\ ~OnlyBoolean
  /\ allowed' = letters /\ actions' = ioset
  /\ pc' = "done"
  /\ UNCHANGED <<origin, aut, loop, bool_threshold>>

PrecomputeIOs ==
  \/ \E inv \in IF swapped THEN {In \X Out} ELSE Invariants :
       Precompute(inv, Standard(aut.edges, In, Out, inv))
  \/ Precompute(In \X Out, InsertCells(Powset(aut.edges, In, Out)))
  \/ Precompute(In \X Out, InsertCells(FakeVars(aut.edges, In, Out)))
  \/ Precompute(In \X Out, Delegate(aut.edges, In, Out))

Init ==
  /\ \/ /\ swapped = FALSE /\ given \in Automata /\ pc = "translated"
        /\ aut = given /\ cache = << >> /\ to_treat = << >>
     \/ /\ swapped = TRUE /\ given \in Unreal /\ pc = "pushing"
        /\ StartPushing
  /\ start = aut
  /\ q = 0 /\ changed = FALSE /\ c = << >>
  /\ nunbounded = 0 /\ bool_threshold = 0 /\ allowed = {} /\ actions = {}

Done == pc \in {"nogame", "done"} /\ UNCHANGED vars

Loops == Keep \/ PushState \/ Pushed \/ LosingState \/ NextRound \/ Flush \/ SaturateState
         \/ RenameStates

Step == Loops \/ NoGame \/ PrecomputeIOs

Next == Step \/ Done

Spec == Init /\ [][Next]_vars

FairSpec == Spec /\ WF_vars(Loops)

-----------------------------------------------------------------------------

TypeOK ==
  /\ IsTranslation(aut, In \X Out)
  /\ swapped \in BOOLEAN
  /\ pc \in {"translated", "pushing", "losing", "saturation", "ios", "nogame", "done"}
  /\ pc = "pushing" => Range(to_treat) \subseteq StatesOf(aut)
  /\ pc = "losing" => q \in 0 .. aut.size /\ c \in [StatesOf(aut) -> 0 .. K + 2]
  /\ pc = "saturation" => q \in 0 .. aut.size /\ c \in [StatesOf(aut) -> 0 .. Saturated]
  /\ changed \in BOOLEAN /\ nunbounded \in 0 .. aut.size /\ bool_threshold \in 0 .. aut.size
  /\ allowed \subseteq In \X Out

(***************************************************************************)
(* While forward_saturation runs, nunbounded counts every unbounded state  *)
(* once (the assertion after its loop).  What it leaves is what the solver *)
(* and the bit vectors of boolean states rely on: no accepting state and   *)
(* no successor of a counter is boolean.                                   *)
(***************************************************************************)
ThresholdShape ==
  /\ pc = "saturation" => nunbounded = Cardinality(Unbounded)
  /\ pc \in {"ios", "nogame", "done"} =>
       /\ aut.acc \subseteq 0 .. bool_threshold - 1
       /\ \A e \in aut.edges : e[1] < bool_threshold => e[3] < bool_threshold

(***************************************************************************)
(* Every input is represented by an entry that lists exactly the sets of   *)
(* transitions its allowed outputs give, whichever precomputer made it.    *)
(***************************************************************************)
ActionsComplete ==
  pc = "done" =>
    /\ \A i \in In :
         LET answers == {o \in Out : <<i, o>> \in allowed}
         IN  \E x \in actions : ToSet(x[2]) = {TransSet(aut.edges, <<i, o>>) : o \in answers}
    /\ \A x \in actions : \A i \in x[1] :
         ToSet(x[2]) = {TransSet(aut.edges, <<i, o>>) : o \in {o \in Out : <<i, o>> \in allowed}}

(***************************************************************************)
(* The loops stop: there are finitely many pairs to treat, and counters    *)
(* only grow, up to their bounds.                                          *)
(***************************************************************************)
Termination == <>(pc \in {"ios", "nogame", "done"})
=============================================================================
