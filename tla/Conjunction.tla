----------------------------- MODULE Conjunction -----------------------------
(***************************************************************************)
(* What composition_mt::run promises: it decides the conjunction of all    *)
(* formulas while it only ever looks at pieces of it.  The formulas are    *)
(* partitioned into blocks, each of which is a game or the invariant.      *)
(* Blocks are joined and never split or dropped; the search ends early     *)
(* only when some blocks cannot be realized together, otherwise when one   *)
(* game and the invariant are left.  Module Composition implements this.   *)
(***************************************************************************)
EXTENDS Integers, FiniteSets

CONSTANT Formulas

VARIABLES
  realizable,  \* which sets of formulas can be realized together; never changes
  blocks,      \* the partition, {} once it is known that the answer is no
  worker_lost, \* a worker died: the answer may never come
  verdict      \* 0, 1, or -1 while there is none

vars == <<realizable, blocks, worker_lost, verdict>>

Init ==
  /\ realizable \subseteq SUBSET Formulas
  /\ \A S \in realizable : SUBSET S \subseteq realizable
  /\ blocks = {{f} : f \in Formulas}
  /\ worker_lost = FALSE
  /\ verdict = -1

Join ==
  /\ verdict = -1
  /\ \E S \in (SUBSET blocks) \ {{}} : blocks' = (blocks \ S) \cup {UNION S}
  /\ UNCHANGED <<realizable, worker_lost, verdict>>

(* Some blocks are found to be unrealizable together. *)
Lose ==
  /\ verdict = -1
  /\ \E S \in SUBSET blocks : UNION S \notin realizable
  /\ blocks' = {}
  /\ UNCHANGED <<realizable, worker_lost, verdict>>

Decide ==
  /\ verdict = -1
  /\ Cardinality(blocks) =< 2
  /\ verdict' = IF Formulas \in realizable THEN 1 ELSE 0
  /\ UNCHANGED <<realizable, blocks, worker_lost>>

LoseWorker ==
  /\ worker_lost' = TRUE
  /\ UNCHANGED <<realizable, blocks, verdict>>

Next == Join \/ Lose \/ Decide \/ LoseWorker

Spec == Init /\ [][Next]_vars

(* The answer comes, unless a worker is lost. *)
AnswerComes == <>(verdict # -1 \/ worker_lost)
=============================================================================
