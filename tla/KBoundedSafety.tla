--------------------------- MODULE KBoundedSafety ---------------------------
(***************************************************************************)
(* k_bounded_safety_aut::solve (src/src/k-bounded_safety_aut.hh): the      *)
(* backward fixpoint over downsets that decides S^K_N for growing K.  One  *)
(* step of the specification is one turn of the do-while loop: the input   *)
(* picker looks for an input that witnesses a one-step loss, cpre_inplace  *)
(* shrinks F for that input, and if the initial configuration dropped out  *)
(* of F the loop gives up or raises K.                                     *)
(*                                                                         *)
(* The input pickers (critical, critical_pq, critical_rnd,                 *)
(* critical_fullrnd) differ only in which witness they return: the model   *)
(* allows any of them.  InputPickers is the same loop in detail.           *)
(***************************************************************************)
EXTENDS KBoundedGame

CONSTANTS
  Kfrom, Kto, Kinc,  \* what main() leaves of --Kmin, -K and --Kinc
  EltHalf            \* VECTOR_ELT_T holds -EltHalf .. EltHalf-1 (128: a char)

ASSUME KAssumption ==
  /\ Kfrom \in Nat \ {0} /\ Kto \in Nat /\ Kinc \in Nat
  /\ EltHalf \in Nat \ {0}
  /\ Kfrom =< Kto
  /\ Kfrom < Kto => Kinc > 0
  /\ TopK >= Kto
  /\ Kfrom < Kto => TopK >= Kto + Kinc - 1

VARIABLES
  aut,    \* the automaton and invariant being solved; never changes
  K,      \* current K
  F,      \* current downset
  result  \* "running", "region" (solve returned F) or "nullopt"

vars == <<aut, K, F, result>>

(***************************************************************************)
(* Conversion of an int to VECTOR_ELT_T (two's complement).                *)
(***************************************************************************)
Elt(x) == ((x + EltHalf) % (2 * EltHalf)) - EltHalf

(***************************************************************************)
(* The actions with the K and the backward_reset the actioner holds.       *)
(***************************************************************************)
(* Mutant of Fwd: the cap is one too low. *)
FwdCapLow(v, i, o) == Forward(aut, v, i, o, Elt(K - 1))

Fwd(v, i, o) == Forward(aut, v, i, o, Elt(K))

Bwd(m, i, o) == Backward(aut, m, i, o, Uniform(Elt(K - 1)))

(***************************************************************************)
(* InputPicker: input i witnesses the one-step loss of f when every answer *)
(* leaves F.                                                               *)
(***************************************************************************)
Witness(f, i) == \A o \in Answers(aut, i) : Fwd(f, i, o) \notin F

(* Mutant of Critical: the input must be lost from everywhere. *)
CriticalForAll(i) == \A f \in F : Witness(f, i)

Critical(i) == \E f \in F : Witness(f, i)

(***************************************************************************)
(* cpre_inplace: F1i starts as the downset of the all -1 vector, which is  *)
(* what remains of it when no output answers i.                            *)
(***************************************************************************)
CPre(i) ==
  F \cap Down({Bottom} \cup {Bwd(m, i, o) : m \in F, o \in Answers(aut, i)})

(* Mutant of AddKinc: booleans keep their value. *)
AddKincKeepsBooleans(s) ==
  [q \in States |-> IF q \in NonBool THEN Elt(s[q] + Kinc) ELSE s[q]]

(***************************************************************************)
(* "Adding Kinc to every vector": booleans are set to 0, whatever they     *)
(* were.                                                                   *)
(***************************************************************************)
AddKinc(s) == [q \in States |-> IF q \in NonBool THEN Elt(s[q] + Kinc) ELSE 0]

(***************************************************************************)
(* The start region prepare_formula gives the game of one formula (all_k). *)
(* A game merged of solved games starts from the product of their regions. *)
(***************************************************************************)
FreshStart == Down({Uniform(Elt(Kfrom - 1))})

-----------------------------------------------------------------------------

Init ==
  /\ aut \in Automata
  /\ K = Kfrom
  /\ F = aut.start
  /\ result = "running"

(* No critical input: solve returns F. *)
Return ==
  /\ result = "running"
  /\ \A i \in Inputs : ~Critical(i)
  /\ result' = "region"
  /\ UNCHANGED <<aut, K, F>>

(* The initial configuration survives cpre, which leaves G. *)
Narrow(G) ==
  /\ aut.init \in G
  /\ F' = G
  /\ UNCHANGED <<K, result>>

(* Mutants of Raise: one K too many, no Kinc in the vectors, K itself unchanged. *)
RaiseOnceMore(G) ==
  /\ aut.init \notin G
  /\ K =< Kto
  /\ K' = K + Kinc
  /\ F' = Down({AddKinc(s) : s \in G})
  /\ UNCHANGED result

RaiseKeepsRegion(G) ==
  /\ aut.init \notin G
  /\ K < Kto
  /\ K' = K + Kinc
  /\ F' = G
  /\ UNCHANGED result

RaiseForgetsK(G) ==
  /\ aut.init \notin G
  /\ K < Kto
  /\ F' = Down({AddKinc(s) : s \in G})
  /\ UNCHANGED <<K, result>>

(* It does not, and K may still grow. *)
Raise(G) ==
  /\ aut.init \notin G
  /\ K < Kto
  /\ K' = K + Kinc
  /\ F' = Down({AddKinc(s) : s \in G})
  /\ UNCHANGED result

(* It does not, and K has reached its final value. *)
GiveUp(G) ==
  /\ aut.init \notin G
  /\ K >= Kto
  /\ F' = G
  /\ result' = "nullopt"
  /\ UNCHANGED K

(* One turn of the loop for the input the picker chose. *)
Iterate(i) ==
  /\ result = "running"
  /\ Critical(i)
  /\ LET G == CPre(i) IN Narrow(G) \/ Raise(G) \/ GiveUp(G)
  /\ UNCHANGED aut

Turn == Return \/ \E i \in Inputs : Iterate(i)

(* solve has returned: nothing more happens. *)
Done == result # "running" /\ UNCHANGED vars

Next == Turn \/ Done

Spec == Init /\ [][Next]_vars

(* The loop is sequential code: it keeps turning. *)
FairSpec == Spec /\ WF_vars(Turn)

-----------------------------------------------------------------------------

TypeOK ==
  /\ aut \in Automata
  /\ K \in Kfrom .. TopK
  /\ F \in SUBSET Vectors
  /\ result \in {"running", "region", "nullopt"}

(***************************************************************************)
(* No controlled set of safe vectors is ever lost, neither by a cpre step  *)
(* nor by the shortcut that reuses F when K is raised.                     *)
(***************************************************************************)
Complete == WinRegion(aut, K) \subseteq F

(***************************************************************************)
(* The answer is exact for the K the loop stopped at: a region is returned *)
(* if and only if the controller wins S^K_N from the initial               *)
(* configuration.                                                          *)
(***************************************************************************)
VerdictExact == result # "running" => (result = "region" <=> Winning(aut, K))

(***************************************************************************)
(* A returned region is a fixpoint that the controller can stay in and     *)
(* that holds the initial configuration (k-bounded_safety_aut.hh:107).     *)
(***************************************************************************)
RegionControlled ==
  result = "region" => /\ F \subseteq Safe(K)
                       /\ Controlled(aut, F, K)
                       /\ aut.init \in F

(* solve returns, whatever inputs the picker prefers. *)
Termination == <>(result # "running")
=============================================================================
