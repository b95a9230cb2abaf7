---------------------------- MODULE MCComposition ----------------------------
(***************************************************************************)
(* Finite instances of Composition: three formulas, of which some are      *)
(* invariants, and every way their conjunctions may be realizable or not.  *)
(***************************************************************************)
EXTENDS Composition

Three == {"f", "g", "h"}

(* Every family of realizable conjunctions: closed under taking fewer formulas. *)
Families(S) ==
  {R \in SUBSET SUBSET S : {} \in R /\ \A X \in R : SUBSET X \subseteq R}

Kind(S, invs) == [f \in S |-> IF f \in invs THEN "invariant" ELSE "game"]

(***************************************************************************)
(* The conjunction of the invariants may also be the constant false.  The  *)
(* two builds are alike without invariants.                                *)
(***************************************************************************)
WorldsOf(S, invs) ==
  UNION {{[kind |-> Kind(S, invs), realizable |-> R, falsum |-> N, supports_invariant |-> b] :
            N \in {{}, (SUBSET invs) \ R}, b \in IF invs = {} THEN {FALSE} ELSE BOOLEAN} : R \in Families(S)}

(* The order of the formulas is free, so only the number of invariants matters. *)
WithGames == UNION {WorldsOf(Three, invs) : invs \in {{}, {"f"}, {"f", "g"}}}

(***************************************************************************)
(* Two invariants, each of which can be ensured, that together leave some  *)
(* input without an answer (and so are not the constant false).            *)
(***************************************************************************)
OnlyInvariants ==
  {[kind |-> Kind({"f", "g"}, {"f", "g"}), realizable |-> {{}, {"f"}, {"g"}}, falsum |-> {},
    supports_invariant |-> TRUE]}

(* Workers may die while every conjunction can be realized, or all but the full one. *)
MayCrash == {w \in WithGames : w.realizable \in {SUBSET Three, (SUBSET Three) \ {Three}}}
==============================================================================
