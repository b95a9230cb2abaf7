--------------------------- MODULE MCInputPickers ---------------------------
(***************************************************************************)
(* Finite instances of InputPickers: automata with a boolean state, and a  *)
(* reference solver to compare with.                                       *)
(***************************************************************************)
EXTENDS InputPickers

In == {"i", "j"}
Out == {"o", "p"}
Letters == In \X Out

(* Without invariant, with one letter excluded, with an input nobody may answer. *)
Invariants == {Letters, Letters \ {<<"i", "o">>}, {"i"} \X Out}

(***************************************************************************)
(* Three states: "a", initial and boolean, leads to the counters "b"       *)
(* (accepting) and "c".                                                    *)
(***************************************************************************)
LoopA == {<<"a", i, o, "a">> : i \in In, o \in Out}

OneBoolean ==
  {[edge |-> LoopA \cup {<<"a", l[1], l[2], "b">> : l \in L}
                   \cup {<<"b", i, o, succ[i]>> : i \in In, o \in Out}
                   \cup {<<"c", l[1], l[2], "c">> : l \in Letters \ M}
                   \cup {<<"c", l[1], l[2], "b">> : l \in M},
    acc |-> {"b"}, allowed |-> inv, start |-> Down({Uniform(Kfrom - 1)}),
    init |-> [q \in {"a", "b", "c"} |-> IF q = "a" THEN 0 ELSE -1]] :
      L \in {{"i"} \X Out, {<<"i", "o">>, <<"j", "p">>}, Letters},
      M \in {{<<"j", "p">>}, In \X {"o"}}, succ \in [In -> {"b", "c"}], inv \in Invariants}

AllPickers == {"critical", "critical_rnd", "critical_fullrnd", "critical_pq"}

(***************************************************************************)
(* The textbook fixpoint: start from all safe vectors and remove those     *)
(* that have an input with no good answer, for all inputs at once, until   *)
(* nothing changes.                                                        *)
(***************************************************************************)
RECURSIVE Shrink(_, _, _)
Shrink(a, k, W) ==
  LET Good(v) == \A i \in Inputs : \E o \in Answers(a, i) : Forward(a, v, i, o, k) \in W
      X == {v \in W : Good(v)}
  IN  IF X = W THEN W ELSE Shrink(a, k, X)

Reference(a, k) == Shrink(a, k, Safe(k))

(***************************************************************************)
(* The answer agrees with the textbook fixpoint for the final K, and the   *)
(* returned elements are the maximal ones of that fixpoint.                *)
(***************************************************************************)
MatchesReference ==
  result # "running" =>
    LET R == Reference(aut, K)
    IN  /\ result = "region" <=> aut.init \in R
        /\ result = "region" => elements = Maximal(R)
=============================================================================
