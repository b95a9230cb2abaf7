------------------------- MODULE MCKBoundedSafety -------------------------
(***************************************************************************)
(* Finite instances of KBoundedSafety: small automata over two inputs and  *)
(* two outputs, whose states all have counters.                            *)
(***************************************************************************)
EXTENDS KBoundedSafety, FiniteSets

In == {"i", "j"}
Out == {"o", "p"}
Letters == In \X Out

(* The default initial configuration: counter 0 in state s. *)
OneCounter(S, s, x) == [q \in S |-> IF q = s THEN x ELSE -1]

(* Without invariant, with one letter excluded, with an input nobody may answer. *)
Invariants == {Letters, Letters \ {<<"i", "o">>}, {"i"} \X Out}

(***************************************************************************)
(* Two states with counters.  "a", initial, loops on every letter; "b" is  *)
(* accepting.  Every choice of letters that lead from "a" to "b", and of   *)
(* what "b" does on each input.                                            *)
(***************************************************************************)
LoopA == {<<"a", i, o, "a">> : i \in In, o \in Out}

EdgesOfB(succ) ==
  UNION {{<<"b", i, o, s>> : o \in Out, s \in succ[i]} : i \in In}

TwoCounters ==
  {[edge |-> LoopA \cup {<<"a", l[1], l[2], "b">> : l \in L} \cup EdgesOfB(succ),
    acc |-> {"b"}, allowed |-> inv, start |-> FreshStart,
    init |-> OneCounter({"a", "b"}, "a", 0)] :
      L \in SUBSET Letters, succ \in [In -> SUBSET {"a", "b"}], inv \in Invariants}
=============================================================================
