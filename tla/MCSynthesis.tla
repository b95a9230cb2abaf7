----------------------------- MODULE MCSynthesis -----------------------------
(***************************************************************************)
(* Finite instances of Synthesis: small automata over one input and two    *)
(* outputs, with the region a solver finds for them.                       *)
(***************************************************************************)
EXTENDS Synthesis

In == SUBSET InBits
Out == SUBSET OutBits
Letters == In \X Out

(* The textbook fixpoint: the vectors from which the controller can stay safe. *)
RECURSIVE Shrink(_, _, _)
Shrink(a, k, W) ==
  LET Good(w) == \A i \in In : \E o \in Answers(a, i) : Forward(a, w, i, o, k) \in W
      X == {w \in W : Good(w)}
  IN  IF X = W THEN W ELSE Shrink(a, k, X)

Region(a, k) == Shrink(a, k, Safe(k))

(* Solve stops at the first K, from Kfrom on, for which the controller wins. *)
SolvedOf(A, modes, builds) ==
  UNION {LET R == [k \in Kfrom .. Kto |-> Region(a, k)]
             W == {k \in Kfrom .. Kto : a.init \in R[k]}
         IN  {[aut |-> a, K |-> k, region |-> R[k], modes |-> modes, debug |-> build] :
                k \in {k \in W : \A l \in W : k =< l}, build \in builds} :
           a \in A}

(***************************************************************************)
(* "a", the initial state, is boolean and waits on every letter.  On the   *)
(* letters from[q] it starts the obligation q, an accepting state that     *)
(* waits until a letter of until[q] and then ends or passes on to pass[q]. *)
(***************************************************************************)
EdgesOn(p, L, q) == {<<p, l[1], l[2], q>> : l \in L}

Obligations(from, until, pass, inv) ==
  [edge |-> EdgesOn("a", Letters, "a")
            \cup UNION {EdgesOn("a", from[q], q) \cup EdgesOn(q, Letters \ until[q], q) : q \in DOMAIN from}
            \cup UNION {EdgesOn(q, until[q], pass[q]) : q \in DOMAIN pass},
   acc |-> DOMAIN from, allowed |-> inv, start |-> Safe(Kto),
   init |-> [q \in States |-> IF q = "a" THEN 0 ELSE -1]]

Gives(S) == {l \in Letters : l[2] = S}
OnInput  == {l \in Letters : l[1] # {}}
NotAllOn == Letters \ {<<{}, OutBits>>}

(* One of two outputs, or both, or none: one output serves one obligation. *)
y1 == CHOOSE y \in OutBits : TRUE
OneOutput == {l \in Letters : Cardinality(l[2]) = 1}
Serve == {Gives({y1}), Gives(OutBits), OneOutput}

Pairs(F, U) ==
  {Obligations("b" :> f @@ "c" :> g, "b" :> u @@ "c" :> w, pass, inv) :
     f \in F, g \in {OnInput}, u \in U, w \in U, pass \in {<< >>, "b" :> "c"}, inv \in {Letters, NotAllOn}}

(* Three obligations that can only be served one at a time, in turn. *)
Triples ==
  {Obligations([q \in {"b", "c", "d"} |-> from \ until[q]], until, << >>, Letters) :
     from \in {Letters, OnInput},
     until \in {"b" :> Gives({y1}) @@ "c" :> Gives(OutBits \ {y1}) @@ "d" :> Gives(u) : u \in {OutBits, {}}}}

(* The obligation "b" is never served, so a letter that starts it loses at once,   *)
(* with small counters; "c" is served by the next letter.                          *)
Traps ==
  {Obligations("b" :> from @@ "c" :> OnInput, "b" :> {} @@ "c" :> Letters, << >>, inv) :
     from \in {Gives({y1}), Gives(OutBits)}, inv \in {Letters, NotAllOn}}

(* The assertions of the encoding are about winregion: both builds of it.  In the  *)
(* debug build, Pairs end in Abort and Traps do not.                               *)
Games ==
  SolvedOf(Pairs({Letters, OnInput}, Serve) \cup Triples, {"synthesis"}, {FALSE})
  \cup SolvedOf(Pairs({OnInput}, {Gives({y1}), OneOutput}) \cup Traps, {"winregion"}, BOOLEAN)

AutomataOfGames == {g.aut : g \in Games}
==============================================================================
