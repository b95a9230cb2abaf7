------------------------------- MODULE MCMerge -------------------------------
(***************************************************************************)
(* Finite instances of Merge: every pair of small solved games, among them *)
(* games that have been merged before.                                     *)
(***************************************************************************)
EXTENDS Merge, TLC

Letters == Inputs \X Outputs

Edges(p, L, q) == {<<p, l[1], l[2], q>> : l \in L}

(* The textbook fixpoint: the vectors from which the controller can stay safe. *)
RECURSIVE Shrink(_, _)
Shrink(g, W) ==
  LET X == {x \in W : \A i \in Inputs : \E o \in Outputs : Forward(g, x, i, o) \in W}
  IN  IF X = W THEN W ELSE Shrink(g, X)

WinningOf(g) == Shrink(g, Game(g)!Safe(K))

Maximal(g, W) == {x \in W : \A y \in W : Game(g)!Leq(x, y) => x = y}

(* The safe region of a game when solve_game returns one. *)
Solved(g) == [g EXCEPT !.safe = Maximal(g, WinningOf(g))]

Unsolved(n, t, s, E, A) ==
  [size |-> n, bool_threshold |-> t, init |-> s, edge |-> E, acc |-> A, safe |-> {}]

(***************************************************************************)
(* No state has a counter; a counter that is also the initial state; a     *)
(* boolean initial state that waits, or that is left at once, for a        *)
(* counter that may be stopped.                                            *)
(***************************************************************************)
Tautology == Unsolved(1, 0, 0, Edges(0, Letters, 0), {})

Loops == {Unsolved(1, 1, 0, Edges(0, L, 0), {0}) : L \in {{<<"i", "o">>}, Inputs \X {"o"}}}

Waits ==
  {Unsolved(2, 1, 1, Edges(1, Letters, 1) \cup Edges(1, L, 0) \cup Edges(0, M, 0), {0}) :
     L \in {{<<"i", "o">>}, {"j"} \X Outputs}, M \in {{<<"i", "o">>}, {"j"} \X Outputs, Letters}}

Leaves ==
  {Unsolved(2, 1, 1, Edges(1, L, 0) \cup Edges(0, M, 0), {0}) :
     L \in {{<<"i", "o">>}, Letters}, M \in {{<<"i", "o">>}, Inputs \X {"o"}}}

(* What a valid formula is translated to: no word satisfies its negation. *)
Valid == Unsolved(1, 0, 0, {}, {})

(* The 2-state game of finish_invariant, which is marked solved. *)
InvariantGames ==
  {[Unsolved(2, 1, 1, Edges(1, L, 1) \cup Edges(1, Letters \ L, 0) \cup Edges(0, Letters, 0), {0})
     EXCEPT !.safe = {(0 :> -1) @@ (1 :> 0)}] : L \in {Inputs \X {"o"}, Letters \ {<<"i", "o">>}}}

Won(G) == {g \in {Solved(h) : h \in G} : g.safe # {} /\ Contains(g, Initial(g))}

Base == Won({Tautology, Valid} \cup Loops \cup Waits \cup Leaves) \cup InvariantGames

(* Of a merged game, the parts the code keeps in a safety_game. *)
Kept(g) == [Unsolved(g.size, g.bool_threshold, g.init, g.edge, g.acc) EXCEPT !.safe = g.safe]

SmallBase == Won({Tautology} \cup Loops) \cup Won(Leaves) \cup InvariantGames

MergedBefore == Won({Kept(MergeGames(p[1], p[2])) : p \in SmallBase \X SmallBase})

SmallMerged == {g \in MergedBefore : g.size =< 3}

AllPairs ==
  (Base \X Base) \cup (MergedBefore \X SmallBase) \cup (SmallBase \X MergedBefore)
  \cup (SmallMerged \X SmallMerged)

(***************************************************************************)
(* The merged game is a game (IsGame: with the threshold where the states   *)
(* with a counter end, whatever was purged), and the solver may start from *)
(* its region, which is safe, and holds every winning position in which    *)
(* only states that had a counter in dest or src have one above 0: no play *)
(* leads to the others.  (new_init has none, nor has the state that is     *)
(* below bool_threshold by mistake when the initial states of both games   *)
(* are purged and that of src is the last one with a counter.)  Checked    *)
(* once per pair.                                                          *)
(***************************************************************************)
Counters ==
  {merged.rename[s] : s \in {s \in DOMAIN merged.rename : s # NewInit(dest) /\ HasCounter(dest, src, s)}}

StartIsGood ==
  v = Initial(merged) =>
    /\ IsGame(merged)
    /\ \A m \in merged.safe : \A q \in 0 .. merged.bool_threshold - 1 : m[q] < K
    /\ \A w \in WinningOf(merged) :
         (\A q \in StatesOf(merged) \ Counters : w[q] =< 0) => Contains(merged, w)
==============================================================================
