---------------------------- MODULE MCPreparation ----------------------------
(***************************************************************************)
(* Finite instances of Preparation: small automata as a translation gives  *)
(* them, that is, every state can be reached and is on an infinite run.    *)
(***************************************************************************)
EXTENDS Preparation

Ins == {"i", "j"}
Outs == {"o", "p"}
All == Ins \X Outs

(* The edges of p to the states of a map: <<condition, state>> pairs. *)
Edge(p, cond, r) == IF cond = {} THEN {} ELSE {<<p, cond, r>>}

EdgesOf(p, to) == UNION {Edge(p, to[r], r) : r \in DOMAIN to}

Alive(a) ==
  LET From(W) == {e[3] : e \in {e \in a.edges : e[1] \in W}}
      Reach[n \in Nat] == IF n = 0 THEN {a.init} ELSE LET W == Reach[n - 1] IN W \cup From(W)
  IN  /\ Reach[a.size] = 0 .. a.size - 1
      /\ \A s \in 0 .. a.size - 1 : From({s}) # {}

(***************************************************************************)
(* Conditions that demand something of the input, of the output, or both   *)
(* (so that an output which is possible for one input of a cell is         *)
(* possible for all), and conditions that compare the two.                 *)
(***************************************************************************)
Products == {{}, All, {"i"} \X Outs, Ins \X {"o"}, {<<"i", "o">>}}

Comparisons == {{}, All, {"i"} \X Outs, Ins \X {"o"}, {<<"i", "o">>, <<"j", "p">>}}

TwoStates(Conds) ==
  {a \in {[size |-> 2, init |-> 0, acc |-> A, edges |-> EdgesOf(0, f) \cup EdgesOf(1, g)] :
            A \in SUBSET {0, 1}, f \in [{0, 1} -> Conds], g \in [{0, 1} -> Conds]} : Alive(a)}

(* From the last state to the first, looping, going on or returning on the way. *)
ThreeStates(Conds) ==
  {a \in {[size |-> 3, init |-> 2, acc |-> A,
           edges |-> EdgesOf(2, (2 :> All) @@ (1 :> f)) \cup EdgesOf(1, g) \cup EdgesOf(0, h)] :
            A \in {{1}, {0, 1}, {0, 1, 2}}, f \in Conds,
            g \in [{0, 1} -> Conds], h \in [{0, 1} -> Conds]} : Alive(a)}

ProductAutomata == TwoStates(Products) \cup ThreeStates({{}, All, {"i"} \X Outs, Ins \X {"o"}})

ComparisonAutomata == TwoStates(Comparisons)

(***************************************************************************)
(* Automata with at most four pairs of a state and outputs to be checked,  *)
(* and some whose accepting state is passed once.                          *)
(***************************************************************************)
Pairs(a) ==
  LET Found[n \in Nat] ==
        IF n = 0 THEN {<<a.init, Outs>>}
        ELSE LET P == Found[n - 1]
             IN  P \cup UNION {{<<e[3], {l[2] : l \in {l \in e[2] : l[1] = i}}>> :
                                 i \in InputsOf(e[2])} : e \in {e \in a.edges : \E p \in P : p[1] = e[1]}}
  IN  Found[a.size * 4]

PushedAutomata ==
  {a \in {[size |-> 2, init |-> 0, acc |-> A, edges |-> EdgesOf(0, f) \cup EdgesOf(1, g)] :
            A \in {{1}, {0, 1}}, f \in [{0, 1} -> Comparisons \ {{"i"} \X Outs}],
            g \in [{0, 1} -> {{}, All, {<<"i", "o">>, <<"j", "p">>}}]} :
     Alive(a) /\ Cardinality(Pairs(a)) =< 4}
  \cup {[size |-> 3, init |-> 0, acc |-> {1}, edges |-> {<<0, f, 1>>, <<1, g, 2>>, <<2, All, 2>>}] :
          f \in {All, Ins \X {"o"}}, g \in {All, Ins \X {"o"}}}

NoAutomata == {}
SomeInvariants == {All, All \ {<<"i", "o">>}, {"i"} \X Outs}
-----------------------------------------------------------------------------
(***************************************************************************)
(* The safety game of an automaton, decided by the textbook fixpoint.      *)
(***************************************************************************)
Game(S, NB) == INSTANCE KBoundedGame WITH States <- S, NonBool <- NB, Automata <- {}

AsGame(a) ==
  [edge |-> UNION {{<<e[1], l[1], l[2], e[3]>> : l \in e[2]} : e \in a.edges},
   acc |-> a.acc, allowed |-> In \X Out]

SafeVectors(S, NB, k) == {v \in [S -> -1 .. k - 1] : \A b \in S \ NB : v[b] =< 0}

RECURSIVE Shrink(_, _, _, _, _)
Shrink(S, NB, g, k, W) ==
  LET Good(v) == \A i \in In : \E o \in Out : Game(S, NB)!Forward(g, v, i, o, k) \in W
      X == {v \in W : Good(v)}
  IN  IF X = W THEN W ELSE Shrink(S, NB, g, k, X)

Wins(a, threshold, k) ==
  LET S == StatesOf(a)
      NB == 0 .. threshold - 1
  IN  [s \in S |-> IF s = a.init THEN 0 ELSE -1] \in Shrink(S, NB, AsGame(a), k, SafeVectors(S, NB, k))

(***************************************************************************)
(* Preprocessing keeps the winner: who wins the game of the translated     *)
(* automaton still does, and who wins the game that is left wins that of   *)
(* the translated automaton when the visits to bounded accepting states,   *)
(* which are no longer counted, are allowed for.                           *)
(***************************************************************************)
WinnerKept ==
  pc = "ios" =>
    \A k \in 1 .. K :
      /\ Wins(start, start.size, k) => Wins(aut, bool_threshold, k)
      /\ Wins(aut, bool_threshold, k) => Wins(start, start.size, k + Cardinality(start.acc))

(***************************************************************************)
(* A play of the pushed automaton is one of the translated automaton whose *)
(* outputs come one step later: after three letters, and for any next      *)
(* output, the counters are the same.                                      *)
(***************************************************************************)
PlayDelayed ==
  pc = "ios" /\ swapped =>
    \A w \in [1 .. 3 -> Letters], o \in Outputs :
      LET Plays(a, v, i, x) == Game(StatesOf(a), StatesOf(a))!Forward(AsGame(a), v, i, x, TopK)
          Alone(a) == [s \in StatesOf(a) |-> IF s = a.init THEN 0 ELSE -1]
          pushed == Plays(start, Plays(start, Plays(start, Alone(start), w[1][2], w[1][1]),
                                       w[2][2], w[2][1]), w[3][2], w[3][1])
          direct == Plays(given, Plays(given, Plays(given, Alone(given), w[1][1], w[2][2]),
                                       w[2][1], w[3][2]), w[3][1], o)
      IN  \A s \in StatesOf(given) :
            direct[s] = Max({-1} \cup {pushed[n - 1] : n \in {n \in DOMAIN cache :
                                         cache[n][1] = s /\ o \in cache[n][2]}})
=============================================================================
