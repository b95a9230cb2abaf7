------------------------------- MODULE MCPipes -------------------------------
(***************************************************************************)
(* Finite instances of Pipes: texts of one and two characters, an unsolved *)
(* game, a solved and a lost one.                                          *)
(***************************************************************************)
EXTENDS Pipes

One == <<49>>
Ab == <<97, 98>>
TwoTexts == {One, Ab}

(* A counter that an edge on ab leaves for an accepting state. *)
Automaton ==
  [states |-> 2, init |-> 1, acc |-> {0}, edges |-> <<<<1, 0, Ab>>, <<0, 0, One>>>>]

Unsolved ==
  [aut |-> <<Automaton>>, invariant |-> One, bool_threshold |-> 1,
   safe |-> <<<<<<2, 0>>>>>>, solved |-> FALSE]

ThreeGames ==
  {Unsolved,
   [Unsolved EXCEPT !.safe = <<<<<<-1, 0>>, <<1, -1>>>>>>, !.invariant = Ab, !.solved = TRUE],
   [Unsolved EXCEPT !.safe = <<>>, !.solved = TRUE]}
==============================================================================
