--------------------------- MODULE IOsPrecomputers ---------------------------
(***************************************************************************)
(* ios_precomputers/: from the edges of an automaton, for every input the  *)
(* sets of transitions that the outputs allow.                             *)
(*                                                                         *)
(* A letter is a pair <<i, o>> and the condition of an edge a set of       *)
(* letters; an edge is <<p, cond, q>>.  "standard" looks at every letter   *)
(* that the invariant allows; "powset" and "fake_vars" cut the letters,    *)
(* then the inputs, into cells with the same transitions; "delegate"       *)
(* leaves the letters to the actioner.                                     *)
(***************************************************************************)
EXTENDS Integers, Sequences, SequencesExt, TLC

InputsOf(L) == {l[1] : l \in L}

(***************************************************************************)
(* power: cells is a partition of the universe, each with the collection   *)
(* of what applies to it.  A formula cuts the cells it divides.            *)
(***************************************************************************)
(* Mutant of Refine: the cell without the formula is forgotten. *)
RefineInside(cells, mod, t) ==
  {<<c[1] \cap mod, c[2] \cup {t}>> : c \in {c \in cells : c[1] \cap mod # {}}}
  \cup {c \in cells : c[1] \cap mod = {}}

Refine(cells, mod, t) ==
  {<<c[1] \cap mod, c[2] \cup {t}>> : c \in {c \in cells : c[1] \cap mod # {}}}
  \cup {<<c[1] \ mod, c[2]>> : c \in {c \in cells : c[1] \ mod # {}}}

Power(formulas, projection(_), universe) ==
  FoldSet(LAMBDA f, cells : Refine(cells, projection(f[1]), f[2]), {<<universe, {}>>}, formulas)

(***************************************************************************)
(* power_fakevars: the cells are numbered; "all" relates the members of    *)
(* the universe to the number of their cell (all_inputs_with_fvars).       *)
(***************************************************************************)
OneCell(universe) ==
  [all |-> universe \X {1}, fvar_to_input |-> <<universe>>, powset |-> universe :> {}]

Cut(st, var, crossing, trans) ==
  LET input == st.fvar_to_input[var]
      inside == input \cap crossing
      outside == input \ crossing
      fresh == Len(st.fvar_to_input) + 1
      others == [c \in DOMAIN st.powset \ {input} |-> st.powset[c]]
  IN  IF outside # {}
      THEN [all |-> {x \in st.all : x[2] # var} \cup inside \X {var} \cup outside \X {fresh},
            fvar_to_input |-> Append([st.fvar_to_input EXCEPT ![var] = inside], outside),
            powset |-> others @@ (inside :> st.powset[input] \cup {trans})
                              @@ (outside :> st.powset[input])]
      ELSE [st EXCEPT !.powset[input] = @ \cup {trans}]

Cross(st, crossing, trans) ==
  LET fvars == {x[2] : x \in {x \in st.all : x[1] \in crossing}}
  IN  FoldSet(LAMBDA var, s : Cut(s, var, crossing, trans), st, fvars)

PowerFakeVars(formulas, projection(_), universe) ==
  LET end == FoldSet(LAMBDA f, s : Cross(s, projection(f[1]), f[2]), OneCell(universe), formulas)
  IN  {<<c, end.powset[c]>> : c \in DOMAIN end.powset}

(***************************************************************************)
(* Both are used twice: the letters are cut by the edges, then the inputs  *)
(* by the cells of letters.                                                *)
(***************************************************************************)
AllLetters(L) == L

Transitions(edges) == {<<e[2], <<e[1], e[3]>>>> : e \in edges}

Powset(edges, In, Out) ==
  Power(Power(Transitions(edges), AllLetters, In \X Out), InputsOf, In)

FakeVars(edges, In, Out) ==
  PowerFakeVars(PowerFakeVars(Transitions(edges), AllLetters, In \X Out), InputsOf, In)

(***************************************************************************)
(* bdd_it: letters are taken from letter_set one by one; when it is empty  *)
(* the next step clears "support", and then the iterator is at its end.    *)
(***************************************************************************)
GetNextLetter(it) ==
  IF it.letter_set = {} THEN [it EXCEPT !.support = FALSE]
  ELSE LET x == CHOOSE x \in it.letter_set : TRUE
       IN  [it EXCEPT !.letter_set = @ \ {x}, !.current_letter = x]

Begin(S) == GetNextLetter([letter_set |-> S, support |-> TRUE, current_letter |-> {}])

AtEnd(it) == it.letter_set = {} /\ ~it.support

(***************************************************************************)
(* ios_it: letters that the invariant excludes are passed over.  Here and  *)
(* below, after[n] is what a while loop has computed after n turns, and    *)
(* stays as it is once the loop has ended.                                 *)
(***************************************************************************)
SkipTo(it, good) ==
  LET Turn(x) == IF x.current_letter \in good \/ ~x.support THEN x ELSE GetNextLetter(x)
      after[n \in Nat] == IF n = 0 THEN it ELSE Turn(after[n - 1])
  IN  after[Cardinality(it.letter_set) + 1]

(* The transitions on a letter: update_transset, compute_action. *)
TransSet(edges, letter) == {<<e[1], e[3]>> : e \in {e \in edges : letter \in e[2]}}

(* One list per input: a range-based for over the allowed outputs. *)
IOs(edges, i, Out, invariant) ==
  LET good == {o \in Out : <<i, o>> \in invariant}
      Turn(x) ==
        IF AtEnd(x.it) THEN x
        ELSE [it   |-> SkipTo(GetNextLetter(x.it), good),
              list |-> Append(x.list, TransSet(edges, <<i, x.it.current_letter>>))]
      after[n \in Nat] ==
        IF n = 0 THEN [it |-> SkipTo(Begin(Out), good), list |-> << >>] ELSE Turn(after[n - 1])
  IN  after[Cardinality(Out) + 1].list

(***************************************************************************)
(* The actioner's constructor goes through the inputs and drops one that   *)
(* has the same list of transition sets as an earlier one (ioset).         *)
(***************************************************************************)
Insert(ioset, input, list) ==
  IF \E x \in ioset : x[2] = list THEN ioset ELSE ioset \cup {<<input, list>>}

Standard(edges, In, Out, invariant) ==
  LET Add(ioset, i) == Insert(ioset, {i}, IOs(edges, i, Out, invariant))
      Turn(x) ==
        IF AtEnd(x.it) THEN x
        ELSE [it |-> GetNextLetter(x.it), ioset |-> Add(x.ioset, x.it.current_letter)]
      after[n \in Nat] ==
        IF n = 0 THEN [it |-> Begin(In), ioset |-> {}] ELSE Turn(after[n - 1])
  IN  after[Cardinality(In) + 1].ioset

InsertCells(cells) ==
  FoldSet(LAMBDA c, ioset : Insert(ioset, c[1], SetToSeq(c[2])), {}, cells)

(***************************************************************************)
(* delegate and no_ios_precomputation: ioset is a map from the list to the *)
(* input, so that the last input with the same list is kept.               *)
(***************************************************************************)
Overwrite(ioset, input, list) == {x \in ioset : x[2] # list} \cup {<<input, list>>}

Delegate(edges, In, Out) ==
  LET letters == SetToSeq(Out)
      list(i) == [n \in DOMAIN letters |-> TransSet(edges, <<i, letters[n]>>)]
  IN  FoldSet(LAMBDA i, ioset : Overwrite(ioset, {i}, list(i)), {}, In)
=============================================================================
