------------------------------ MODULE MCProgram ------------------------------
(***************************************************************************)
(* Command lines for module Program: numbers in every order, every source  *)
(* of formulas, and output files.                                          *)
(***************************************************************************)
EXTENDS Program

F == {"f", "g"}

Opt(key, val) == <<[key |-> key, val |-> val]>>
File(name, col) == <<[key |-> "F", val |-> name, col |-> col]>>

Disk == [plain |-> <<<<"f">>>>, csv |-> <<<<"name", "f">>, <<"f", "g">>>>, quoted |-> <<<<"f", "\"">>>>]

(* Sets of formulas, of specifications that list no propositions. *)
Unlisted(r) == r \X {{}} \X {{}}

World(a, in, tty, r) ==
  [args |-> a, tty |-> tty, stdin |-> in, disk |-> Disk, realizable |-> Unlisted(r), uncovered |-> {}]

(* K, Kmin and Kinc, or some of them, in two orders, with one formula or two. *)
Num(key, vals) == {<<>>} \cup {Opt(key, v) : v \in vals}

Numbers ==
  {World(a \o b \o c \o d, <<>>, FALSE, SUBSET F) :
     a \in Num("Kmin", {-1, 0, 1, 2, 11}), b \in Num("K", {-2, 0, 1, 2}), c \in Num("Kinc", {-1, 0, 1}),
     d \in {Opt("f", "f"), Opt("f", "f") \o Opt("f", "g"), Opt("K", 2) \o Opt("f", "f")}}

(* Up to two sources of formulas, for realizability. *)
Sources ==
  {Opt("f", "f"), Opt("f", "g"), Opt("f", "broken"), File("plain", 0), File("csv", 2),
   File("csv", -2), File("quoted", 1), File("missing", 0), File("-", 0), File("-", 1), <<>>}

Then == {<<>>, Opt("f", "f"), File("plain", 0), File("csv", 2), File("-", 0)}

Inputs ==
  {World(a \o b, <<<<<<"f">>>>, <<<<"g">>>>>>, FALSE, r) :
     a \in Sources, b \in Then, r \in {{{"f"}}, SUBSET F}}
  \cup {World(<<>>, <<>>, tty, SUBSET F) : tty \in BOOLEAN}

(* The standard input in one column and then in another. *)
Again ==
  {World(File("-", a) \o File("-", b), <<<<<<"f">>>>, <<<<"g">>>>>>, FALSE, {{"g"}}) :
     a \in {-1, 1}, b \in {-1, 1}}

(* Children that race for the standard input, or write files. *)
Races ==
  {World(Opt("check", "both") \o x \o a, in, FALSE, r) :
     x \in {Opt("unreal-x", "formula"), Opt("unreal-x", "automaton")},
     a \in {File("-", 0), Opt("f", "f") \o Opt("f", "g")}, in \in {<<<<<<"f">>>>>>, <<<<<<"f">>>>, <<<<"g">>>>>>},
     r \in {{}, SUBSET F}}

WithFiles ==
  {World(c \o Opt("winreg", "winreg.aag") \o i \o Opt("f", "f"), <<>>, FALSE, r) :
     c \in {Opt("check", "both"), Opt("check", "both") \o Opt("unreal-x", "formula"),
            Opt("check", "unreal"), Opt("check", "maybe"), Opt("unreal-x", "neither")},
     i \in {Opt("synth", "synth.aag"), Opt("init", "0,0") \o Opt("f", "g")}, r \in {{}, SUBSET F}}

(* Two children that may both decide, each about its part of the standard input. *)
TornFiles ==
  {World(Opt("check", "both") \o Opt("unreal-x", "formula") \o Opt("winreg", "winreg.aag") \o File("-", 0),
         <<<<<<"f">>>>, <<<<"g">>>>>>, FALSE, {{"f"}})}

(* Lists of propositions in one option or in two, with only one partition that is realizable. *)
Lists ==
  {[World(Opt("check", c) \o i \o o \o Opt("f", "f"), <<>>, FALSE, {}) EXCEPT
       !.realizable = {<<{"f"}, {"a", "b"}, {"c"}>>}] :
     c \in {"real", "unreal"},
     i \in {Opt("ins", {"a", "b"}), Opt("ins", {"a"}) \o Opt("ins", {"b"}), Opt("ins", {"a"})},
     o \in {Opt("outs", {"c"}), Opt("outs", {"c"}) \o Opt("outs", {"d"})}}

(* Children that may decide wrongly: K beyond EltHalf, at once or by its increments; an initial *)
(* vector; and a composition that is not covered.                                               *)
NotExact ==
  {[World(Opt("check", "both") \o Opt("unreal-x", "formula") \o a \o Opt("f", "f"), <<>>, FALSE, {}) EXCEPT
       !.uncovered = Unlisted({F})] :
     a \in {Opt("K", 12), Opt("Kmin", 10) \o Opt("Kinc", 2), Opt("Kmin", 10) \o Opt("Kinc", 1),
            Opt("init", "0,0"), Opt("f", "g")}}

CommandLines ==
  Numbers \cup Inputs \cup Again \cup Races \cup WithFiles \cup TornFiles \cup Lists \cup NotExact
==============================================================================
