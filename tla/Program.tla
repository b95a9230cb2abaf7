------------------------------- MODULE Program -------------------------------
(***************************************************************************)
(* The whole program from its command line to its last line of output.     *)
(* main parses the options, one by one, and adjusts K (acacia-bonsai.cc);  *)
(* the parent and its children are those of module Supervisor; each child  *)
(* runs ltl_processor: it reads the formulas itself, after the fork        *)
(* (lib/common_finput.cc), solves one game or a composition, and writes    *)
(* the winning region and the circuit before it exits.                     *)
(*                                                                         *)
(* A formula is a name, a line of a file the sequence of its cells, and a  *)
(* list of propositions the set of its names.  Which specifications, that  *)
(* is, formulas with their inputs and outputs, are realizable is chosen    *)
(* initially.  A child that decides does so rightly if what it is given    *)
(* lies under the hypotheses of the theorems about the solver and the      *)
(* composition (Exact); otherwise it may decide anything.                  *)
(***************************************************************************)
EXTENDS Supervisor, SequencesExt

CONSTANTS
  Formulas,  \* the texts that can be parsed
  UMax,      \* the largest unsigned; atoi gives -(UMax + 1) \div 2 .. UMax \div 2
  EltHalf,   \* VECTOR_ELT_T holds -EltHalf .. EltHalf - 1, as in KBoundedSafety
  Worlds     \* command lines and what they refer to, see IsWorld

(***************************************************************************)
(* Options are [key, val]; -F FILE/COL is [key |-> "F", val |-> FILE,      *)
(* col |-> COL], where COL is 0 if it is not given; the value of --ins and *)
(* --outs is a set of propositions.                                        *)
(***************************************************************************)
OptionKeys ==
  {"f", "F", "K", "Kmin", "Kinc", "check", "unreal-x", "synth", "winreg", "init", "ins", "outs"}

Specifications == (SUBSET Formulas) \X (SUBSET STRING) \X (SUBSET STRING)

IsWorld(w) ==
  /\ \A n \in DOMAIN w.args : w.args[n].key \in OptionKeys
  /\ w.args \in Seq(Range(w.args))
  /\ \A n \in DOMAIN w.args :
       w.args[n].key \in {"K", "Kmin", "Kinc"} => w.args[n].val \in -(UMax + 1) \div 2 .. UMax \div 2
  /\ \A n \in DOMAIN w.args : w.args[n].key = "F" => w.args[n].col \in Int
  /\ \A n \in DOMAIN w.args : w.args[n].key \in {"ins", "outs"} => w.args[n].val \subseteq STRING
  /\ w.tty \in BOOLEAN                                     \* stdin is a terminal
  /\ w.stdin \in Seq(Seq(Seq(STRING)) \ {<<>>})            \* what each read () returns, as lines
  /\ w.disk \in [DOMAIN w.disk -> Seq(Seq(STRING))]        \* the files there are
  /\ \A spec \in w.realizable : spec \in Specifications
  /\ \A spec \in w.uncovered : spec \in Specifications    \* see Exact

ASSUME ProgramAssumption ==
  /\ UMax \in Nat /\ UMax >= 2 * 11 + 1
  /\ EltHalf \in Nat \ {0}
  /\ \A w \in Worlds : IsWorld(w)

VARIABLES
  world,    \* the command line, the files and the truth about the specifications
  phase,    \* "parse", "run" or "refused"
  args,     \* the options not yet parsed
  opts,     \* the option variables, and jobs
  stdin,    \* what is left of it: the children share it
  child,    \* what each child's processor is doing
  files     \* the files written: by which child, and whether to the end

program == <<world, phase, args, opts, stdin, child, files>>
allvars == <<vars, program>>

-----------------------------------------------------------------------------
(* atoi (arg), assigned to an unsigned; and an unsigned passed as an int. *)
Unsigned(n) == n % (UMax + 1)
Signed(u) == IF u > UMax \div 2 THEN u - (UMax + 1) ELSE u

(* DEFAULT_K, DEFAULT_KMIN, DEFAULT_KINC, DEFAULT_UNREAL_X. *)
Defaults ==
  [K |-> 11, Kmin |-> UMax, Kinc |-> 0, check |-> "real", unreal_x |-> "both",
   synth |-> "", winreg |-> "", init |-> FALSE, ins |-> {}, outs |-> {}, jobs |-> <<>>]

Job(o) == [file |-> o.key = "F", text |-> o.val, col |-> IF o.key = "F" THEN o.col ELSE 0]

StdinJob == [file |-> TRUE, text |-> "-", col |-> 0]

(* Mutant of Store: a list of inputs replaces the one before it. *)
StoreLastIns(s, o) ==
  CASE o.key \in {"f", "F"} -> [s EXCEPT !.jobs = Append(@, Job(o))]
    [] o.key \in {"K", "Kmin", "Kinc"} -> [s EXCEPT ![o.key] = Unsigned(o.val)]
    [] o.key = "unreal-x" -> [s EXCEPT !.unreal_x = o.val]
    [] o.key = "init" -> [s EXCEPT !.init = TRUE]
    [] o.key = "ins" -> [s EXCEPT !.ins = o.val]
    [] o.key = "outs" -> [s EXCEPT !.outs = @ \cup o.val]
    [] o.key \in {"check", "synth", "winreg"} -> [s EXCEPT ![o.key] = o.val]

(* parse_opt, parse_opt_finput: options that are stored; lists accumulate. *)
Store(s, o) ==
  CASE o.key \in {"f", "F"} -> [s EXCEPT !.jobs = Append(@, Job(o))]
    [] o.key \in {"K", "Kmin", "Kinc"} -> [s EXCEPT ![o.key] = Unsigned(o.val)]
    [] o.key = "unreal-x" -> [s EXCEPT !.unreal_x = o.val]
    [] o.key = "init" -> [s EXCEPT !.init = TRUE]
    [] o.key \in {"ins", "outs"} -> [s EXCEPT ![o.key] = @ \cup o.val]
    [] o.key \in {"check", "synth", "winreg"} -> [s EXCEPT ![o.key] = o.val]

(* Mutant of BadOption: only K is compared with 0. *)
BadOptionOnlyK(o) ==
  \/ o.key = "K" /\ o.val = 0
  \/ o.key = "check" /\ o.val \notin {"real", "unreal", "both"}
  \/ o.key = "unreal-x" /\ o.val \notin {"formula", "automaton", "both"}

(* Those that end the program. *)
BadOption(o) ==
  \/ o.key \in {"K", "Kmin", "Kinc"} /\ o.val = 0
  \/ o.key = "check" /\ o.val \notin {"real", "unreal", "both"}
  \/ o.key = "unreal-x" /\ o.val \notin {"formula", "automaton", "both"}

(* error (status, ...) before any child is forked. *)
Refuse(status) ==
  /\ phase' = "refused" /\ mpc' = "done" /\ ret' = status
  /\ UNCHANGED <<realizable, toFork, why, resume, ignoring, signalled, printed, children,
                 world, args, opts, stdin, child, files>>

ParseOption ==
  /\ phase = "parse" /\ args # <<>>
  /\ \/ BadOption(Head(args)) /\ Refuse(3)
     \/ /\ ~BadOption(Head(args))
        /\ opts' = Store(opts, Head(args))
        /\ args' = Tail(args)
        /\ UNCHANGED <<vars, world, phase, stdin, child, files>>

(* The calls of start_proc. *)
Plan(s) ==
  (IF s.check \in {"both", "real"} THEN <<"real">> ELSE <<>>)
  \o (IF s.check \in {"both", "unreal"} /\ s.unreal_x \in {"both", "formula"}
      THEN <<"unreal-x=f">> ELSE <<>>)
  \o (IF s.check \in {"both", "unreal"} /\ s.unreal_x \in {"both", "automaton"}
      THEN <<"unreal-x=a">> ELSE <<>>)

IncompatibleK(s) == s.Kmin > s.K \/ (s.Kmin < s.K /\ s.Kinc = 0)

(* check_no_formula, then the values of K; then the children are forked. *)
Adjust ==
  /\ phase = "parse" /\ args = <<>>
  /\ LET s == [opts EXCEPT !.jobs = IF @ = <<>> THEN <<StdinJob>> ELSE @,
                           !.Kmin = IF @ = UMax THEN opts.K ELSE @]
     IN  \/ opts.jobs = <<>> /\ world.tty /\ Refuse(2)
         \/ ~(opts.jobs = <<>> /\ world.tty) /\ IncompatibleK(s) /\ Refuse(3)
         \/ /\ ~(opts.jobs = <<>> /\ world.tty) /\ ~IncompatibleK(s)
            /\ opts' = s
            /\ phase' = "run"
            /\ toFork' = Plan(s)
            /\ child' = [k \in Kids |-> [child[k] EXCEPT !.jobs = s.jobs]]
            /\ UNCHANGED <<realizable, mpc, why, resume, ret, ignoring, signalled, printed, children,
                           world, args, stdin, files>>

-----------------------------------------------------------------------------
(***************************************************************************)
(* job_processor::run in a child.                                          *)
(***************************************************************************)
AbsVal(n) == IF n < 0 THEN -n ELSE n

(* Mutant of Cells: the column is counted from 0. *)
CellsFromZero(col, line) ==
  IF col = 0 THEN IF Len(line) = 1 THEN line ELSE <<"broken">>
  ELSE IF Len(line) < col + 1 THEN <<>> ELSE <<line[col + 1]>>

(* What process_stream takes of a line: all of it, or one column. *)
Cells(col, line) ==
  IF col = 0 THEN IF Len(line) = 1 THEN line ELSE <<"broken">>
  ELSE IF Len(line) < col THEN <<>> ELSE <<line[col]>>

(* process_string: what cannot be parsed is reported and left out. *)
Parsed(texts) ==
  FlattenSeq([n \in DOMAIN texts |-> IF texts[n] \in Formulas THEN <<texts[n]>> ELSE <<>>])

(* process_stream; a negative column leaves out the first line. *)
FormulasOf(col, lines) ==
  LET rows == IF col < 0 /\ lines # <<>> THEN Tail(lines) ELSE lines
  IN  Parsed(FlattenSeq([n \in DOMAIN rows |-> Cells(AbsVal(col), rows[n])]))

(* A quote that is not closed: error (2, ...). *)
Unclosed(col, lines) == col # 0 /\ \E n \in DOMAIN lines : Contains(lines[n], "\"")

Working(k, at) == phase = "run" /\ kid[k] = "running" /\ child[k].at = at

(* process_file keeps the column for the files that follow. *)
ColumnFor(k, j) == IF j.col = 0 THEN child[k].col ELSE j.col

ReadFormula(k) ==
  /\ Working(k, "read") /\ child[k].jobs # <<>>
  /\ LET j == Head(child[k].jobs)
     IN  /\ ~j.file
         /\ child' = [child EXCEPT ![k].jobs = Tail(@), ![k].formulas = @ \o Parsed(<<j.text>>)]
  /\ UNCHANGED <<vars, world, phase, args, opts, stdin, files>>

ReadFile(k) ==
  /\ Working(k, "read") /\ child[k].jobs # <<>>
  /\ LET j == Head(child[k].jobs)
         col == ColumnFor(k, j)
         there == j.text \in DOMAIN world.disk
     IN  /\ j.file /\ j.text # "-"
         /\ \/ /\ there /\ ~Unclosed(col, world.disk[j.text])
               /\ child' = [child EXCEPT ![k].jobs = Tail(@), ![k].col = AbsVal(col),
                              ![k].formulas = @ \o FormulasOf(col, world.disk[j.text])]
               /\ UNCHANGED vars
            \/ /\ there => Unclosed(col, world.disk[j.text])
               /\ End(k, 2, FALSE)
               /\ UNCHANGED child
  /\ UNCHANGED <<world, phase, args, opts, stdin, files>>

(***************************************************************************)
(* The children share the position in stdin: each takes what is there when *)
(* it reads, until there is nothing left.                                  *)
(***************************************************************************)
ReadStdin(k) ==
  /\ Working(k, "read") /\ child[k].jobs # <<>>
  /\ LET j == Head(child[k].jobs)
         col == ColumnFor(k, j)
         first == [child EXCEPT ![k].jobs[1].col = 0, ![k].col = AbsVal(col)]
     IN  /\ j.file /\ j.text = "-"
         /\ \/ /\ stdin # <<>> /\ ~Unclosed(col, Head(stdin))
               /\ child' = [first EXCEPT ![k].formulas = @ \o FormulasOf(col, Head(stdin))]
               /\ stdin' = Tail(stdin)
               /\ UNCHANGED vars
            \/ /\ stdin # <<>> /\ Unclosed(col, Head(stdin))
               /\ End(k, 2, FALSE)
               /\ stdin' = Tail(stdin)
               /\ UNCHANGED child
            \/ /\ stdin = <<>>
               /\ child' = [first EXCEPT ![k].jobs = Tail(@)]
               /\ UNCHANGED <<vars, stdin>>
  /\ UNCHANGED <<world, phase, args, opts, files>>

-----------------------------------------------------------------------------
(***************************************************************************)
(* ltl_processor::run, from the formulas on.                               *)
(***************************************************************************)
Several(k) == Len(child[k].formulas) > 1

(* Mutant of Refused: increments are allowed. *)
RefusedUnreal(k) == Several(k) /\ (k # "real" \/ opts.init)

(* A composition is for realizability, from the start, with one K. *)
Refused(k) == Several(k) /\ (k # "real" \/ opts.init \/ opts.Kinc # 0)

(* All jobs are read: there is something to solve, or not. *)
HasGame(k) == child[k].formulas # <<>> /\ ~Refused(k)

Solving(k) == Working(k, "read") /\ child[k].jobs = <<>> /\ HasGame(k)

Unsolvable(k) ==
  /\ Working(k, "read") /\ child[k].jobs = <<>> /\ ~HasGame(k)
  /\ End(k, ExitStatus(k, FALSE), FALSE)
  /\ UNCHANGED program

(* What the processor hands to composition_mt, besides the values of K. *)
SpecificationOf(k) == <<Range(child[k].formulas), opts.ins, opts.outs>>

(* Not above it: the last raise may go beyond K by Kinc - 1. *)
LargestK ==
  IF Signed(opts.Kmin) < Signed(opts.K) THEN Signed(opts.K) + Signed(opts.Kinc) - 1 ELSE Signed(opts.K)

(***************************************************************************)
(* The hypotheses of SolverExact (KBoundedSafetyProofs: the K values are   *)
(* in order, DefaultInits, NoOverflow) and, in world.uncovered, those that *)
(* depend on the specification: that the propositions are a partition; for *)
(* several formulas also SomeGame (CompositionVerdict: they are not all    *)
(* invariants) and that no merge raises the threshold of the boolean       *)
(* states above their number.                                              *)
(***************************************************************************)
Exact(k) ==
  /\ ~opts.init
  /\ 1 =< Signed(opts.Kmin) /\ Signed(opts.Kmin) =< Signed(opts.K)
  /\ Signed(opts.Kmin) < Signed(opts.K) => Signed(opts.Kinc) >= 1
  /\ LargestK < EltHalf
  /\ SpecificationOf(k) \notin world.uncovered

(* What a child may find out, given enough K. *)
MayDecide(k) == Exact(k) => (SpecificationOf(k) \in world.realizable) = (k = "real")

GiveUp(k) ==
  /\ Solving(k)
  /\ End(k, ExitStatus(k, FALSE), FALSE)
  /\ UNCHANGED program

Named(f) == IF f = "" THEN <<>> ELSE <<f>>

(* epilogue: the files to write; start_proc clears synth_fname for the others. *)
Outputs(k) == Named(opts.winreg) \o (IF k = "real" THEN Named(opts.synth) ELSE <<>>)

(* Without a game (only boolean states, and not for "real") nothing is written. *)
Win(k) ==
  /\ Solving(k) /\ MayDecide(k)
  /\ \E game \in IF k = "real" THEN {TRUE} ELSE BOOLEAN :
       child' = [child EXCEPT ![k].at = "output", ![k].outputs = IF game THEN Outputs(k) ELSE <<>>,
                              ![k].game = game]
  /\ UNCHANGED <<vars, world, phase, args, opts, stdin, files>>

(* The file is opened, and so emptied ... *)
OpenOutput(k) ==
  /\ Working(k, "output") /\ child[k].outputs # <<>>
  /\ files' = [files EXCEPT ![Head(child[k].outputs)] = [by |-> k, complete |-> FALSE]]
  /\ child' = [child EXCEPT ![k].at = "writing"]
  /\ UNCHANGED <<vars, world, phase, args, opts, stdin>>

(* ... then written and closed.  Of two writers the last one to close is complete. *)
CloseOutput(k) ==
  /\ Working(k, "writing")
  /\ LET f == Head(child[k].outputs)
     IN  files' = [files EXCEPT ![f].complete = @ \/ files[f].by = k]
  /\ child' = [child EXCEPT ![k].at = "output", ![k].outputs = Tail(@)]
  /\ UNCHANGED <<vars, world, phase, args, opts, stdin>>

(* Mutant of Exit: the child exits before it has written its files. *)
ExitFirst(k) ==
  /\ Working(k, "output")
  /\ End(k, ExitStatus(k, TRUE), TRUE)
  /\ UNCHANGED program

Exit(k) ==
  /\ Working(k, "output") /\ child[k].outputs = <<>>
  /\ End(k, ExitStatus(k, TRUE), TRUE)
  /\ UNCHANGED program

-----------------------------------------------------------------------------
(* The files that a command line names for the winning region and the circuit. *)
FileNames(w) == {w.args[n].val : n \in {n \in DOMAIN w.args : w.args[n].key \in {"winreg", "synth"}}}

ProgramInit ==
  /\ world \in Worlds
  /\ phase = "parse" /\ args = world.args /\ opts = Defaults /\ stdin = world.stdin
  /\ child = [k \in Kids |-> [at |-> "read", jobs |-> <<>>, col |-> 0, formulas |-> <<>>,
                              outputs |-> <<>>, game |-> TRUE]]
  /\ files = [f \in FileNames(world) |-> [by |-> "nobody", complete |-> FALSE]]
  /\ realizable = FALSE
  /\ mpc = "fork" /\ toFork = <<>>
  /\ why = "none" /\ resume = "none" /\ ret = 3
  /\ ignoring = FALSE /\ signalled = "no" /\ printed = ""
  /\ kid = [k \in Kids |-> "none"]
  /\ code = [k \in Kids |-> 3]
  /\ won = [k \in Kids |-> FALSE]
  /\ deaf = [k \in Kids |-> FALSE]
  /\ pending = [k \in Kids |-> FALSE]

MainStep ==
  \/ ParseOption \/ Adjust
  \/ phase = "run" /\ ParentStep /\ UNCHANGED program

ChildStep(k) ==
  \/ ReadFormula(k) \/ ReadFile(k) \/ ReadStdin(k)
  \/ Unsolvable(k) \/ GiveUp(k) \/ Win(k)
  \/ OpenOutput(k) \/ CloseOutput(k) \/ Exit(k)
  \/ (Throw(k) \/ Die(k) \/ Terminated(k)) /\ UNCHANGED program

ProgramNext ==
  \/ MainStep
  \/ phase = "run" /\ Signal /\ UNCHANGED program
  \/ \E k \in Kids : ChildStep(k)
  \/ mpc = "done" /\ UNCHANGED allvars

(* The processes are scheduled, and every game is solved in finite time. *)
ProgramSpec ==
  /\ ProgramInit /\ [][ProgramNext]_allvars
  /\ WF_allvars(MainStep) /\ \A k \in Kids : WF_allvars(ChildStep(k))

-----------------------------------------------------------------------------

ProgramTypeOK ==
  /\ TypeOK
  /\ phase \in {"parse", "run", "refused"}
  /\ {opts.K, opts.Kmin, opts.Kinc} \subseteq 0 .. UMax
  /\ phase = "run" => opts.jobs # <<>> /\ args = <<>>
  /\ \A k \in Kids :
       /\ child[k].at \in {"read", "output", "writing"}
       /\ child[k].col >= 0 /\ child[k].formulas \in Seq(Formulas)
       /\ child[k].at = "writing" => child[k].outputs # <<>>

(***************************************************************************)
(* What the command line asks for: the set of its formulas, or of those of *)
(* the standard input if there are none.                                   *)
(***************************************************************************)
JobsOf(o) == IF o.key \in {"f", "F"} THEN <<Job(o)>> ELSE <<>>

JobsAsked ==
  LET given == FlattenSeq([n \in DOMAIN world.args |-> JobsOf(world.args[n])])
  IN  IF given = <<>> THEN <<StdinJob>> ELSE given

LinesOf(j) ==
  IF j.text = "-" THEN FlattenSeq(world.stdin)
  ELSE IF j.text \in DOMAIN world.disk THEN world.disk[j.text] ELSE <<>>

TextsAsked(j) ==
  IF ~j.file THEN {j.text}
  ELSE IF j.col = 0 THEN {IF Len(l) = 1 THEN l[1] ELSE "broken" : l \in Range(LinesOf(j))}
  ELSE {LinesOf(j)[n][AbsVal(j.col)] :
          n \in {n \in (IF j.col < 0 THEN 2 ELSE 1) .. Len(LinesOf(j)) :
                   Len(LinesOf(j)[n]) >= AbsVal(j.col)}}

Asked == UNION {TextsAsked(j) : j \in Range(JobsAsked)}

(***************************************************************************)
(* Command lines that the program does not read as they are meant: a text  *)
(* that is not a formula is dropped, a column stays in force for the files *)
(* that follow, the standard input has one column and is not read again in *)
(* another, and several children tear it apart.                            *)
(***************************************************************************)
FromStdin(j) == j.file /\ j.text = "-"

Misread ==
  \/ ~(Asked \subseteq Formulas)
  \/ \E m, n \in DOMAIN JobsAsked :
       m < n /\ JobsAsked[m].col # 0 /\ JobsAsked[n].file /\ JobsAsked[n].col = 0
  \/ \E i, j \in Range(JobsAsked) : FromStdin(i) /\ FromStdin(j) /\ i.col # j.col
  \/ /\ \E j \in Range(JobsAsked) : FromStdin(j)
     /\ Len(Plan(opts)) > 1
     /\ Len(world.stdin) + Len(JobsAsked) > 2

(***************************************************************************)
(* The verdict is about the formulas that were asked for, all of them,     *)
(* with all the inputs and outputs that were listed, in one option or in   *)
(* several, however many children read them and whatever becomes of the    *)
(* others; unless a child reported an error by status 2                    *)
(* (acacia-bonsai.cc:493).  It is right only if what the children decided  *)
(* is: not with --init, nor with a K that overflows the counters.          *)
(***************************************************************************)
PropsAsked(key) ==
  UNION {world.args[n].val : n \in {n \in DOMAIN world.args : world.args[n].key = key}}

VerdictAboutInput ==
  /\ printed \in {"REALIZABLE", "UNREALIZABLE"} /\ ~Misread
  /\ \A k \in Kids : code[k] # 2
  /\ \A k \in Kids : won[k] => Exact(k)
  =>
    (printed = "REALIZABLE") = (<<Asked, PropsAsked("ins"), PropsAsked("outs")>> \in world.realizable)

(***************************************************************************)
(* Whatever the order of the options, no values of K reach solve that its  *)
(* loop does not end for, or that composition cannot merge games with      *)
(* (KAssumption of module KBoundedGame).  Negative numbers do.             *)
(***************************************************************************)
OptionsChecked ==
  \A k \in Kids :
    /\ Solving(k)
    /\ \A o \in Range(world.args) : o.key \in {"K", "Kmin", "Kinc"} => o.val >= 0
    =>
      /\ 1 =< Signed(opts.Kmin) /\ Signed(opts.Kmin) =< Signed(opts.K)
      /\ Signed(opts.Kmin) < Signed(opts.K) => Signed(opts.Kinc) >= 1
      /\ Several(k) => opts.Kmin = opts.K /\ opts.Kinc = 0 /\ k = "real"

(***************************************************************************)
(* Not both sides have decided.  They do not if all that decide have read  *)
(* the same formulas and decide rightly; they may when they have shared    *)
(* the standard input, or are not Exact.                                   *)
(***************************************************************************)
Undisputed == child["real"].at # "read" => \A k \in Kids \ {"real"} : child[k].at = "read"

(***************************************************************************)
(* A verdict comes with its files: when it is printed, they are complete   *)
(* and from a child that decided, although the others were stopped at any  *)
(* point.  The two children that check unrealizability write the same      *)
(* file; with both, the one that is stopped may leave it empty.            *)
(***************************************************************************)
WrittenBy(f, ks) == f # "" => files[f].complete /\ files[f].by \in ks

OutputComplete ==
  Undisputed =>
    /\ printed = "REALIZABLE" =>
         WrittenBy(opts.winreg, {"real"}) /\ WrittenBy(opts.synth, {"real"})
    /\ printed = "UNREALIZABLE" /\ Cardinality(Range(Plan(opts)) \ {"real"}) = 1 =>
         \A k \in Kids : won[k] /\ child[k].game => WrittenBy(opts.winreg, {k})
==============================================================================
