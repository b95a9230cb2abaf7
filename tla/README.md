# Acacia-Bonsai: a TLA+ verification project

Acacia-Bonsai decides whether an LTL formula over inputs and outputs is
realizable.  It negates the formula, translates it to a Büchi automaton that
is read as a universal co-Büchi automaton (UcB) of the original, bounds the
number of visits to accepting states by K, and solves the resulting safety
game S^K_N with an antichain (downset) algorithm.  Several formulas can be
decided together by a master process and forked workers, and the program
itself forks one child per check and prints the answer of the first that
decides.

This directory holds TLA+ modules for these parts, TLC configurations that
check them on small instances, and TLAPS proofs of the main properties of the
solver, of the input pickers, of synthesis and the circuits it writes, of master
and workers, of the supervisor and of the whole program around them.  Paths in the inventory are
relative to the repository's `src`, elsewhere to the repository.

## 1. Inventory

| component | source | state | operations | what is hard | correct when |
|---|---|---|---|---|---|
| solver | `k-bounded_safety_aut.hh` (`solve`, `cpre_inplace`), `actioners/standard.hh` | downset F, K, the actioner's K and `backward_reset` | one turn of the loop: pick a critical input, F := F ∩ pre(F), raise K or give up | F is reused when K grows; one input per turn; counters in a `char`; boolean states | the answer is exact for the K it stops at; it stops |
| input pickers | `input_pickers/*.hh` | order or priorities of inputs | return an input that witnesses a one-step loss, or none | the choice must not matter | none is returned only if F is controlled |
| IOs precomputation | `ios_precomputers/*.hh` | iterators over letters | enumerate, per input, the outputs allowed by the invariant and their transitions | letters excluded by an invariant, inputs with no answer | every allowed letter is represented |
| preprocessing | `aut_preprocessors/surely_losing.hh`, `boolean_states/forward_saturation.hh` | a counter per state | flush surely losing states; find the states whose counter stays bounded and rename them last | saturation bound, renaming | the game's winner is unchanged |
| composition | `composition/composition_mt.hh` | master: job queue, stored result, losing flag, invariant, countdown; per worker two pipes and an active flag; one shared pipe | spawn, read id, read result, merge, send job, release, abort, epilogue | asynchronous results, invariants that arrive while games are being solved, early abort, release of workers, worker death | the answer is that of the conjunction; no formula lost or used twice |
| merging | `composition/composition.hh`, `types.hh` | two games, boolean threshold | conjoin automata, combine vectors, multiply safe regions | index shifts, purged states | a play of the merged game is a pair of plays |
| pipes | `composition/pipes.hh` | byte streams | write and read objects with guards | order and types of fields, pipes that are full | what is read is what was written; nobody waits for ever |
| supervisor | `acacia-bonsai.cc` (`main`, `terminate`) | children, SIGTERM disposition, exit status | fork, wait, terminate, print | signals, ignored SIGTERM is inherited, exit codes | printed verdict is true; no child left |
| options and input | `acacia-bonsai.cc` (`parse_opt`, `ltl_processor::run`), `lib/common_finput.cc` | option variables, jobs, column to read, formulas, position in stdin | parse, adjust K and Kmin, refuse combinations, read formulas from options, files, CSV columns and stdin | conversions between int and unsigned; children read after the fork | refused combinations never reach the solver; the verdict is about the formulas that were given |
| output files | `k-bounded_safety_aut.hh` (end of `synthesis` and `winregion`), `start_proc` | `--synth` and `--winreg` files | open, write, close | the writer may be stopped by a sibling's verdict | a verdict comes with complete files |
| synthesis | `k-bounded_safety_aut.hh` (`synthesis`, `winregion`), `aiger.hh` | states and transitions of a strategy, gates | explore the region, encode in binary, write an AIG | K of the actioner, binary encoding of -1 and K | the circuit follows the strategy |
| external | Spot, BuDDy, `posets` (submodule), `lib/` (copied from Spot) | | translation, BDDs, downsets, reading formulas | | assumed |

How they interact: `main` forks children that each call
`ltl_processor::run`; with one formula this calls `composition_mt::run_one`
(`prepare_formula`, `add_result`, `epilogue`) in that process, with several
`composition_mt::run` forks workers of its own.  Master and workers share
nothing but pipes: one `from_main` and one `to_main` pipe per worker, and one
pipe shared by all workers on which they announce that a result follows.
`prepare_formula`, preprocessing and boolean states turn a formula into a
game; `solve_game` creates a `k_bounded_safety_aut` and calls `solve`.
The exit status of a child is its only message to `main`.

The hazards, each at its line and with the properties that would notice it,
are in `PROJECT.json`.

## 2. Modules

| module | models | kind |
|---|---|---|
| `KBoundedGame` | the safety game: vectors, forward and backward actions, winning region | operators |
| `KBoundedSafety`, `MCKBoundedSafety` | the loop of `solve` on that game | specification, instances |
| `KBoundedGameProofs`, `KBoundedSafetyProofs` | that the loop is exact, for every automaton and K | proofs |
| `InputPickers`, `MCInputPickers` | the same loop element by element, with each input picker; implements `KBoundedSafety` | specification, instances |
| `InputPickersProofs` | that it does, for every automaton, and so answers exactly | proofs |
| `IOsPrecomputers` | the IOs precomputers and what the actioners' constructors keep of them | operators |
| `Preparation`, `MCPreparation` | from a translated automaton to the game: `push_outputs`, surely losing states, boolean states, IOs precomputation | specification, instances |
| `PreparationProofs` | that its result is a game as the solver's proofs assume it | proofs |
| `Merge`, `MCMerge` | merging two solved games | specification, instances |
| `MergeProofs` | that the merged game plays both, and its region is the product, for every two games | proofs |
| `Conjunction` | what `composition_mt::run` promises | abstract specification |
| `Composition`, `MCComposition` | master and workers of `composition_mt`; implements `Conjunction` | specification, instances |
| `CompositionProofs` | that it does, for every number of formulas and workers | proofs |
| `Mailboxes` | what pipes promise: queues of whole messages | abstract specification |
| `Pipes`, `MCPipes` | the pipes of master and workers, byte by byte; implements `Mailboxes` | specification, instances |
| `Aiger` | and-inverter graphs built from BDDs | operators |
| `Synthesis`, `MCSynthesis` | strategy and winning region, from the solved region to a circuit that is played | specification, instances |
| `SynthesisProofs` | that the circuit follows the strategy, for every game | proofs |
| `Supervisor` | `main`, `terminate` and the forked children | specification |
| `Program`, `MCProgram` | the whole program: options, `Supervisor`'s parent, and children that read, solve and write | composition, instances |
| `ProgramProofs` | the promises of `Supervisor` and of `Program`, for every command line | proofs |

How they fit: what `KBoundedGame` assumes of an automaton (`IsAutomaton`) is
proved of the result of `Preparation`, which also shows that preparing an
automaton keeps the winner; `KBoundedSafety` shows
that the loop finds the winner; `InputPickers` that the program's loop is that
one; `Merge` that a merged game stands for both of its games; so `Composition`
may treat a game as the set of formulas it stands for, with an answer that is
right.  `Composition` takes a pipe to be a queue of messages, which `Pipes`
shows.  `Synthesis` starts from what `KBoundedSafety` proves of a returned
region (`RegionControlled`).  `Program` EXTENDS `Supervisor`: its parent, its
signals and its way to end a child, with children that do what the program's
children do before they end.

Operators whose comment starts with "Mutant of" are wrong variants of the
definition that follows them, used to make sure that each property notices
such a mistake; nothing else refers to them.

### 2.1 KBoundedGame and KBoundedSafety

A downset is represented by the set of vectors it contains, so that
`contains`, `union_with` and `intersect_with` are `\in`, `\cup` and `\cap`,
and a downset built from elements is `Down` of them.  `apply` on a downset maps
the maximal elements only; the model maps all elements and takes `Down`, which
is the same set because both maps are monotone (`InputPickers` maps the
elements, and its refinement checks this).  States below `bool_threshold` are
`NonBool`; a vector has 0 or -1 in the other states, and `Stored` is what comes
back from the single bit that stores them.  The integer casts of the actioner
to `VECTOR_ELT_T` are kept (`Elt`), with the width as the constant `EltHalf`
(128 for the code's `char`).  Letters are abstract; an automaton is a set of
edges `<<p, i, o, q>>`, and the invariant the set of allowed letters.

`KBoundedSafety` has one action per outcome of a turn of the do-while loop:
`Return` (no critical input), and for a critical input `Narrow`, `Raise`
or `GiveUp`.

`Winning(a, k)` in `KBoundedGame` is the definition the algorithm must meet: the
initial vector belongs to some set of safe vectors in which the controller can
stay.  It mentions neither downsets nor the backward action.

### 2.2 InputPickers

The variable `elements` is the antichain that the posets library stores.  A
turn is a sequence of steps: `StartTurn` puts the inputs in the picker's order;
`Pass` and `Hit` try one input on one element, `Pass` moving the output that
kept it in F to the front of the input's list, `Hit` giving the input a lower
priority when the picker is `critical_pq`; `NextElement` and `Return` end a
scan; `CPre` is `cpre_inplace` with what `solve` does after it.  A shuffle is
any order it can give (the generator is seeded with 0, which is not modelled).
`Solver == INSTANCE KBoundedSafety WITH F <- Down(elements)` is the refinement
mapping, and `ImplementsSolver == Solver!Spec` the property: a scan is a
sequence of stuttering steps, `CPre` a `Narrow`, `Raise` or `GiveUp`, `Return` a
`Return`.  It is a safety property, which is proved; `Termination` says that the
scans and turns end.

### 2.3 IOsPrecomputers and Preparation

States are numbered from 0 and automata carry conditions: the condition of an
edge is the set of letters that satisfy its BDD, and a support is the set of
letters it ranges over.  `Preparation` is `prepare_formula` from the automaton
on: one step per state taken from the stack of `push_outputs` (`PushState`), one
per state in the two loops over states (`LosingState`, `SaturateState`), which
read counters that the same round has changed, and one step per algorithm
elsewhere.  When unrealizability is checked
(`swapped`), inputs and outputs change roles: `In` and `Out` are what the rest
of the code calls inputs and outputs.  `cache` tells which state and which saved
outputs a state of the pushed automaton stands for.  `NoGame` is the special
case of lines 760-768: no state has a counter, so the check answers without a
game, which `WinnerKept` justifies.

All precomputers run on every automaton (in the program the build chooses one),
and their result is what the actioner keeps of it: pairs of inputs and a list
of transition sets.  The order in which a BDD enumerates letters is left to
`CHOOSE`, since no property depends on it.

### 2.4 Merge

Two games whose states are numbers, `merge_aut` with its three renumberings
(src behind the new initial state, states without counter last, unreachable
states out) and `merge_saferegions`.  `rename` is both renamings composed.  The
specification plays both games and the merged one with the same letters from
their initial configurations.  One thing is worth knowing: the threshold is one
too high when both initial states are purged and that of src is the last one
with a counter, because `composition.hh:172` compares with a threshold it has
already decremented.  The extra state has no accepting marks and never leaves 0
or -1 (`StartIsGood` allows for it), if there is a boolean state to be taken for
it; with none left the threshold is above the number of states (section 5).  The
pairs are solved games (`IsSolved`):
the initial configuration is in the region, and the states whose counters may
grow have one and are closed under edges, as `forward_saturation` leaves them
(`Saturated`).  The new initial state may also be boolean
while a counter leads from it, and with it a counter may lead to a boolean
state that once was below the threshold of its game; this is why `Merge` has its
own `IsGame`, weaker than `IsAutomaton`.

### 2.5 Composition

One action per step of the master between two blocking calls (`Spawn`,
`ReadId`, `ReadResult`, `Reap`, `KillAll`, `Epilogue`) and per step of a worker
(`ReadJob`, `Announce`, `WriteResult`, and `Crash` from outside).  A pipe is a
sequence of messages: writes of a worker on its own pipe are not interleaved
with anything, the shared pipe receives single bytes, which are atomic.  That
full pipes do not matter is shown in `Pipes`.
`HandleResult`, `AddResult`, `AddInvariant`, `FinishInvariant` and `FinalGame`
are the methods, as functions of the master's object `st`.

A game is the set of formulas it stands for with the flags `safe`, `solved` and
the invariant it was solved under.  `world` says which formulas are invariants,
which conjunctions are realizable (closed under dropping formulas), which
conjunctions of invariants are `bddfalse`, and whether the build's IOs
precomputer supports invariants; it is chosen initially.  That `solve_game`
finds out the truth is what the solver's modules are about: here the bound K is
taken to be large enough.

`Conjunction` says what all this is for: the formulas are partitioned into
blocks, which are joined, never split or dropped, until one game and the
invariant are left; the search may end early only because of blocks that cannot
be realized together; the answer is right, and comes unless a worker is lost.
The refinement mapping takes as blocks the formulas of every job, message,
running job, stored result and of the invariant, wherever they are (`Blocks`).
A handler that drops a game, aborts without reason, ends with games left over or
answers from a stale invariant is not a step of `Conjunction`.
`ImplementsConjunction` is the safety part, which is proved; `AnswerComes` is the
liveness `Conjunction` promises.  A death of a
worker is a `Crash`; the master then comes to a `read` that never returns, since
it holds the write ends of the pipes itself (`Hung`).

### 2.6 Aiger and Synthesis

A BDD is the set of valuations (sets of variables that are true) of the
variables in use, so that conjunction, quantification and restriction are set
operations.  `Aiger` is `aiger.hh`: a list of gates that is looked through
before one is added (`OrderedAnd`, `NewGate`), and a cache from BDDs to signals
(`Cached`, `NewNode`).  `bdd2aig` calls itself for the cofactors, which depend on
fewer variables; `Build` is that recursion by the number of variables left, a
recursive function.  `Synthesis` explores,
encodes, and fixes outputs and latches one by one, as the code does; the outputs
of `winregion`'s circuit are named by state and bit and added in an order of
their own, on which nothing depends.  Inputs are explored in any order, the letters of `winregion` all at once
since that loop does not depend on their order.  A game says whether the build
has assertions (`debug`).  With them `winregion` stops in the middle of its
encoding when a component of a bad successor leaves no bit between its digits and
the sign (`LeavesNoBit`, `Abort`; section 5).  In phase "play" a reader of the
AIGER file feeds the circuit any inputs (and, for the winning region, any
outputs the circuit calls safe), while `v` follows the game the circuit was made
for: this part is the meaning of the file, not code of the repository.

### 2.7 Supervisor

The parent (`Fork`, `Wait`, `Unknown`, `Kill`, `Drain`, `Verdict`, `Abort`), the
handler of SIGTERM/SIGINT (`Signal`, `Resume`), and what may happen to a child
(`Finish`, `Throw`, `Die`, `Terminated`).  The three possible children are
"real", "unreal-x=f", "unreal-x=a"; `Plans` are the sequences that `--check` and
`--unreal-x` lead to.

`Supervisor` has no passing run of its own: its actions run in
`Program`, and the first theorems of `ProgramProofs` are about `Supervisor` alone.

### 2.8 Pipes

The `write_*` functions of `pipe_t` are operators that give the sequence of
objects they write (`WriteAutomaton`, ...), the `read_*` functions sequences of
fields to read (`ReadAutomaton`, ...) with `Follow` for what is read after a
count or a tag is known.  `WriteObj` and `ReadObj` are `write_obj` and `read_obj`
with one system call each: a `write` waits for room for all of its bytes, a
`read` for one byte, and returns what there is.  A byte remembers which object it
is part of, so that a read across objects, of another type or of half an object
is seen: the process is then "lost".  `proc[p]` is what a process still has to
write and to read before its next step; `Spawn`, `GotId`, `GotResult`, `Reap`,
`GotDone` and `Answer` are the places of `run` and `be_child` where that is
decided.  Which job follows which result is arbitrary here.  `debug` is the
build: guards are written and checked only without NDEBUG.

The refinement mapping takes a message into its queue when its first byte is
written and out when its last field is read, and `taken` is the message put
together again from the fields (`JobOf`, `ResultOf`), which must be the one that
was written.

### 2.9 Program

`world` is a command line with what it refers to: the options in order, the
files, what each `read` of the standard input returns, whether it is a terminal,
and which specifications are realizable: a set of formulas, a set of inputs and a
set of outputs.  A formula is a name, and what is not in `Formulas` does not
parse; the lists of `--ins` and `--outs` are sets of names, which accumulate when
an option is repeated.  `ParseOption` is one call of `parse_opt`,
`Adjust` what `main` does between parsing and forking; then the parent is
`Supervisor`'s, and `ChildStep` replaces its `Finish`: `ReadFormula`, `ReadFile`,
`ReadStdin` (one `read` at a time, from a position that all children share),
`Unsolvable` and `GiveUp` (exit status 3), `Win`, `OpenOutput`, `CloseOutput` and
`Exit`.

Which children decide rightly is what the other modules are about, and only under
their hypotheses.  `Exact(k)` collects them for the child k: no `--init`
(`DefaultInits`), K, Kmin and Kinc in order, every K that may be reached below
`EltHalf` (`NoOverflow`; `LargestK` is an upper bound of it), and a specification
that `world.uncovered` does not name.  The latter stands for what depends on the
specification itself: lists that are not a partition of its propositions, several
formulas that are all invariants (`SomeGame`), merges that raise the threshold
above the number of states (section 5).  Under `Exact(k)` a decision of k about
the formulas it has read and the partition it was given is the truth (`MayDecide`);
that a region for the automaton Spot makes of a formula answers the formula is
the theory the program rests on, and taken from it.  Any other child may decide
what it likes.

`Asked` is the set of formulas that the command line means, `PropsAsked` are the
propositions of all its lists.  `Misread` names the
command lines for which the program decides something else (section 5);
`VerdictAboutInput` is about all others, if every child that decided is `Exact`.

`Undisputed` says that not both sides have decided.  That is so when the children
that decided are `Exact` and have read the same formulas, since what they decide
is true; otherwise (a torn standard input, `--init`; section 5) both may, and with
`--check=both` and `--winreg` both write the same file.  `OutputComplete` is about
the first case.

## 3. Runs

| run | expect | bounds | shows |
|---|---|---|---|
| `KBoundedSafety` | pass | all automata of `TwoCounters` (16 × 16 edge relations × 3 invariants), Kfrom = 1, Kto = 2, Kinc = 1 | `Complete`, `VerdictExact`, `RegionControlled` for every order of critical inputs; the loop ends |
| `InputPickers` | pass | `OneBoolean`: a boolean state leading to two counters; the four pickers, every order of inputs and outputs | the program's loop implements `KBoundedSafety`, ends, and returns the maximal elements of the textbook fixpoint |
| `Preparation` | pass | automata with two states and conditions that demand an input, an output, both or nothing; three states with fewer conditions; pushed automata with up to four states; K = 2 | the winner is kept; boolean states are bounded; pushing delays outputs by one step; every precomputer represents every allowed letter; both loops end |
| `Merge` | pass | pairs of solved games with up to two states, and of those merged before | a play of the merged game is a pair of plays, its region the product; the merged game is one that the solver may start from |
| `Composition` | pass | 3 formulas (0 to 2 invariants), 2 workers, both builds, every family of realizable conjunctions, every order of the formulas; workers may die where all conjunctions, or all but the full one, are realizable | implements `Conjunction` (right answer, nothing lost, justified aborts, the answer comes unless a worker died); nothing is held or announced twice, the countdown is exact |
| `Pipes` | pass | 2 workers, 3 jobs, pipes of 10 bytes, texts of 1 and 2 characters, an unsolved, a solved and a lost game; with and without guards | implements `Mailboxes`: messages arrive whole, in order and unchanged, and all are read; readers and writers stay aligned |
| `Program` | pass | UMax = 31, EltHalf = 12; up to 6 options: K, Kmin, Kinc in two orders with zero, negative, equal, smaller and larger values; one or two sources of formulas out of eleven, the standard input twice among them; stdin read in up to two pieces by up to two children, which may be left with different formulas; inputs and outputs in one list or two; K too large for a counter, `--init` and a composition that is not covered; output files; exceptions, deaths, one signal | the verdict is about the input, its partition included; only values the solver can work with reach it; files are complete; UNKNOWN is justified, `terminate` waits only for children that are being stopped, the program ends |
| `Synthesis` | pass | two or three obligations, one input and two outputs, K = 3; winning regions with and without assertions, of games the debug build stops on and of games it does not | strategies are closed, functions always exist, circuits are safe and exact against every environment, the vector a bad letter leads to can be read from them, the exploration ends |
| `CompositionOnlyInvariants` | violation | two invariants | the dummy game is never solved |
| `SupervisorException` | violation | all children, exceptions | an exception is printed as UNREALIZABLE |
| `SynthesisRaisedK` | violation | Kfrom = 1, Kto = 3 | after a raise of K the circuit leaves the region |
| `SurelyLosing` | violation | two states, conditions i <-> o | a state the controller wins from is flushed as losing |

Why the bounds are enough.  With Kto = 2 a counter can be below, at and above a
bound, K is raised once, and the accepting state "b" can be reached, left and
re-entered; the order of inputs matters as soon as there are two, that of
elements as soon as a boolean state makes F an antichain.  `EltHalf` is 3 in
these runs, so that they reach the largest K that fits.  Two states are enough
for a cell of inputs to be cut by two edges and for a losing state to be left
behind; the third gives bounded states that are passed once.  In `Merge` the
renumberings are told apart by games with the initial state below and above
the threshold, purged or not; games merged before have two former initial
states.  Three formulas give one merge of unsolved results and one of a merged
game with another result; two workers leave one job queued; with two invariants
an invariant can arrive while a game is solved under the other.  In `Synthesis`
two obligations give strategies with one to three states, three give more than
one bit for a latch and codes without a state.  In `Pipes` every message but an
announcement is longer than a pipe, so that both sides wait in the middle of
messages; two workers can announce in either order; three jobs give a worker a
second one and the other none.  In `Program` UMax = 31 leaves room for the
default K = 11 and makes every negative number a large unsigned; EltHalf = 12
lets K = 11 fit and nothing larger; two formulas
are the least that must not be refused, read in halves, or mixed up; the columns
are told apart by a file of two rows whose cells differ.  The proofs remove the
bounds for the solver, the pickers, the shape of prepared automata, synthesis and
its circuits, master and workers, the supervisor, and for what `Program` says of
options, files and UNKNOWN.

Every run checks for deadlock; where the program has ended, or the master of a
dead worker hangs, a step that changes nothing says so (`Finished`, `Hung`).

Fairness.  The loop of `solve`, with or without the picker's steps, and
`prepare_formula` are sequential code: weak fairness of a step (of the loops up
to the boolean states in the latter, which are what has to end).  `Synthesis`
only assumes it of the exploration; nothing obliges a reader of the circuit to
play.  Master, workers, parent and children are processes of the operating
system: weak fairness of each process's step.  Nothing forces a crash, an
exception or a signal, and no strong fairness is used.  In `Program`, weak
fairness of a child's step means that every solver run ends, which
`KBoundedSafety` checks, and that a `read` of the standard input returns.
`Mailboxes` asks that every message is read in the end; `Pipes` only assumes that
processes are scheduled.

The four violations are disagreements between the code and what the
repository says of it; each is described under "findings" in `PROJECT.json`.

## 4. Proofs

Checked by tlapm with Z3, Zenon and LS4.

`KBoundedGameProofs` proves the adjunction `Galois`: for safe v and m,
Forward(v) is below m iff v is below Backward(m).  It rests on facts about
minima and maxima of bounded sets of integers, with which it starts, and on the
shape of automata that `forward_saturation` guarantees (`IsAutomaton`, proved in
`PreparationProofs`).

`KBoundedSafetyProofs` proves `TypeOK`, `Complete`, `RegionControlled` and
`VerdictExact` of the solver for every automaton, every Kmin, K and Kinc and
every picker.  The inductive invariant `IInv` adds to them `Region` (F holds
only safe vectors and the all -1 vector) and `Outcome` (the initial
configuration is in F while the loop runs).  A cpre step keeps every controlled
set because a controlled vector's answer stays in the set (`CPreKeepsControlled`,
from `Galois`).  Raising K is the delicate step: `RaiseComplete` shows that the
winning region for K + Kinc, lowered by Kinc, is controlled for K
(`SubKincSimulates`), hence below F, so that F plus Kinc covers it.

Assumptions: `GameAssumption` and `KAssumption` (options as `main` leaves them),
and three that the theorems name: `NoOverflow` (every K reached is less than
`EltHalf`), `DefaultInits` (no `--init`) and `GoodStarts` (the start region lies
between the winning region and the safe vectors).  `FreshStarts` proves
`GoodStarts` for the region that `prepare_formula` creates.  The first two are
needed: see section 5 for a K that does not fit and for `--init`.
Merged games are only solved with Kinc = 0, since `ltl_processor::run` refuses
other compositions (`src/acacia-bonsai.cc:252`).

`InputPickersProofs` proves `TypeOK` and `ImplementsSolver`: each picker, with
its elements, lists and priorities, is a picker that `KBoundedSafety` allows, for
every automaton, order and number of inputs.  Two things make it true.  The scan
must have missed nothing when it returns no input: the invariant `ScanInv` says
that every input before `pos` has an answer for the element at hand, and every
input one for the elements that are no longer in `left`; a hit that ends the
scan is a witness against the downset as well as against the element.  And
`cpre_inplace`, which maps the maximal elements one by one, must be the cpre of
the downset: by monotonicity of the two maps each element of the downset goes
below the image of a maximal one (`KBoundedGameProofs`).  That moving an output
to the front, or changing a priority, only permutes is the type invariant.  The
hypothesis is `NoOverflow`, as for the solver.  `PickersExact` puts the two
together: the solver's theorem is instantiated with the refinement mapping
(`SolverProofs`), so that the answer of the program's loop is exact, under the
hypotheses of the solver's theorem.

`PreparationProofs` proves `ThresholdShape` and `GivesAGame` from
`PreparationAssumption` only, for every translated automaton, every K and every
set of letters. Before the saturation all that matters is that the automaton is
one: the pairs that `push_outputs` finds in a turn get the numbers that follow
those of the cache, so that every new edge leads to a state (`PushInv`), and the
states that a purge keeps are closed under the edges it keeps, so that renaming
them leads to states again. The saturation is the delicate part
(`SaturationInv`). A counter that reaches the limit was below it before, hence
`nunbounded` is the number of unbounded states in every step. And a round that
has changed nothing so far leaves every state it has seen settled: its
successors count at least what the state asks for. When such a round is over, an
unbounded state only leads to unbounded ones. Unbounded states get the numbers
below the threshold (`RenameIs`), which is `ThresholdShape`; it holds with the
sinks that `surely_losing` makes, whatever counters it had computed.
`GivesAGame` says that states, threshold, letters, initial configuration and
first region satisfy `IsAutomaton`, so that the assumption under which the solver
is proved is met by what `prepare_formula` hands over.

`CompositionProofs` proves `TypeOK`, `CountdownExact`, `EachFormulaOnce`,
`AnnouncedOnce`, `VerdictExact` and `ImplementsConjunction` for every number of
formulas and workers, any order of results, both builds and any deaths of
workers. The inductive invariant `IInv` has three parts. The layout relates the
two ends of every pipe: what a worker's pipes hold follows from where the worker
is and from what the master believes of it (active, awaited, released), so that
a read finds the message it expects (`WorkerInv`, `PhaseInv`). Then every
formula is at one place - a job, a pipe, a worker, the stored result, the
invariant - or lost with a worker, and a game's flags agree with the invariant
it was solved under (`PartitionInv`, `SoundInv`). And the countdown counts the
formulas whose translation has not been answered, so that the invariant is
complete when its game is added (`CountInv`). The refinement is one lemma per
action: `ReadResult` joins blocks, drops a block or changes no block, `Epilogue`
decides, the others stutter, a crash is `LoseWorker`. Two hypotheses are named:
`SomeGame`, some formula gives a game whatever the world is (with invariants
only the answer is wrong, run `CompositionOnlyInvariants`), and for
`AnnouncedOnce` `IdsFit`, worker numbers fit the `char` they are sent as.

`MergeProofs` proves `Lockstep` and `RegionIsProduct` from `MergeAssumption`
only, for every two solved games, of any size, merged before or not (a merged
game is a game, with the threshold among its states, but for the case in
section 5).

- Renumbering.  Both `rename` and `rename2` are ranks: the rank of a state is the
  number of states before it.  A rank numbers a set from 0 without a gap and in
  order (`RankNumbers`), for any order that compares any two members; so the two
  renamings composed are injective on the states that are left, which are the
  states of the merged game.
- Purging.  `Reachable` runs as many rounds as there are states; a round that adds
  nothing ends it, so that it is closed under edges by then.  A state with a run
  after the first letter is therefore kept, and `new_init`, to which no edge
  leads, has none (`NoReturn`).
- The threshold.  It is decremented in a loop that compares with it, and may end
  too high.  `ThresholdEnough` says that it is never below the number of the
  states with a counter that are left.  What is above is a boolean state, and
  its counter does not grow: `Quiet`, part of the invariant, says that only those
  states have a counter above 0 that `forward_saturation` found unbounded, in
  either game, and every such state keeps its place below the threshold.  This is
  where `Saturated` is needed; without it the merged game would keep counters
  that the game it came from resets.
- Vectors.  Each coordinate of a successor in the merged game is the maximum of
  the same set of counters as in the game it came from (`BesideStep`), so the
  invariant `MergeInv`, that both vectors are in their places or all three are
  initial, is kept by every letter.  `CombineFacts` says the same of the elements
  of the region, which makes it the product (`RegionBeside`); at the start it is
  one because both initial configurations are in their regions
  (`RegionInitial`, the other half of `IsSolved`).

`SynthesisProofs` starts with the circuits and `Bdd2AigSound`: for every list of
sources, every circuit built so far and every BDD over the sources, `bdd2aig`
returns a signal that is true for exactly the valuations of the BDD, whatever
its two caches answer on the way.  What a signal means is read off the file gate
by gate (`Known`); since gates are appended and read earlier signals only, it
never changes (`TruthGrows`), so that an entry of the cache stays right while
the circuit grows.  `AndSound` goes through the cases of `add_gate`, `NodeSound`
through one call past a cache miss, and `LevelSound` is the induction step on
the number of variables that the BDD depends on.

It then proves the six safety properties of `Synthesis`, for every solved game,
any number of states, inputs and outputs, and every letter, in three stages.

- Exploration.  `ExplorationInv`: the states found are in the region, each
  transition is a move of the game to the state it names (or, in `synthesis`, to
  a smaller vector), and every letter of a state that is neither in the worklist
  nor at hand has been answered (`CoveredInv`).  This is `StrategyClosed` at the
  end.
- Construction.  `FixedInv` says that the relation that is left, projected to
  what the circuit reads, still has an answer for all it had at first, which is
  `NothingLost`; a candidate function keeps it because it is true where the
  variable may be true, or false only where it may be false (`FixKeeps`).  `CircuitInv`
  says that each output and latch fixed so far computes the function that was
  fixed (from `Bdd2AigSound`), and that a transition agrees with all of them.
  `TypeOK` includes that the circuit is well formed and that the worklist never
  holds a state twice (`TodoInv`).
- Play.  Latches hold the number of a state, in binary (`CodesDiffer`: enough
  bits, and different numbers have different codes), which is above the vector
  the game has reached, or equal to it for the winning region (`PlayInv`).  For
  any letter that is played, the circuit does what one of the transitions says
  (`CircuitTakes`); this gives `CircuitSafe` and `RegionExact`.
  `VectorReadable` adds that the digits written for a number below a power of two
  give the number back.  The number is small enough because the assertions were
  passed (`AssertedInv`, `PassedFits`) or, without them, because Kto is.

Two hypotheses are named.  `NoRaise`: solve stopped at Kfrom, the K the actioner
of `synthesis` and `winregion` is made with; run `SynthesisRaisedK` shows the
circuit leaving the region otherwise.  `NothingIsLost` and `SynthesisTypeCorrect`
do without it.  `VectorsFit`, for `VectorIsReadable`, is about builds without
assertions: Kto is below the power of two that the bits after the sign can hold,
that is, Kto is not itself a power of two.  With assertions the theorem needs no
such hypothesis, but what it says is about the runs that come to write a circuit:
the others end in `Abort` (section 5), on which it is silent.

`ProgramProofs` first proves, of `Supervisor`, `TypeOK`, `VerdictUnlessThrown`, `UnknownJustified`
and `NoChildLeft` without any assumption but that the constants are Boolean, and
`DrainStops` with the additional invariant `DeafInv`: only a child forked after
a signal that arrived during the forking ignores SIGTERM.  The inductive
invariant is `CoreInv`, which speaks of statuses, reasons and what was printed,
and `TruthInv`, which says that who decided decided right; only the second one
knows what the formula's truth is.  The lemmas are stated for the parent's
steps and for any way a child may end (`Ends`), so that they hold of `Program`,
where children are more than one step and the two of them may read different
formulas.

Of `Program` it proves, under `ProgramAssumption` only, for every command line,
every set of files and every sequence of reads:

- `OptionsChecked`, for any number of options in any order and every width of
  the integers (`UMax`).  `OptionsInv` says that while options are parsed the
  numbers are between 1 and the largest int, or UMax for a Kmin that is missing
  (`Small`), and once they are adjusted that they are compatible (`Compatible`);
  it needs that the options still to be parsed come from the command line.
- `UnknownJustified` and `DrainStops` for the parent among real children, from
  the supervisor's lemmas.
- `OutputComplete`: a printed verdict finds the files it comes with complete.
  `ProgramInv` adds that nothing is forked while options are parsed (`PhaseInv`)
  and only what was asked for later (`AskedInv`), that a child that opens,
  writes or closes a file has decided (`ChildInv`), and that as long as no other
  child has decided, what such a child no longer has to write is complete
  (`FilesInv`). The first attempt at this proof failed at that place: with a
  standard input torn between the children both sides may decide, and the one
  that is stopped may leave the other's file empty, although a verdict is
  printed. Hence `Undisputed`; the run has this torn input among its command
  lines.
- `ProgramTypeOK`, and `VerdictAboutInput`: the formulas that a child decides
  about are those that the command line means, and so is their partition.  The
  theorem does not say that a child decides rightly: it assumes so of children
  that are `Exact`, which is where the theorems about solver and composition
  apply, and has no conclusion if another child decided.  `PropsInv` says
  that the propositions stored so far and those of the options still to be parsed
  are all that the command line lists.  `GivenInv` says that the stored
  jobs are those of the options parsed so far, in their order; `StdinInv` and
  `KeptInv`, what of the standard input was read and by whom, and that the jobs
  of a child are the stored ones once options are parsed; `WorkInv`, that what a
  child still has to read are the last of these jobs, the first of them possibly
  begun (`Started`: its column has moved to the child), and that a column in
  force was asked for; `HeldInv`, that a reading child holds what was asked for
  up to the place where it is (`Holds`), or, when children share the standard
  input, all of it or none of it.  `FlattenSnoc`, `FlattenHolds` and `ReadMore`
  say that reading part by part gives what reading at once gives.  The first
  attempt at this proof failed where a job asks for the standard input in one
  column and another in a second one: the second is at the end of the file and
  reads nothing (section 5).  Hence the second clause about columns of `Misread`; the
  run now has such command lines, and without the clause TLC finds the verdict.

Only model-checked, and why:

- liveness (`Termination` everywhere, `AnswerComes`), which is beyond the prover;
- `ImplementsMailboxes` and `Aligned`: that reading fields gives back the message
  that was flattened into them is an induction over data;
- the rest of `Preparation`: `ActionsComplete` is about the loops and folds of
  the precomputers, and `WinnerKept` and `PlayDelayed` about plays of any length,
  both inductions over data; `TypeOK` also bounds the counters of
  `surely_losing` by minima and maxima of sets that nothing else relies on;
- `StartIsGood` and `MatchesReference`, which compare with reference fixpoints
  that `MCMerge` and `MCInputPickers` define by recursive operators, of which the
  prover can use none.

Where a proof does need induction (the gates of a circuit, the digits of a number,
the levels of `bdd2aig`), the module defines the recursion as a function on
the naturals, and `PrimitiveRecursion` and `Induction` in `KBoundedGameProofs`,
which are about sets and functions instead of operators, show that the function
exists and what it does at each number.

## 5. Not modelled, and differences no run shows

Spot's translation, BDDs and the downset data structures are external.  The
translation is assumed to give automata whose states all have an outgoing edge
(the enumerator of the edges of one state, `transition_enumerator.hh:58`, would
otherwise run past its end) unless there is only one state, and state-based
acceptance.  Verbose output, timing, `--help`, `--lbt-input`, `--lenient` and
the syntax of quotes in CSV files are left out; `ios_precomputers/other.hh` and
`utils/kdtree.hh` are included by no file.  A signal that arrives while options
are parsed is not modelled.

Much of the repository is not this program: `src/subprojects/gnulib` (argp,
getopt, error and their replacements of libc functions) is vendored from gnulib,
and most of `src/lib` is copied from Spot to print automata, which this program
never does.  They carry none of its logic and are not modelled; of `src/lib`,
the reading of formulas and the handling of exceptions are.

- Help says of the exit status "2 if this could not be decided"
  (`src/src/acacia-bonsai.cc:155`); the code returns 3 and prints UNKNOWN
  (lines 502-503).
- Help says K is the "final value of K" (`src/src/acacia-bonsai.cc:103`); when
  Kinc does not divide K - Kmin the loop plays with a larger one.  The answer
  is exact for the K it stops at.
- K is cast to `VECTOR_ELT_T`, a `char`, and nowhere checked to fit: with
  K = 128 the cap is -128, no input is ever critical, and a losing game is
  answered with a region (`KBoundedSafety` with EltHalf = Kto shows it).
- With `--init`, the first turn may return a region in which the configuration
  was never looked for, in spite of the comment at
  `src/src/k-bounded_safety_aut.hh:107`.  The verdict of such a command line, or
  of one with too large a K, may then be wrong: `VerdictAboutInput` excludes
  them (`Exact`).
- A worker's id is sent as a `char`: with more than 127 workers the id read is
  negative and the assertion at `src/src/composition/composition_mt.hh:528`
  fails.
- `winregion` writes counters in `vec_bits - 1 = ceil (log2 (Kto))` bits after
  the bit of the sign.  The debug build moves to the next bit after every digit,
  the last one included, and asserts that this bit is not the sign's
  (`assert (cbit >= 1)`, `src/src/k-bounded_safety_aut.hh:444`).  So it stops on
  any successor in a bad transition with a component that uses the digit next to
  the sign, although that digit fits: 2 or 3 with Kto = 3, and Kto itself with
  every Kto.  A bad transition with a counter that has just reached Kto is
  enough, so that few winning regions can be written by this build.  Without
  assertions there is room, except that a counter which has reached Kto, a power
  of two, has its digit on the sign bit and reads as -1.  The `Synthesis` run has
  Kto = 3 and both builds: games whose bad successors stop the debug build, and
  games whose bad successors have no component above 1, which it writes.
  `VectorIsReadable` is proved for both.  The comment that calls the digits
  "little endian" means that bit 0 is the sign and the last bit the unit.
- The assertion of the debug build about the most unconstrained solution in
  `synthesis` looks at the outputs only; `NothingLost` is the stronger claim.
- With a game that has no boolean state left, `merge_aut` may return a threshold
  above the number of states, although `src/src/composition/types.hh:32` calls it
  the "number of nonboolean states".  Take two games whose initial state is
  boolean and is left at once, for the only other state; merge each with the game
  of a valid formula (`Valid` of `MCMerge`: one state and no edge), and the results
  with each other.  Both have two states, both with a counter, the initial one
  last; both initial states are purged, the threshold is 5 - 1 and the states that
  are left are three (TLC reports `IsGame` of the merged game in `StartIsGood` when
  `MCMerge` pairs such games).  `num_states () - bool_threshold` is then
  computed below zero with unsigned numbers.  The model goes on with vectors of
  the right length, and its theorems are about those; what the program does past
  this point is not modelled.
- The result `r_null` (`src/src/composition/composition_mt.hh:454-457`) cannot
  be sent: `prepare_formula` returns no automaton only when checking
  unrealizability, which composition refuses.
- The children read the formulas after they were forked.  With `--check=both` and
  formulas on the standard input in more than one `read`, each child decides a
  part of them, and the verdict of the first is printed.
- Help says "3   if any error has been reported"
  (`src/src/acacia-bonsai.cc:156`); a formula that does not parse is reported and
  left out, and the verdict is about the others (`ltl_processor::run` ignores
  what `job_processor::run` returns, line 212).  A file that cannot be opened, or
  a quote that is not closed, ends the child with status 2, which `main` prints
  as UNREALIZABLE (as in run `SupervisorException`).
- The column of `-F FILE/COL` stays in force for the files and the standard
  input that follow (`col_to_read` is set once per job that has a column,
  `src/lib/common_finput.cc:334`).
- The standard input named a second time, in another column, is at its end: it is
  read in the first column only, and the second job adds no formula.
- With both checks of unrealizability and `--winreg`, two children write the same
  file; the one that is stopped may have emptied it after the other closed it.
  So it is with `--check=both`, `--winreg` and formulas on a standard input that
  arrives in pieces: the check of realizability may decide about one piece and
  that of unrealizability about another, and both write the file.  With `--init`
  or too large a K both may decide about the same formula (`OutputComplete` is
  about the runs in which only one side has decided, `Undisputed`).
- `--ins` and `--outs` are not checked: propositions that are in both lists or in
  neither make a specification without a meaning (`world.uncovered`).
- Negative values of K, Kmin and Kinc pass the checks as large unsigned numbers
  (`OptionsChecked` is about the others).
- In the optimized build (NDEBUG) `assert (create_pipe () == 0)`
  (`src/src/composition/composition_mt.hh:487-492`) and
  `assert (aut->new_state () == i)` (`src/src/composition/pipes.hh:239`) are not
  evaluated: no pipe is created and no state is made, so that composition only
  works in builds with assertions.  `Pipes` models the calls as if they were
  made, with the guards (which depend on the same macro) as a choice.
- The master of a worker that died waits for ever (`Hung`).
- The cache of `push_outputs` is keyed by the numbers of BDDs to which it keeps
  no reference; the model keys it by what the BDDs mean.

## 6. Plan

Done: every component of the inventory, its runs, three refinements
(`KBoundedSafety`, `Conjunction`, `Mailboxes`), two of them proved, and the
proofs above.  What is left are proofs:

1. `GoodStarts` for merged games (`StartIsGood`), from `MergedRegionIsProduct` and
   with the winning region as the largest controlled set instead of a fixpoint.
2. `Aligned` of `Pipes`, with messages as sequences of fields of one kind.
