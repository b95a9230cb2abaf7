----------------------------- MODULE Composition -----------------------------
(***************************************************************************)
(* composition_mt::run (src/src/composition/composition_mt.hh): a master   *)
(* process decides the conjunction of several formulas with forked         *)
(* workers.  A formula job is translated into a game or, when it is        *)
(* G(boolean function), into an invariant; a solve job shrinks the safe    *)
(* region of a game.  The master merges solved games two by two into new   *)
(* solve jobs until one game is left, and aborts on the first losing one.  *)
(*                                                                         *)
(* A game is abstracted to the set of formulas it stands for, an invariant *)
(* to the set of formulas conjoined in it.  Which conjunctions are         *)
(* realizable is chosen initially and never changes.  That solving a game  *)
(* finds out whether its formulas are realizable under the invariant is    *)
(* what module KBoundedSafety is about.                                    *)
(***************************************************************************)
EXTENDS Integers, Sequences, FiniteSets

CONSTANTS
  Formulas,           \* the -f arguments
  WorkerCount,        \* --workers, or hardware_concurrency()
  IdHalf,             \* a char holds -IdHalf .. IdHalf-1 (128 on x86)
  Worlds,             \* what the formulas are, see IsWorld
  CrashWorlds         \* those in which workers may die (signal, failed assertion, exception)

(***************************************************************************)
(* kind says what prepare_formula makes of a formula, realizable which     *)
(* conjunctions can be realized, and falsum which conjunctions of          *)
(* invariants are the BDD bddfalse.  supports_invariant is that of the     *)
(* IOS_PRECOMPUTER the program is built with.                              *)
(***************************************************************************)
IsWorld(w) ==
  /\ w.kind \in [Formulas -> {"game", "invariant"}]
  /\ w.realizable \subseteq SUBSET Formulas
  /\ \A S \in w.realizable : SUBSET S \subseteq w.realizable
  /\ {} \in w.realizable
  /\ w.supports_invariant \in BOOLEAN
  /\ w.falsum \subseteq (SUBSET Formulas) \ w.realizable

ASSUME CompositionAssumption ==
  /\ IsFiniteSet(Formulas) /\ Formulas # {}
  /\ WorkerCount \in Nat \ {0} /\ IdHalf \in Nat \ {0}
  /\ \A w \in Worlds : IsWorld(w)
  /\ CrashWorlds \subseteq Worlds

AtMost(x, y) == IF x =< y THEN x ELSE y

(* At most 255 workers, since ids are sent as one char; at most one per job. *)
NumWorkers == AtMost(AtMost(WorkerCount, 2 * IdHalf - 1), Cardinality(Formulas))

Workers == 0 .. NumWorkers - 1

(* Mutant of Char: offset binary. *)
CharOffset(x) == (x + IdHalf) % (2 * IdHalf)

(* Conversion of an int to char. *)
Char(x) == ((x + IdHalf) % (2 * IdHalf)) - IdHalf

VARIABLES
  world,      \* see Worlds
  mpc,        \* where the master is in run()
  st,         \* the master's composition_mt object and base_remaining
  wid,        \* the worker whose result is being read; while spawning, the next to fork
  active,     \* workers[i].active
  verdict,    \* what run() returned: 0, 1, or -1 while it has not
  wpc,        \* where each worker is in be_child()
  job,        \* the job each worker is busy with (DoneJob: none)
  shared,     \* shared_pipe: the ids of the workers that have a result
  fromMain,   \* workers[i].from_main
  toMain      \* workers[i].to_main

master == <<mpc, st, wid, active, verdict>>
vars == <<world, mpc, st, wid, active, verdict, wpc, job, shared, fromMain, toMain>>

-----------------------------------------------------------------------------
(***************************************************************************)
(* Data.  A solve job carries the invariant it is to be solved under.      *)
(***************************************************************************)
Games == [parts : SUBSET Formulas, safe : BOOLEAN, solved : BOOLEAN, invariant : SUBSET Formulas]

NoGame == [parts |-> {}]

FormulaJob(f) == [type |-> "formula", formula |-> f]
SolveJob(g)   == [type |-> "solve", game |-> g, invariant |-> {}]
DoneJob       == [type |-> "done"]

Jobs == [type : {"formula"}, formula : Formulas]
        \cup [type : {"solve"}, game : Games, invariant : SUBSET Formulas]

Results == [type : {"invariant"}, formula : Formulas] \cup [type : {"game"}, game : Games]

(* job->set_invariant *)
SetInvariant(j, inv) == IF j.type = "solve" THEN [j EXCEPT !.invariant = inv] ELSE j

(***************************************************************************)
(* solve_game: the invariant only plays a role if the IOs precomputer      *)
(* filters the letters by it.                                              *)
(***************************************************************************)
UsedInvariant(inv) == IF world.supports_invariant THEN inv ELSE {}

SolveGame(g, inv) ==
  [g EXCEPT !.safe = (g.parts \cup UsedInvariant(inv)) \in world.realizable,
            !.solved = TRUE,
            !.invariant = inv]

(***************************************************************************)
(* prepare_formula and is_invariant.  The null result does not exist here: *)
(* prepare_formula only returns no automaton when checking unrealizability.*)
(***************************************************************************)
Prepare(f) ==
  IF world.kind[f] = "invariant"
  THEN [type |-> "invariant", formula |-> f]
  ELSE [type |-> "game",
        game |-> [parts |-> {f}, safe |-> TRUE, solved |-> FALSE, invariant |-> {}]]

ResultOf(j) ==
  IF j.type = "formula" THEN Prepare(j.formula)
  ELSE [type |-> "game", game |-> SolveGame(j.game, j.invariant)]

-----------------------------------------------------------------------------
(***************************************************************************)
(* The master's handlers, as functions of its object s.                    *)
(***************************************************************************)
Enqueue(s, j) == [s EXCEPT !.pending_jobs = Append(@, j)]

Merge(g, h) == [parts |-> g.parts \cup h.parts, safe |-> TRUE, solved |-> FALSE,
                invariant |-> g.invariant]

AddResult(s, g) ==
  IF s.stored_result = NoGame
  THEN [s EXCEPT !.stored_result = g]
  ELSE [Enqueue(s, SolveJob(Merge(s.stored_result, g))) EXCEPT !.stored_result = NoGame]

AddInvariant(s, f) ==
  LET inv == s.invariant \cup {f}
  IN  [s EXCEPT !.invariant = inv, !.losing = @ \/ inv \in world.falsum]

(* The 2-state automaton of all invariants is marked solved from the start. *)
InvariantGame(inv) == [parts |-> inv, safe |-> TRUE, solved |-> TRUE, invariant |-> {}]

FinishInvariant(s) ==
  IF s.invariant = {} THEN s ELSE AddResult(s, InvariantGame(s.invariant))

(* Mutant of HandleResult: a solved game is counted as a translated formula. *)
HandleResultMiscounts(s, r) ==
  CASE r.type = "invariant" ->
         AddInvariant([s EXCEPT !.base_remaining = @ - 1], r.formula)
    [] r.type = "game" /\ ~r.game.safe ->
         [s EXCEPT !.losing = TRUE]
    [] r.type = "game" /\ r.game.safe /\ r.game.solved ->
         AddResult([s EXCEPT !.base_remaining = @ - 1], r.game)
    [] r.type = "game" /\ r.game.safe /\ ~r.game.solved ->
         Enqueue([s EXCEPT !.base_remaining = @ - 1], SolveJob(r.game))

HandleResult(s, r) ==
  CASE r.type = "invariant" ->
         AddInvariant([s EXCEPT !.base_remaining = @ - 1], r.formula)
    [] r.type = "game" /\ ~r.game.safe ->
         [s EXCEPT !.losing = TRUE]
    [] r.type = "game" /\ r.game.safe /\ r.game.solved ->
         AddResult(s, r.game)
    [] r.type = "game" /\ r.game.safe /\ ~r.game.solved ->
         Enqueue([s EXCEPT !.base_remaining = @ - 1], SolveJob(r.game))

(* Mutant of AfterResult: the invariants' game is added again and again. *)
AfterResultRepeats(s) ==
  IF ~world.supports_invariant /\ s.base_remaining = 0 THEN FinishInvariant(s) ELSE s

(* Once all formulas are translated, without support for invariants. *)
AfterResult(s) ==
  IF ~world.supports_invariant /\ s.base_remaining = 0
  THEN FinishInvariant([s EXCEPT !.base_remaining = -1])
  ELSE s

-----------------------------------------------------------------------------

Init ==
  /\ world \in Worlds
  /\ mpc = "spawn" /\ wid = 0 /\ verdict = -1
  /\ \E order \in [1 .. Cardinality(Formulas) -> Formulas] :
       /\ {order[n] : n \in DOMAIN order} = Formulas
       /\ st = [pending_jobs   |-> [n \in 1 .. Cardinality(Formulas) |-> FormulaJob(order[n])],
                stored_result  |-> NoGame,
                losing         |-> FALSE,
                invariant      |-> {},
                base_remaining |-> Cardinality(Formulas)]
  /\ active = [w \in Workers |-> TRUE]
  /\ wpc = [w \in Workers |-> "unborn"]
  /\ job = [w \in Workers |-> DoneJob]
  /\ shared = <<>>
  /\ fromMain = [w \in Workers |-> <<>>]
  /\ toMain = [w \in Workers |-> <<>>]

(* Fork worker wid and hand it the next formula. *)
Spawn ==
  /\ mpc = "spawn"
  /\ wpc' = [wpc EXCEPT ![wid] = "waiting"]
  /\ fromMain' = [fromMain EXCEPT ![wid] = Append(@, Head(st.pending_jobs))]
  /\ st' = [st EXCEPT !.pending_jobs = Tail(@)]
  /\ IF wid + 1 < NumWorkers
     THEN wid' = wid + 1 /\ mpc' = "spawn"
     ELSE wid' = 0 /\ mpc' = "read_id"
  /\ UNCHANGED <<world, active, verdict, job, shared, toMain>>

(* Wait on the shared pipe; an id that is no worker's fails an assertion. *)
ReadId ==
  /\ mpc = "read_id"
  /\ shared # <<>>
  /\ shared' = Tail(shared)
  /\ wid' = Head(shared)
  /\ mpc' = IF Head(shared) \in Workers THEN "read_result" ELSE "aborted"
  /\ UNCHANGED <<world, st, active, verdict, wpc, job, fromMain, toMain>>

(* Read the result of wid, then give it another job or release it. *)
ReadResult ==
  /\ mpc = "read_result"
  /\ toMain[wid] # <<>>
  /\ toMain' = [toMain EXCEPT ![wid] = Tail(@)]
  /\ LET s == AfterResult(HandleResult(st, Head(toMain[wid])))
     IN  \/ /\ s.losing
            /\ st' = s
            /\ mpc' = "kill"
            /\ UNCHANGED <<fromMain, active>>
         \/ /\ ~s.losing
            /\ s.pending_jobs = <<>>
            /\ st' = s
            /\ fromMain' = [fromMain EXCEPT ![wid] = Append(@, DoneJob)]
            /\ active' = [active EXCEPT ![wid] = FALSE]
            /\ mpc' = "reap"
         \/ /\ ~s.losing
            /\ s.pending_jobs # <<>>
            /\ st' = [s EXCEPT !.pending_jobs = Tail(@)]
            /\ fromMain' = [fromMain EXCEPT
                 ![wid] = Append(@, SetInvariant(Head(s.pending_jobs), s.invariant))]
            /\ mpc' = "read_id"
            /\ UNCHANGED active
  /\ UNCHANGED <<world, wid, verdict, wpc, job, shared>>

(* Mutant of Reap: active_workers is not decremented. *)
ReapUncounted ==
  /\ mpc = "reap"
  /\ wpc[wid] \in {"exited", "crashed"}
  /\ mpc' = "read_id"
  /\ UNCHANGED <<world, st, wid, active, verdict, wpc, job, shared, fromMain, toMain>>

(* waitpid on the released worker. *)
Reap ==
  /\ mpc = "reap"
  /\ wpc[wid] \in {"exited", "crashed"}
  /\ mpc' = IF \E w \in Workers : active[w] THEN "read_id" ELSE "epilogue"
  /\ UNCHANGED <<world, st, wid, active, verdict, wpc, job, shared, fromMain, toMain>>

(* SIGKILL and waitpid for every worker that has not been released. *)
KillAll ==
  /\ mpc = "kill"
  /\ wpc' = [w \in Workers |-> IF active[w] /\ wpc[w] # "crashed" THEN "killed" ELSE wpc[w]]
  /\ mpc' = "epilogue"
  /\ UNCHANGED <<world, st, wid, active, verdict, job, shared, fromMain, toMain>>

(***************************************************************************)
(* epilogue: without any game, a dummy automaton that is marked solved; a  *)
(* last solve if the game is unsolved or was solved under an older         *)
(* invariant.                                                              *)
(***************************************************************************)
DummyGame == [parts |-> {}, safe |-> TRUE, solved |-> TRUE, invariant |-> st.invariant]

(* Mutant of FinalGame: a game solved under an older invariant is final. *)
FinalGameStale ==
  LET r == IF st.stored_result = NoGame THEN DummyGame ELSE st.stored_result
  IN  IF ~r.solved THEN SolveGame(r, st.invariant) ELSE r

FinalGame ==
  LET r == IF st.stored_result = NoGame THEN DummyGame ELSE st.stored_result
      not_fully_solved == r.invariant # st.invariant /\ world.supports_invariant
  IN  IF ~r.solved \/ not_fully_solved THEN SolveGame(r, st.invariant) ELSE r

Epilogue ==
  /\ mpc = "epilogue"
  /\ verdict' = IF ~st.losing /\ FinalGame.safe THEN 1 ELSE 0
  /\ mpc' = "done"
  /\ UNCHANGED <<world, st, wid, active, wpc, job, shared, fromMain, toMain>>

-----------------------------------------------------------------------------
(* be_child: wait for a job. *)
ReadJob(w) ==
  /\ wpc[w] = "waiting"
  /\ fromMain[w] # <<>>
  /\ fromMain' = [fromMain EXCEPT ![w] = Tail(@)]
  /\ job' = [job EXCEPT ![w] = Head(fromMain[w])]
  /\ wpc' = [wpc EXCEPT ![w] = IF Head(fromMain[w]) = DoneJob THEN "exited" ELSE "busy"]
  /\ UNCHANGED <<world, master, shared, toMain>>

(* Mutant of Announce: the id is written as more than one byte. *)
AnnounceWide(w) ==
  /\ wpc[w] = "busy"
  /\ shared' = shared \o <<Char(w), 0>>
  /\ wpc' = [wpc EXCEPT ![w] = "writing"]
  /\ UNCHANGED <<world, master, job, fromMain, toMain>>

(* The job is finished: announce it on the shared pipe ... *)
Announce(w) ==
  /\ wpc[w] = "busy"
  /\ shared' = Append(shared, Char(w))
  /\ wpc' = [wpc EXCEPT ![w] = "writing"]
  /\ UNCHANGED <<world, master, job, fromMain, toMain>>

(* ... and then write the result on the worker's own pipe. *)
WriteResult(w) ==
  /\ wpc[w] = "writing"
  /\ toMain' = [toMain EXCEPT ![w] = Append(@, ResultOf(job[w]))]
  /\ job' = [job EXCEPT ![w] = DoneJob]
  /\ wpc' = [wpc EXCEPT ![w] = "waiting"]
  /\ UNCHANGED <<world, master, shared, fromMain>>

Crash(w) ==
  /\ world \in CrashWorlds
  /\ wpc[w] \in {"waiting", "busy", "writing"}
  /\ wpc' = [wpc EXCEPT ![w] = "crashed"]
  /\ UNCHANGED <<world, master, job, shared, fromMain, toMain>>

-----------------------------------------------------------------------------

MasterStep == Spawn \/ ReadId \/ ReadResult \/ Reap \/ KillAll \/ Epilogue

WorkerStep(w) == ReadJob(w) \/ Announce(w) \/ WriteResult(w)

Finished == mpc = "done" /\ UNCHANGED vars

(***************************************************************************)
(* The master holds the write end of the shared pipe, and workers those of *)
(* all pipes: instead of an end of file it waits for ever for the result   *)
(* of a worker that died.                                                  *)
(***************************************************************************)
Hung ==
  /\ \/ mpc = "read_id" /\ shared = <<>>
     \/ mpc = "read_result" /\ toMain[wid] = <<>>
  /\ \A w \in Workers : wpc[w] \in {"exited", "crashed"} \/ (wpc[w] = "waiting" /\ fromMain[w] = <<>>)
  /\ \E w \in Workers : wpc[w] = "crashed"
  /\ UNCHANGED vars

Next == MasterStep \/ (\E w \in Workers : WorkerStep(w) \/ Crash(w)) \/ Finished \/ Hung

Spec == Init /\ [][Next]_vars

(***************************************************************************)
(* The master and every worker are processes the system schedules, and a   *)
(* job takes finite time.  Nothing forces a crash.                         *)
(***************************************************************************)
FairSpec ==
  /\ Spec
  /\ WF_vars(MasterStep)
  /\ \A w \in Workers : WF_vars(WorkerStep(w))

-----------------------------------------------------------------------------

MasterState ==
  [pending_jobs   : Seq(Jobs),
   stored_result  : Games \cup {NoGame},
   losing         : BOOLEAN,
   invariant      : SUBSET Formulas,
   base_remaining : Int]

TypeOK ==
  /\ mpc \in {"spawn", "read_id", "read_result", "reap", "kill", "epilogue", "done", "aborted"}
  /\ st \in MasterState
  /\ wid \in -IdHalf .. 2 * IdHalf
  /\ active \in [Workers -> BOOLEAN]
  /\ verdict \in {-1, 0, 1}
  /\ wpc \in [Workers -> {"unborn", "waiting", "busy", "writing", "exited", "crashed", "killed"}]
  /\ job \in [Workers -> Jobs \cup {DoneJob}]
  /\ shared \in Seq(-IdHalf .. IdHalf - 1)
  /\ fromMain \in [Workers -> Seq(Jobs \cup {DoneJob})]
  /\ toMain \in [Workers -> Seq(Results)]

(***************************************************************************)
(* The answer is right: run() returns 1 if and only if the conjunction of  *)
(* all formulas is realizable (acacia-bonsai.cc:153).                      *)
(***************************************************************************)
VerdictExact == mpc = "done" => (verdict = 1 <=> Formulas \in world.realizable)

(***************************************************************************)
(* No formula is lost or played twice: before an abort every formula is in *)
(* exactly one pending job, message, running job, stored result or in the  *)
(* invariant that solving uses.                                            *)
(***************************************************************************)
JobParts(j) ==
  CASE j.type = "formula" -> {j.formula}
    [] j.type = "solve"   -> j.game.parts
    [] j.type = "done"    -> {}

ResultParts(r) == IF r.type = "game" THEN r.game.parts ELSE {r.formula}

PlayedInvariant ==
  IF world.supports_invariant \/ st.base_remaining # -1 THEN st.invariant ELSE {}

Holders(f) ==
  {<<"pending", n>> : n \in {n \in DOMAIN st.pending_jobs : f \in JobParts(st.pending_jobs[n])}}
  \cup {<<"job", w>> : w \in {w \in Workers : f \in JobParts(job[w])}}
  \cup (UNION {{<<"from", w, n>> : n \in {n \in DOMAIN fromMain[w] : f \in JobParts(fromMain[w][n])}}
                : w \in Workers})
  \cup (UNION {{<<"to", w, n>> : n \in {n \in DOMAIN toMain[w] : f \in ResultParts(toMain[w][n])}}
                : w \in Workers})
  \cup {<<"stored">> : x \in {f} \cap st.stored_result.parts}
  \cup {<<"invariant">> : x \in {f} \cap PlayedInvariant}

EachFormulaOnce == ~st.losing => \A f \in Formulas : Cardinality(Holders(f)) = 1

(***************************************************************************)
(* base_remaining counts the formulas that are not translated, or whose    *)
(* translation is still on its way: when it is 0, all invariants are in.   *)
(***************************************************************************)
Untranslated(f) ==
  LET isJob(j) == j.type = "formula" /\ j.formula = f
      isNew(r) == \/ r.type = "invariant" /\ r.formula = f
                  \/ r.type = "game" /\ r.game.parts = {f} /\ ~r.game.solved
  IN  \/ \E n \in DOMAIN st.pending_jobs : isJob(st.pending_jobs[n])
      \/ \E w \in Workers : \/ isJob(job[w])
                            \/ \E n \in DOMAIN fromMain[w] : isJob(fromMain[w][n])
                            \/ \E n \in DOMAIN toMain[w] : isNew(toMain[w][n])

CountdownExact ==
  st.base_remaining # -1 => st.base_remaining = Cardinality({f \in Formulas : Untranslated(f)})

(***************************************************************************)
(* Every id on the shared pipe (or just read from it) announces exactly    *)
(* one result, written or being written, of a worker that has no other:    *)
(* only a death between the two writes can make the master wait for a      *)
(* result that is not coming, and it never takes one for another's.        *)
(***************************************************************************)
Announcements(w) ==
  Cardinality({n \in DOMAIN shared : shared[n] = w})
  + (IF mpc = "read_result" /\ wid = w THEN 1 ELSE 0)

AnnouncedOnce ==
  mpc \in {"spawn", "read_id", "read_result", "reap"} =>
    \A w \in Workers :
      Announcements(w) - Len(toMain[w]) \in
        CASE wpc[w] = "writing" -> {1}
          [] wpc[w] = "crashed" -> {0, 1}
          [] OTHER -> {0}

(***************************************************************************)
(* The master's run implements Conjunction.  A block is the set of         *)
(* formulas of a game, wherever the game is, of a formula that is not      *)
(* translated yet, or of the invariant that solving uses.                  *)
(***************************************************************************)
Blocks ==
  LET jobs == {job[w] : w \in Workers}
              \cup {st.pending_jobs[n] : n \in DOMAIN st.pending_jobs}
              \cup (UNION {{fromMain[w][n] : n \in DOMAIN fromMain[w]} : w \in Workers})
      results == UNION {{toMain[w][n] : n \in DOMAIN toMain[w]} : w \in Workers}
  IN  ({JobParts(j) : j \in jobs} \cup {ResultParts(r) : r \in results}
       \cup {st.stored_result.parts, PlayedInvariant}) \ {{}}

Promise == INSTANCE Conjunction WITH
  realizable <- world.realizable,
  blocks <- IF st.losing THEN {} ELSE Blocks,
  worker_lost <- \E w \in Workers : wpc[w] = "crashed"

(***************************************************************************)
(* run() decides the conjunction of its formulas from its parts: it loses  *)
(* none, aborts only because some of them cannot be realized together,     *)
(* answers only when all are in one game (and the invariant), and answers  *)
(* right.                                                                  *)
(***************************************************************************)
ImplementsConjunction == Promise!Spec

(***************************************************************************)
(* run() returns unless a worker died: no result, job or release that      *)
(* someone waits for is ever missing.                                      *)
(***************************************************************************)
AnswerComes == Promise!AnswerComes
=============================================================================
