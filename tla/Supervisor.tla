----------------------------- MODULE Supervisor -----------------------------
(***************************************************************************)
(* main of acacia-bonsai.cc: the parent forks one child per check          *)
(* (realizability, and unrealizability by two translations), waits for     *)
(* them, and prints the verdict of the first that decides.  terminate()    *)
(* stops the others: the parent ignores SIGTERM, sends it to its process   *)
(* group and waits until it has no child left.  It is also the handler of  *)
(* SIGTERM and SIGINT.                                                     *)
(*                                                                         *)
(* A child's run is abstracted to what it ends with.  Whether the formula  *)
(* is realizable is chosen initially, and a child only decides what is     *)
(* true (modules KBoundedSafety and Composition are about that); it may    *)
(* always fail to decide, since K is bounded.                              *)
(***************************************************************************)
EXTENDS Integers, Sequences

CONSTANTS
  MayThrow,  \* a child may end with an uncaught exception
  MayDie,    \* a child may be killed by a signal (failed assertion, memory)
  MaySignal  \* the parent may get one SIGTERM or SIGINT from outside

ASSUME SupervisorAssumption ==
  MayThrow \in BOOLEAN /\ MayDie \in BOOLEAN /\ MaySignal \in BOOLEAN

Kids == {"real", "unreal-x=f", "unreal-x=a"}

(* The children that --check and --unreal-x ask for, in the order of main. *)
Plans == {<<"real">>, <<"unreal-x=f">>, <<"unreal-x=a">>,
          <<"unreal-x=f", "unreal-x=a">>,
          <<"real", "unreal-x=f">>, <<"real", "unreal-x=a">>,
          <<"real", "unreal-x=f", "unreal-x=a">>}

VARIABLES
  realizable,  \* the truth about the formula
  mpc,         \* the parent: "fork", "wait", "kill", "drain" or "done"
  toFork,      \* the children still to be forked
  why,         \* what terminate() was called for: "none", "verdict", "died", "signal"
  resume,      \* where the handler returns to
  ret,         \* the exit status that ended the wait loop
  ignoring,    \* the parent ignores SIGTERM, and so will children it forks
  signalled,   \* the outside signal has arrived: "no", "forking" or "later"
  kid,         \* per child: "none", "running", "exited" (not waited for), "reaped"
  code,        \* its exit status, -1 when killed by a signal
  won,         \* its run() returned non-zero
  deaf,        \* it has inherited an ignored SIGTERM
  pending,     \* SIGTERM has been sent to it
  printed      \* the last line of output, "" while there is none

parent == <<mpc, toFork, why, resume, ret, ignoring, signalled, printed>>
children == <<kid, code, won, deaf, pending>>
vars == <<realizable, parent, children>>

Init ==
  /\ realizable \in BOOLEAN
  /\ mpc = "fork"
  /\ toFork \in Plans
  /\ why = "none" /\ resume = "none" /\ ret = 3
  /\ ignoring = FALSE /\ signalled = "no" /\ printed = ""
  /\ kid = [k \in Kids |-> "none"]
  /\ code = [k \in Kids |-> 3]
  /\ won = [k \in Kids |-> FALSE]
  /\ deaf = [k \in Kids |-> FALSE]
  /\ pending = [k \in Kids |-> FALSE]

-----------------------------------------------------------------------------
(* Mutant of Fork: SIGTERM is ignored before the children are forked. *)
ForkDeaf ==
  /\ mpc = "fork"
  /\ LET k == Head(toFork)
     IN  /\ kid' = [kid EXCEPT ![k] = "running"]
         /\ deaf' = [deaf EXCEPT ![k] = TRUE]
  /\ toFork' = Tail(toFork)
  /\ mpc' = IF Len(toFork) = 1 THEN "wait" ELSE "fork"
  /\ UNCHANGED <<realizable, why, resume, ret, ignoring, signalled, printed, code, won, pending>>

(* start_proc. *)
Fork ==
  /\ mpc = "fork"
  /\ LET k == Head(toFork)
     IN  /\ kid' = [kid EXCEPT ![k] = "running"]
         /\ deaf' = [deaf EXCEPT ![k] = ignoring]
  /\ toFork' = Tail(toFork)
  /\ mpc' = IF Len(toFork) = 1 THEN "wait" ELSE "fork"
  /\ UNCHANGED <<realizable, why, resume, ret, ignoring, signalled, printed, code, won, pending>>

(* Mutant of Wait: "unknown" also ends the loop. *)
WaitTakesUnknown(k) ==
  /\ mpc = "wait"
  /\ kid[k] = "exited"
  /\ kid' = [kid EXCEPT ![k] = "reaped"]
  /\ mpc' = "kill"
  /\ IF code[k] = -1
     THEN why' = "died" /\ UNCHANGED ret
     ELSE why' = "verdict" /\ ret' = code[k]
  /\ UNCHANGED <<realizable, toFork, resume, ignoring, signalled, printed, code, won, deaf, pending>>

(* wait() returns child k, in the loop of main: any that has ended. *)
Wait(k) ==
  /\ mpc = "wait"
  /\ kid[k] = "exited"
  /\ kid' = [kid EXCEPT ![k] = "reaped"]
  /\ \/ /\ code[k] = -1
        /\ why' = "died" /\ mpc' = "kill"
        /\ UNCHANGED ret
     \/ /\ code[k] \in 0 .. 2
        /\ ret' = code[k]
        /\ why' = "verdict" /\ mpc' = "kill"
     \/ /\ code[k] = 3
        /\ UNCHANGED <<why, mpc, ret>>
  /\ UNCHANGED <<realizable, toFork, resume, ignoring, signalled, printed, code, won, deaf, pending>>

NoChild == \A k \in Kids : kid[k] \in {"none", "reaped"}

(* Mutant of Unknown: one undecided child is enough. *)
UnknownEarly ==
  /\ mpc = "wait"
  /\ \E k \in Kids : kid[k] = "reaped"
  /\ printed' = "UNKNOWN" /\ ret' = 3 /\ mpc' = "done"
  /\ UNCHANGED <<realizable, toFork, why, resume, ignoring, signalled, children>>

(* wait() fails: there is no child left. *)
Unknown ==
  /\ mpc = "wait"
  /\ NoChild
  /\ printed' = "UNKNOWN" /\ ret' = 3 /\ mpc' = "done"
  /\ UNCHANGED <<realizable, toFork, why, resume, ignoring, signalled, children>>

(* terminate(): ignore SIGTERM, and send it to every process of the group. *)
Kill ==
  /\ mpc = "kill"
  /\ ignoring' = TRUE
  /\ pending' = [k \in Kids |-> pending[k] \/ (kid[k] = "running" /\ ~deaf[k])]
  /\ mpc' = "drain"
  /\ UNCHANGED <<realizable, toFork, why, resume, ret, signalled, printed, kid, code, won, deaf>>

(* terminate(): wait for a child, whatever it ended with. *)
Drain(k) ==
  /\ mpc = "drain"
  /\ kid[k] = "exited"
  /\ kid' = [kid EXCEPT ![k] = "reaped"]
  /\ UNCHANGED <<realizable, parent, code, won, deaf, pending>>

(* Mutant of Verdict: printed without waiting for the children. *)
VerdictEarly ==
  /\ mpc = "drain" /\ why = "verdict"
  /\ printed' = IF ret = 0 THEN "REALIZABLE" ELSE "UNREALIZABLE"
  /\ mpc' = "done"
  /\ UNCHANGED <<realizable, toFork, why, resume, ret, ignoring, signalled, children>>

(* terminate() returns to main, which prints the verdict of ret. *)
Verdict ==
  /\ mpc = "drain" /\ why = "verdict" /\ NoChild
  /\ printed' = IF ret = 0 THEN "REALIZABLE" ELSE "UNREALIZABLE"
  /\ mpc' = "done"
  /\ UNCHANGED <<realizable, toFork, why, resume, ret, ignoring, signalled, children>>

(* terminate() returns to main, which reports the dead child and aborts. *)
Abort ==
  /\ mpc = "drain" /\ why = "died" /\ NoChild
  /\ printed' = "ERROR"
  /\ mpc' = "done"
  /\ UNCHANGED <<realizable, toFork, why, resume, ret, ignoring, signalled, children>>

(***************************************************************************)
(* An outside signal is delivered: the handler runs terminate().  Later    *)
(* than this, SIGTERM is ignored and the handler of SIGINT would only      *)
(* repeat the wait that is going on.                                       *)
(***************************************************************************)
Signal ==
  /\ MaySignal /\ signalled = "no"
  /\ mpc \in {"fork", "wait", "kill"}
  /\ signalled' = IF mpc = "fork" THEN "forking" ELSE "later"
  /\ resume' = <<mpc, why>>
  /\ why' = "signal" /\ mpc' = "kill"
  /\ UNCHANGED <<realizable, toFork, ret, ignoring, printed, children>>

(* Mutant of Resume: the handler starts over. *)
ResumeKill ==
  /\ mpc = "drain" /\ why = "signal" /\ NoChild
  /\ mpc' = "kill"
  /\ UNCHANGED <<realizable, toFork, why, resume, ret, ignoring, signalled, printed, children>>

(***************************************************************************)
(* The handler returns: forking goes on, a wait() is over (EINTR or no     *)
(* child), and a terminate() that was about to start is repeated.          *)
(***************************************************************************)
Resume ==
  /\ mpc = "drain" /\ why = "signal" /\ NoChild
  /\ mpc' = resume[1] /\ why' = resume[2]
  /\ UNCHANGED <<realizable, toFork, resume, ret, ignoring, signalled, printed, children>>

-----------------------------------------------------------------------------
(* Mutant of ExitStatus: -1 for "unknown". *)
ExitStatusMinus1(k, w) == IF ~w THEN 255 ELSE IF k = "real" THEN 0 ELSE 1

(* What the child exits with when run() returned w: status 3 is "unknown". *)
ExitStatus(k, w) == IF ~w THEN 3 ELSE IF k = "real" THEN 0 ELSE 1

MayWin(k) == IF k = "real" THEN realizable ELSE ~realizable

End(k, c, w) ==
  /\ kid[k] = "running"
  /\ kid' = [kid EXCEPT ![k] = "exited"]
  /\ code' = [code EXCEPT ![k] = c]
  /\ won' = [won EXCEPT ![k] = w]
  /\ UNCHANGED <<realizable, parent, deaf, pending>>

(* run() returns. *)
Finish(k) == \E w \in BOOLEAN : (w => MayWin(k)) /\ End(k, ExitStatus(k, w), w)

(* handle_any_exception: status 2. *)
Throw(k) == MayThrow /\ End(k, 2, FALSE)

Die(k) == MayDie /\ End(k, -1, FALSE)

(* terminate() in a child: _exit (3). *)
Terminated(k) == pending[k] /\ End(k, 3, FALSE)

-----------------------------------------------------------------------------

ParentStep ==
  \/ Fork \/ Unknown \/ Kill \/ Verdict \/ Abort \/ Resume
  \/ \E k \in Kids : Wait(k) \/ Drain(k)

KidStep(k) == Finish(k) \/ Throw(k) \/ Die(k) \/ Terminated(k)

Finished == mpc = "done" /\ UNCHANGED vars

Next == ParentStep \/ Signal \/ (\E k \in Kids : KidStep(k)) \/ Finished

Spec == Init /\ [][Next]_vars

(* All processes are scheduled, and every run of solve ends (KBoundedSafety). *)
FairSpec == Spec /\ WF_vars(ParentStep) /\ \A k \in Kids : WF_vars(KidStep(k))

-----------------------------------------------------------------------------

TypeOK ==
  /\ realizable \in BOOLEAN
  /\ mpc \in {"fork", "wait", "kill", "drain", "done"}
  /\ toFork \in Plans \cup {<<>>}
  /\ why \in {"none", "verdict", "died", "signal"}
  /\ ret \in 0 .. 3
  /\ ignoring \in BOOLEAN /\ signalled \in {"no", "forking", "later"}
  /\ kid \in [Kids -> {"none", "running", "exited", "reaped"}]
  /\ code \in [Kids -> -1 .. 3]
  /\ won \in [Kids -> BOOLEAN] /\ deaf \in [Kids -> BOOLEAN] /\ pending \in [Kids -> BOOLEAN]
  /\ printed \in {"", "REALIZABLE", "UNREALIZABLE", "UNKNOWN", "ERROR"}

(***************************************************************************)
(* A printed verdict is the decision of a child of that side, and so true. *)
(***************************************************************************)
VerdictCorrect ==
  /\ printed = "REALIZABLE" => realizable /\ won["real"]
  /\ printed = "UNREALIZABLE" => ~realizable /\ \E k \in Kids \ {"real"} : won[k]

(***************************************************************************)
(* A wrong verdict takes a child that ended with an exception.             *)
(***************************************************************************)
VerdictUnlessThrown == (\A k \in Kids : code[k] # 2) => VerdictCorrect

(***************************************************************************)
(* Unless a signal stopped the program, UNKNOWN is only printed when every *)
(* child ran to its end and none decided: no decision is lost.             *)
(***************************************************************************)
UnknownJustified ==
  printed = "UNKNOWN" /\ signalled = "no" =>
    \A k \in Kids : kid[k] = "none" \/ (kid[k] = "reaped" /\ code[k] = 3 /\ ~won[k])

(* When the program ends it leaves no child behind, running or zombie. *)
NoChildLeft == mpc = "done" => NoChild

(***************************************************************************)
(* While terminate() waits, every child that still runs is being stopped:  *)
(* it need not finish its game.  A signal that arrives while main is still *)
(* forking is the exception: later children inherit the ignored SIGTERM.   *)
(***************************************************************************)
DrainStops ==
  mpc = "drain" /\ signalled # "forking" =>
    \A k \in Kids : kid[k] = "running" => pending[k]

(* The program ends. *)
Termination == <>(mpc = "done")
=============================================================================
