----------------------------- MODULE ProgramProofs -----------------------------
(***************************************************************************)
(* Whatever the command line, the values of K that reach the solver are    *)
(* those it can work with (OptionsChecked), the supervisor keeps what it   *)
(* promises (UnknownJustified, DrainStops) although its children now read  *)
(* the formulas themselves, and a printed verdict finds its files complete *)
(* (OutputComplete).                                                       *)
(*                                                                         *)
(* The first part is about Supervisor alone, for every choice of what can  *)
(* go wrong; the second about the whole program.                           *)
(***************************************************************************)
EXTENDS Program, FiniteSetTheorems, WellFoundedInduction, TLAPS

(* Supervisor *)

(***************************************************************************)
(* The inductive invariant.  StatusInv relates a child's exit status to    *)
(* what it did; ReasonInv says that what terminate() was called for is the *)
(* end of some child; OutputInv that the output follows from it.  None of  *)
(* them is about the formula: CoreInv also holds when the children read    *)
(* different formulas (ProgramProofs).                                     *)
(***************************************************************************)
Resumes == {"fork", "wait", "kill"} \X {"none", "verdict", "died"}

StatusInv ==
  \A k \in Kids :
    /\ kid[k] \in {"none", "running"} => code[k] = 3 /\ ~won[k]
    /\ code[k] = 0 => k = "real"
    /\ code[k] = 1 => k # "real"
    /\ won[k] <=> code[k] \in {0, 1}

Reason == IF why = "signal" THEN resume[2] ELSE why

ReasonInv ==
  /\ why = "signal" => resume \in Resumes /\ (resume[2] = "none" <=> resume[1] # "kill")
  /\ mpc \in {"fork", "wait"} => why = "none"
  /\ mpc \in {"kill", "drain"} => why # "none"
  /\ Reason = "verdict" => ret \in 0 .. 2
  /\ ret # 3 => \E k \in Kids : kid[k] = "reaped" /\ code[k] = ret
  /\ Reason = "none" => \A k \in Kids : kid[k] = "reaped" => code[k] = 3 \/ signalled # "no"
  /\ signalled = "no" => why # "signal"

OutputInv ==
  /\ mpc = "done" => NoChild
  /\ printed # "" => mpc = "done"
  /\ printed = "REALIZABLE" => ret = 0
  /\ printed = "UNREALIZABLE" => ret \in 1 .. 2
  /\ printed = "UNKNOWN" => why = "none"

Listed(p) == {p[n] : n \in 1 .. Len(p)}

PlanInv ==
  /\ mpc = "fork" \/ (why = "signal" /\ resume[1] = "fork") => toFork \in Plans
  /\ \A k \in Listed(toFork) : kid[k] = "none"

CoreInv == TypeOK /\ StatusInv /\ ReasonInv /\ OutputInv /\ PlanInv

TruthInv == \A k \in Kids : won[k] => MayWin(k)

IInv == CoreInv /\ TruthInv

(* Child k ends with a status that fits what it did. *)
Ends(k) ==
  \E c \in -1 .. 3, w \in BOOLEAN :
    /\ End(k, c, w)
    /\ c = 0 => k = "real"
    /\ c = 1 => k # "real"
    /\ w <=> c \in {0, 1}

(***************************************************************************)
(* Taking the first child from a plan leaves a plan without it.            *)
(***************************************************************************)
LEMMA PlanSteps ==
  ASSUME NEW p \in Plans
  PROVE  /\ Head(p) \in Kids
         /\ Tail(p) \in Plans \cup {<<>>}
         /\ Len(p) # 1 => Tail(p) \in Plans
         /\ Head(p) \in Listed(p)
         /\ Listed(Tail(p)) \subseteq Listed(p) \ {Head(p)}
<1> DEFINE Good == /\ Head(p) \in Kids
                   /\ Tail(p) \in Plans \cup {<<>>}
                   /\ Len(p) # 1 => Tail(p) \in Plans
                   /\ Head(p) \in Listed(p)
                   /\ Listed(Tail(p)) \subseteq Listed(p) \ {Head(p)}
<1> HIDE DEF Good
<1>1. ASSUME NEW k \in Kids, p = <<k>> PROVE Good
  <2>1. Tail(p) = <<>> /\ Head(p) = k /\ Len(p) = 1 /\ Listed(p) = {k}
    BY <1>1 DEF Listed
  <2>2. Listed(<<>>) = {}
    BY DEF Listed
  <2> QED BY <1>1, <2>1, <2>2 DEF Good
<1>2. CASE p = <<"unreal-x=f", "unreal-x=a">>
  <2>1. Tail(p) = <<"unreal-x=a">> /\ Head(p) = "unreal-x=f" /\ Listed(p) = {"unreal-x=f", "unreal-x=a"}
    BY <1>2 DEF Listed
  <2>2. Listed(<<"unreal-x=a">>) = {"unreal-x=a"}
    BY DEF Listed
  <2> QED BY <2>1, <2>2 DEF Plans, Kids, Good
<1>3. CASE p = <<"real", "unreal-x=f">>
  <2>1. Tail(p) = <<"unreal-x=f">> /\ Head(p) = "real" /\ Listed(p) = {"real", "unreal-x=f"}
    BY <1>3 DEF Listed
  <2>2. Listed(<<"unreal-x=f">>) = {"unreal-x=f"}
    BY DEF Listed
  <2> QED BY <2>1, <2>2 DEF Plans, Kids, Good
<1>4. CASE p = <<"real", "unreal-x=a">>
  <2>1. Tail(p) = <<"unreal-x=a">> /\ Head(p) = "real" /\ Listed(p) = {"real", "unreal-x=a"}
    BY <1>4 DEF Listed
  <2>2. Listed(<<"unreal-x=a">>) = {"unreal-x=a"}
    BY DEF Listed
  <2> QED BY <2>1, <2>2 DEF Plans, Kids, Good
<1>5. CASE p = <<"real", "unreal-x=f", "unreal-x=a">>
  <2>1. Tail(p) = <<"unreal-x=f", "unreal-x=a">> /\ Head(p) = "real"
    BY <1>5
  <2>2. Listed(p) = Kids /\ Listed(<<"unreal-x=f", "unreal-x=a">>) = {"unreal-x=f", "unreal-x=a"}
    BY <1>5 DEF Listed, Kids
  <2> QED BY <2>1, <2>2 DEF Plans, Kids, Good
<1> QED BY <1>1, <1>2, <1>3, <1>4, <1>5 DEF Plans, Kids, Good

(***************************************************************************)
(* A plan lists children.                                                  *)
(***************************************************************************)
LEMMA PlanListed == \A p \in Plans : Listed(p) \subseteq Kids
BY DEF Plans, Listed, Kids

(***************************************************************************)
(* The invariant holds initially.                                          *)
(***************************************************************************)
LEMMA InitInvariant == Init => CoreInv
<1> SUFFICES ASSUME Init PROVE CoreInv
  OBVIOUS
<1>1. TypeOK
  <2>1. toFork \in Plans \cup {<<>>}
    BY DEF Init
  <2>2. won \in [Kids -> BOOLEAN] /\ deaf \in [Kids -> BOOLEAN] /\ pending \in [Kids -> BOOLEAN]
    BY DEF Init
  <2>3. realizable \in BOOLEAN /\ ignoring \in BOOLEAN
    BY DEF Init
  <2>4. code \in [Kids -> -1 .. 3] /\ ret \in 0 .. 3
    <3>1. 3 \in -1 .. 3 /\ 3 \in 0 .. 3
      OBVIOUS
    <3> QED BY <3>1 DEF Init
  <2> QED BY <2>1, <2>2, <2>3, <2>4 DEF Init, TypeOK
<1>2. StatusInv /\ ReasonInv
  <2>1. \A k \in Kids : kid[k] = "none" /\ code[k] = 3 /\ won[k] = FALSE
    BY DEF Init
  <2>2. StatusInv
    BY <2>1 DEF StatusInv
  <2>3. ReasonInv
    BY <2>1 DEF Init, ReasonInv, Reason
  <2> QED BY <2>2, <2>3
<1>3. OutputInv
  BY DEF Init, OutputInv
<1>4. PlanInv
  <2>1. Listed(toFork) \subseteq Kids
    BY PlanListed DEF Init
  <2> QED BY <2>1 DEF Init, PlanInv
<1> QED BY <1>1, <1>2, <1>3, <1>4 DEF CoreInv

(***************************************************************************)
(* A child that ends, however it does, keeps the invariant.                *)
(***************************************************************************)
LEMMA EndInvariant ==
  ASSUME CoreInv, NEW k \in Kids, Ends(k)
  PROVE  CoreInv'
<1>0. PICK c \in -1 .. 3, w \in BOOLEAN :
        /\ End(k, c, w)
        /\ c = 0 => k = "real"
        /\ c = 1 => k # "real"
        /\ w <=> c \in {0, 1}
  BY DEF Ends
<1>1. TypeOK'
  BY <1>0 DEF CoreInv, TypeOK, End, parent
<1>2. StatusInv'
  BY <1>0 DEF CoreInv, TypeOK, StatusInv, End
<1>3. ReasonInv'
  BY <1>0 DEF CoreInv, TypeOK, ReasonInv, Reason, End, parent
<1>4. OutputInv'
  BY <1>0 DEF CoreInv, TypeOK, OutputInv, NoChild, End, parent
<1>5. PlanInv'
  BY <1>0 DEF CoreInv, PlanInv, End, parent
<1> QED BY <1>1, <1>2, <1>3, <1>4, <1>5 DEF CoreInv

(***************************************************************************)
(* Ending without a decision fits: by an exception, a signal, or _exit.    *)
(***************************************************************************)
LEMMA EarlyEnds ==
  ASSUME NEW k \in Kids, Throw(k) \/ Die(k) \/ Terminated(k)
  PROVE  Ends(k)
<1>1. PICK c \in {2, -1, 3} : End(k, c, FALSE)
  BY DEF Throw, Die, Terminated
<1>2. c \in -1 .. 3 /\ c # 0 /\ c # 1
  OBVIOUS
<1> QED BY <1>1, <1>2 DEF Ends

(***************************************************************************)
(* Every step keeps the invariant.                                         *)
(***************************************************************************)
LEMMA StepInvariant ==
  ASSUME CoreInv, ParentStep \/ Signal \/ (\E k \in Kids : Ends(k)) \/ UNCHANGED vars
  PROVE  CoreInv'
<1>0. TypeOK /\ StatusInv /\ ReasonInv /\ OutputInv /\ PlanInv
  BY DEF CoreInv
<1>1. CASE Fork
  <2>0. /\ Head(toFork) \in Kids /\ Tail(toFork) \in Plans \cup {<<>>}
        /\ Len(toFork) # 1 => Tail(toFork) \in Plans
        /\ Head(toFork) \in Listed(toFork)
        /\ Listed(Tail(toFork)) \subseteq Listed(toFork) \ {Head(toFork)}
    BY <1>0, <1>1, PlanSteps DEF Fork, PlanInv
  <2>1. TypeOK'
    BY <1>0, <1>1, <2>0 DEF Fork, TypeOK, ReasonInv, Reason, Resumes
  <2>2. StatusInv'
    <3>1. /\ code' = code /\ won' = won /\ realizable' = realizable
          /\ \A k \in Kids : kid'[k] = kid[k] \/ (kid[k] = "none" /\ kid'[k] = "running")
      BY <1>0, <1>1, <2>0 DEF Fork, TypeOK, PlanInv
    <3> QED BY <1>0, <1>1, <2>0, <3>1 DEF StatusInv
  <2>3. ReasonInv'
    <3>1. /\ code' = code /\ ret' = ret /\ why' = why /\ resume' = resume /\ signalled' = signalled
          /\ mpc = "fork" /\ mpc' \in {"fork", "wait"}
      BY <1>1 DEF Fork
    <3>2. \A k \in Kids : kid[k] = "reaped" <=> kid'[k] = "reaped"
      BY <1>0, <1>1, <2>0 DEF Fork, TypeOK, PlanInv
    <3> QED BY <1>0, <3>1, <3>2 DEF ReasonInv, Reason
  <2>4. OutputInv'
    BY <1>0, <1>1, <2>0 DEF Fork, TypeOK, OutputInv, ReasonInv, Reason, NoChild
  <2>5. PlanInv'
    BY <1>0, <1>1, <2>0, PlanListed DEF Fork, PlanInv, ReasonInv, TypeOK
  <2> QED BY <2>1, <2>2, <2>3, <2>4, <2>5 DEF CoreInv
<1>2. CASE Unknown
  <2>1. TypeOK'
    <3>1. ret' = 3 /\ 3 \in 0 .. 3
      BY <1>2 DEF Unknown
    <3> QED BY <1>0, <1>2, <3>1 DEF Unknown, children, TypeOK
  <2>2. StatusInv'
    BY <1>0, <1>2 DEF Unknown, children, NoChild, TypeOK, StatusInv
  <2>3. ReasonInv'
    BY <1>0, <1>2 DEF Unknown, children, NoChild, TypeOK, ReasonInv, Reason, Resumes, StatusInv
  <2>4. OutputInv'
    BY <1>0, <1>2 DEF Unknown, children, NoChild, TypeOK, OutputInv, ReasonInv, Reason
  <2>5. PlanInv'
    BY <1>0, <1>2 DEF Unknown, children, NoChild, PlanInv, ReasonInv
  <2> QED BY <2>1, <2>2, <2>3, <2>4, <2>5 DEF CoreInv
<1>3. CASE Kill
  <2>1. TypeOK'
    BY <1>0, <1>3 DEF Kill, TypeOK
  <2>2. StatusInv'
    BY <1>0, <1>3 DEF Kill, TypeOK, StatusInv
  <2>3. ReasonInv'
    BY <1>0, <1>3 DEF Kill, TypeOK, ReasonInv, Reason, Resumes, StatusInv
  <2>4. OutputInv'
    BY <1>0, <1>3 DEF Kill, TypeOK, OutputInv, ReasonInv, Reason, NoChild
  <2>5. PlanInv'
    BY <1>0, <1>3 DEF Kill, PlanInv, ReasonInv
  <2> QED BY <2>1, <2>2, <2>3, <2>4, <2>5 DEF CoreInv
<1>4. CASE Verdict
  <2>1. TypeOK'
    BY <1>0, <1>4 DEF Verdict, children, TypeOK
  <2>2. StatusInv'
    BY <1>0, <1>4 DEF Verdict, children, NoChild, TypeOK, StatusInv
  <2>3. ReasonInv'
    BY <1>0, <1>4 DEF Verdict, children, NoChild, TypeOK, ReasonInv, Reason, Resumes, StatusInv
  <2>4. OutputInv'
    <3>1. ret \in 0 .. 2 /\ ret' = ret /\ mpc' = "done" /\ kid' = kid /\ NoChild
      BY <1>0, <1>4 DEF Verdict, children, ReasonInv, Reason
    <3>2. \/ printed' = "REALIZABLE" /\ ret = 0
          \/ printed' = "UNREALIZABLE" /\ ret # 0
      BY <1>4, <3>1 DEF Verdict
    <3> QED BY <3>1, <3>2 DEF OutputInv, NoChild
  <2>5. PlanInv'
    BY <1>0, <1>4 DEF Verdict, children, NoChild, PlanInv, ReasonInv
  <2> QED BY <2>1, <2>2, <2>3, <2>4, <2>5 DEF CoreInv
<1>5. CASE Abort
  <2>1. TypeOK'
    BY <1>0, <1>5 DEF Abort, children, TypeOK
  <2>2. StatusInv'
    BY <1>0, <1>5 DEF Abort, children, NoChild, TypeOK, StatusInv
  <2>3. ReasonInv'
    BY <1>0, <1>5 DEF Abort, children, NoChild, TypeOK, ReasonInv, Reason, Resumes, StatusInv
  <2>4. OutputInv'
    BY <1>0, <1>5 DEF Abort, children, NoChild, TypeOK, OutputInv, ReasonInv, Reason
  <2>5. PlanInv'
    BY <1>0, <1>5 DEF Abort, children, NoChild, PlanInv, ReasonInv
  <2> QED BY <2>1, <2>2, <2>3, <2>4, <2>5 DEF CoreInv
<1>6. CASE Resume
  <2>1. TypeOK'
    BY <1>0, <1>6 DEF Resume, children, NoChild, TypeOK, ReasonInv, Reason, Resumes
  <2>2. StatusInv'
    BY <1>0, <1>6 DEF Resume, children, NoChild, TypeOK, StatusInv
  <2>3. ReasonInv'
    BY <1>0, <1>6 DEF Resume, children, NoChild, TypeOK, ReasonInv, Reason, Resumes, StatusInv
  <2>4. OutputInv'
    BY <1>0, <1>6 DEF Resume, children, NoChild, TypeOK, OutputInv, ReasonInv, Reason
  <2>5. PlanInv'
    BY <1>0, <1>6 DEF Resume, children, NoChild, PlanInv, ReasonInv
  <2> QED BY <2>1, <2>2, <2>3, <2>4, <2>5 DEF CoreInv
<1>7. CASE Signal
  <2>1. TypeOK'
    BY <1>0, <1>7 DEF Signal, children, TypeOK
  <2>2. StatusInv'
    BY <1>0, <1>7 DEF Signal, children, NoChild, TypeOK, StatusInv
  <2>3. ReasonInv'
    BY <1>0, <1>7 DEF Signal, children, NoChild, TypeOK, ReasonInv, Reason, Resumes, StatusInv
  <2>4. OutputInv'
    BY <1>0, <1>7 DEF Signal, children, NoChild, TypeOK, OutputInv, ReasonInv, Reason
  <2>5. PlanInv'
    BY <1>0, <1>7 DEF Signal, children, NoChild, PlanInv, ReasonInv
  <2> QED BY <2>1, <2>2, <2>3, <2>4, <2>5 DEF CoreInv
<1>8. ASSUME NEW k \in Kids, Wait(k) PROVE CoreInv'
  <2>1. TypeOK'
    <3>1. ret' = ret \/ ret' \in 0 .. 2
      BY <1>8 DEF Wait
    <3>2. ret \in 0 .. 3
      BY <1>0 DEF TypeOK
    <3>3. ret' \in 0 .. 3
      BY <3>1, <3>2
    <3> QED BY <1>0, <1>8, <3>3 DEF Wait, TypeOK
  <2>2. StatusInv'
    BY <1>0, <1>8 DEF Wait, NoChild, TypeOK, StatusInv
  <2>3. ReasonInv'
    BY <1>0, <1>8 DEF Wait, NoChild, TypeOK, ReasonInv, Reason, Resumes, StatusInv
  <2>4. OutputInv'
    BY <1>0, <1>8 DEF Wait, NoChild, TypeOK, OutputInv, ReasonInv, Reason
  <2>5. PlanInv'
    BY <1>0, <1>8 DEF Wait, NoChild, PlanInv, ReasonInv
  <2> QED BY <2>1, <2>2, <2>3, <2>4, <2>5 DEF CoreInv
<1>9. ASSUME NEW k \in Kids, Drain(k) PROVE CoreInv'
  <2>1. TypeOK'
    BY <1>0, <1>9 DEF Drain, parent, TypeOK
  <2>2. StatusInv'
    BY <1>0, <1>9 DEF Drain, parent, NoChild, TypeOK, StatusInv
  <2>3. ReasonInv'
    BY <1>0, <1>9 DEF Drain, parent, NoChild, TypeOK, ReasonInv, Reason, Resumes, StatusInv
  <2>4. OutputInv'
    BY <1>0, <1>9 DEF Drain, parent, NoChild, TypeOK, OutputInv, ReasonInv, Reason
  <2>5. PlanInv'
    BY <1>0, <1>9 DEF Drain, parent, NoChild, PlanInv, ReasonInv
  <2> QED BY <2>1, <2>2, <2>3, <2>4, <2>5 DEF CoreInv
<1>10. ASSUME NEW k \in Kids, Ends(k) PROVE CoreInv'
  BY <1>10, EndInvariant
<1>11. CASE UNCHANGED vars
  <2>1. TypeOK'
    BY <1>0, <1>11 DEF vars, parent, children, TypeOK
  <2>2. StatusInv'
    BY <1>0, <1>11 DEF vars, parent, children, NoChild, TypeOK, StatusInv
  <2>3. ReasonInv'
    BY <1>0, <1>11 DEF vars, parent, children, NoChild, TypeOK, ReasonInv, Reason, Resumes, StatusInv
  <2>4. OutputInv'
    BY <1>0, <1>11 DEF vars, parent, children, NoChild, TypeOK, OutputInv, ReasonInv, Reason
  <2>5. PlanInv'
    BY <1>0, <1>11 DEF vars, parent, children, NoChild, PlanInv, ReasonInv
  <2> QED BY <2>1, <2>2, <2>3, <2>4, <2>5 DEF CoreInv
<1> QED BY <1>1, <1>2, <1>3, <1>4, <1>5, <1>6, <1>7, <1>8, <1>9, <1>10, <1>11
        DEF ParentStep

(***************************************************************************)
(* Every way in which a child of this module ends has a fitting status.    *)
(***************************************************************************)
LEMMA KidStepEnds ==
  ASSUME NEW k \in Kids, KidStep(k)
  PROVE  Ends(k)
<1>1. CASE Finish(k)
  <2>1. PICK w \in BOOLEAN : End(k, ExitStatus(k, w), w)
    BY <1>1 DEF Finish
  <2>2. /\ ExitStatus(k, w) \in -1 .. 3
        /\ ExitStatus(k, w) = 0 => k = "real"
        /\ ExitStatus(k, w) = 1 => k # "real"
        /\ w <=> ExitStatus(k, w) \in {0, 1}
    BY DEF ExitStatus
  <2> QED BY <2>1, <2>2 DEF Ends
<1>2. CASE Throw(k) \/ Die(k) \/ Terminated(k)
  BY <1>2, EarlyEnds
<1> QED BY <1>1, <1>2 DEF KidStep

(***************************************************************************)
(* A child only decides what is true.                                      *)
(***************************************************************************)
LEMMA TruthStep ==
  ASSUME CoreInv, TruthInv, [Next]_vars
  PROVE  TruthInv'
<1>1. CASE UNCHANGED <<realizable, won>>
  BY <1>1 DEF TruthInv, MayWin
<1>2. ASSUME NEW k \in Kids, NEW c, NEW w \in BOOLEAN, End(k, c, w), w => MayWin(k)
      PROVE  TruthInv'
  BY <1>2 DEF CoreInv, TypeOK, TruthInv, MayWin, End
<1>3. ASSUME NEW k \in Kids, KidStep(k) PROVE TruthInv'
  BY <1>2, <1>3 DEF KidStep, Finish, Throw, Die, Terminated
<1>4. ASSUME NEW k \in Kids, Wait(k) \/ Drain(k) PROVE UNCHANGED <<realizable, won>>
  BY <1>4, Zenon DEF Wait, Drain
<1>5. CASE Fork \/ Unknown \/ Kill \/ Verdict \/ Abort \/ Resume \/ Signal \/ UNCHANGED vars
  BY <1>1, <1>5, Zenon DEF Fork, Unknown, Kill, Verdict, Abort, Resume, Signal, vars, children
<1> QED BY <1>1, <1>3, <1>4, <1>5 DEF Next, ParentStep, Finished

(***************************************************************************)
(* The inductive invariant holds in every reachable state.                 *)
(***************************************************************************)
THEOREM SupervisorInvariant == Spec => []IInv
<1>1. Init => IInv
  BY InitInvariant DEF Init, IInv, TruthInv
<1>2. IInv /\ [Next]_vars => IInv'
  <2> SUFFICES ASSUME IInv, [Next]_vars PROVE IInv'
    OBVIOUS
  <2>1. CoreInv'
    <3>1. ParentStep \/ Signal \/ (\E k \in Kids : Ends(k)) \/ UNCHANGED vars
      BY KidStepEnds DEF Next, Finished
    <3> QED BY <3>1, StepInvariant DEF IInv
  <2>2. TruthInv'
    BY TruthStep DEF IInv
  <2> QED BY <2>1, <2>2 DEF IInv
<1> QED BY <1>1, <1>2, PTL DEF Spec

(***************************************************************************)
(* Type correctness of the supervisor.                                     *)
(***************************************************************************)
THEOREM SupervisorTypeOK == Spec => []TypeOK
<1>1. IInv => TypeOK
  BY DEF IInv, CoreInv
<1> QED BY <1>1, SupervisorInvariant, PTL

(***************************************************************************)
(* Unless a child ended with an exception, a printed verdict is true and   *)
(* the decision of a child of that side.                                   *)
(***************************************************************************)
THEOREM SupervisorVerdict == Spec => []VerdictUnlessThrown
<1>1. ASSUME CoreInv, TruthInv, \A k \in Kids : code[k] # 2
      PROVE  VerdictCorrect
  <2>1. CASE printed = "REALIZABLE"
    <3>1. PICK k \in Kids : code[k] = 0
      BY <1>1, <2>1 DEF CoreInv, OutputInv, ReasonInv
    <3>2. k = "real" /\ won[k] /\ MayWin(k)
      BY <1>1, <3>1 DEF CoreInv, StatusInv, TruthInv
    <3> QED BY <2>1, <3>2 DEF VerdictCorrect, MayWin
  <2>2. CASE printed = "UNREALIZABLE"
    <3>1. ret \in 1 .. 2 /\ ret # 3
      BY <1>1, <2>2 DEF CoreInv, OutputInv
    <3>2. PICK k \in Kids : code[k] = ret
      BY <1>1, <3>1 DEF CoreInv, ReasonInv
    <3>3. code[k] = 1
      BY <1>1, <3>1, <3>2
    <3>4. k # "real" /\ won[k] /\ MayWin(k)
      BY <1>1, <3>3 DEF CoreInv, StatusInv, TruthInv
    <3> QED BY <2>2, <3>4 DEF VerdictCorrect, MayWin
  <2> QED BY <2>1, <2>2 DEF VerdictCorrect
<1>2. IInv => VerdictUnlessThrown
  BY <1>1 DEF VerdictUnlessThrown, IInv
<1> QED BY <1>2, SupervisorInvariant, PTL

(***************************************************************************)
(* UNKNOWN is only printed when no child decided, unless the program was   *)
(* stopped from outside.                                                   *)
(***************************************************************************)
LEMMA CoreUnknown == CoreInv => UnknownJustified
<1> SUFFICES ASSUME CoreInv, printed = "UNKNOWN", signalled = "no", NEW k \in Kids
             PROVE  kid[k] = "none" \/ (kid[k] = "reaped" /\ code[k] = 3 /\ ~won[k])
  BY DEF UnknownJustified
<1>1. mpc = "done" /\ why = "none" /\ NoChild
  BY DEF CoreInv, OutputInv
<1>2. kid[k] = "reaped" => code[k] = 3
  BY <1>1 DEF CoreInv, ReasonInv, Reason
<1>3. code[k] = 3 => ~won[k]
  BY DEF CoreInv, StatusInv
<1> QED BY <1>1, <1>2, <1>3 DEF NoChild

(***************************************************************************)
(* UNKNOWN is only printed when no child decided, unless the program was   *)
(* stopped from outside.                                                   *)
(***************************************************************************)
THEOREM SupervisorUnknown == Spec => []UnknownJustified
<1>1. IInv => UnknownJustified
  BY CoreUnknown DEF IInv
<1> QED BY <1>1, SupervisorInvariant, PTL

(***************************************************************************)
(* No child outlives the program.                                          *)
(***************************************************************************)
THEOREM SupervisorNoChildLeft == Spec => []NoChildLeft
<1>1. IInv => NoChildLeft
  BY DEF IInv, CoreInv, OutputInv, NoChildLeft
<1> QED BY <1>1, SupervisorInvariant, PTL

(***************************************************************************)
(* Whom SIGTERM does not reach: only children forked after a signal that   *)
(* arrived while main was forking.                                         *)
(***************************************************************************)
DeafInv ==
  /\ \A k \in Kids : deaf[k] => signalled = "forking"
  /\ mpc = "fork" /\ ignoring => signalled = "forking"
  /\ why = "signal" /\ resume[1] = "fork" => signalled = "forking"
  /\ DrainStops

(***************************************************************************)
(* Every step keeps it: a child is forked before the parent ignores        *)
(* SIGTERM, and none is forked while terminate() waits.                    *)
(***************************************************************************)
LEMMA DeafStep ==
  ASSUME CoreInv, DeafInv, ParentStep \/ Signal \/ (\E k \in Kids : Ends(k)) \/ UNCHANGED vars
  PROVE  DeafInv'
<1>0. /\ kid \in [Kids -> {"none", "running", "exited", "reaped"}]
      /\ deaf \in [Kids -> BOOLEAN] /\ pending \in [Kids -> BOOLEAN]
      /\ ignoring \in BOOLEAN
      /\ ReasonInv /\ PlanInv
  BY DEF CoreInv, TypeOK
<1>1. CASE Fork
  <2>1. Head(toFork) \in Kids
    BY <1>0, <1>1, PlanSteps DEF Fork, PlanInv
  <2>2. mpc' \in {"fork", "wait"} /\ why = "none"
    BY <1>0, <1>1 DEF Fork, ReasonInv
  <2> QED BY <1>0, <1>1, <2>1, <2>2 DEF Fork, DeafInv, DrainStops
<1>2. CASE Unknown \/ Verdict \/ Abort
  BY <1>2, Zenon DEF Unknown, Verdict, Abort, children, DeafInv, DrainStops
<1>3. CASE Kill
  BY <1>0, <1>3 DEF Kill, DeafInv, DrainStops
<1>4. CASE Resume
  <2>1. mpc' \in {"fork", "wait", "kill"} /\ (mpc' = "fork" => signalled = "forking") /\ why' # "signal"
    BY <1>0, <1>4 DEF Resume, ReasonInv, Resumes, DeafInv
  <2> QED BY <1>4, <2>1 DEF Resume, children, DeafInv, DrainStops
<1>5. CASE Signal
  BY <1>5 DEF Signal, children, DeafInv, DrainStops
<1>6. ASSUME NEW k \in Kids, Wait(k) PROVE DeafInv'
  BY <1>0, <1>6 DEF Wait, ReasonInv, DeafInv, DrainStops
<1>7. ASSUME NEW k \in Kids, Drain(k) PROVE DeafInv'
  BY <1>0, <1>7 DEF Drain, parent, DeafInv, DrainStops
<1>8. ASSUME NEW k \in Kids, Ends(k) PROVE DeafInv'
  <2>1. PICK c \in -1 .. 3, w \in BOOLEAN : End(k, c, w)
    BY <1>8 DEF Ends
  <2> QED BY <1>0, <2>1 DEF End, parent, DeafInv, DrainStops
<1>9. CASE UNCHANGED vars
  BY <1>9 DEF vars, parent, children, DeafInv, DrainStops
<1> QED BY <1>1, <1>2, <1>3, <1>4, <1>5, <1>6, <1>7, <1>8, <1>9 DEF ParentStep

(***************************************************************************)
(* While terminate() waits, every child that still runs is being stopped,  *)
(* unless a signal arrived while main was forking.                         *)
(***************************************************************************)
THEOREM SupervisorDrainStops == Spec => []DrainStops
<1>1. Init => DeafInv
  BY DEF Init, DeafInv, DrainStops
<1>2. IInv /\ DeafInv /\ [Next]_vars => DeafInv'
  BY DeafStep, KidStepEnds DEF IInv, Next, Finished
<1>3. DeafInv => DrainStops
  BY DEF DeafInv
<1> QED BY <1>1, <1>2, <1>3, SupervisorInvariant, PTL DEF Spec

(* Program *)

Numeric == {"K", "Kmin", "Kinc"}

Nonnegative == \A o \in Range(world.args) : o.key \in Numeric => o.val >= 0

(* The largest number that is the same as an int and as an unsigned. *)
Half == UMax \div 2

OptionNames ==
  {"K", "Kmin", "Kinc", "check", "unreal_x", "synth", "winreg", "init", "ins", "outs", "jobs"}

IsOptions(s) == s = [f \in OptionNames |-> s[f]]

(* While options are parsed; UMax is a Kmin that was not given. *)
Small(s) == s.K \in 1 .. Half /\ s.Kmin \in 1 .. Half \cup {UMax} /\ s.Kinc \in 0 .. Half

(* Once they are adjusted. *)
Compatible(s) ==
  /\ s.K \in 1 .. Half /\ s.Kmin \in 1 .. Half /\ s.Kinc \in 0 .. Half
  /\ s.Kmin =< s.K /\ (s.Kmin < s.K => s.Kinc >= 1)

(***************************************************************************)
(* The inductive invariant.                                                *)
(***************************************************************************)
OptionsInv ==
  /\ world \in Worlds
  /\ args \in Seq(Range(world.args))
  /\ IsOptions(opts)
  /\ Nonnegative /\ phase = "parse" => Small(opts)
  /\ Nonnegative /\ phase = "run" => Compatible(opts)

(***************************************************************************)
(* A number that fits is not changed by its conversion to unsigned, nor by *)
(* that back to int.                                                       *)
(***************************************************************************)
LEMMA Fits ==
  ASSUME NEW n \in 0 .. Half
  PROVE  Unsigned(n) = n /\ Signed(n) = n
<1>1. UMax \in Nat /\ UMax + 1 \in Nat \ {0} /\ n \in Nat /\ n < UMax + 1 /\ n =< UMax \div 2
  BY ProgramAssumption DEF Half
<1>2. n % (UMax + 1) = n
  BY <1>1
<1> QED BY <1>1, <1>2 DEF Unsigned, Signed

(***************************************************************************)
(* The values that the options have before the first is parsed.            *)
(***************************************************************************)
LEMMA DefaultsSmall == IsOptions(Defaults) /\ Small(Defaults)
<1>1. 11 =< Half /\ Half \in Nat
  BY ProgramAssumption DEF Half
<1>2. IsOptions(Defaults)
  BY DEF IsOptions, OptionNames, Defaults
<1>3. Defaults.K = 11 /\ Defaults.Kmin = UMax /\ Defaults.Kinc = 0
  BY DEF Defaults
<1> QED BY <1>1, <1>2, <1>3 DEF Small

(***************************************************************************)
(* Storing an option that is not refused keeps the values small.           *)
(***************************************************************************)
LEMMA StoreSmall ==
  ASSUME NEW s, IsOptions(s), NEW o, ~BadOption(o),
         o.key \in OptionKeys
  PROVE  /\ IsOptions(Store(s, o))
         /\ Small(s) /\ (o.key \in Numeric => o.val \in 0 .. Half) => Small(Store(s, o))
<1>1. CASE o.key \in {"f", "F"}
  <2>1. Store(s, o) = [s EXCEPT !.jobs = Append(@, Job(o))]
    BY <1>1 DEF Store
  <2> QED BY <2>1 DEF IsOptions, OptionNames, Small
<1>2. CASE o.key \in Numeric
  <2>1. Store(s, o) = [s EXCEPT ![o.key] = Unsigned(o.val)]
    BY <1>2 DEF Store, Numeric
  <2>2. o.val # 0
    BY <1>2 DEF BadOption, Numeric
  <2>3. o.val \in 0 .. Half => Unsigned(o.val) \in 1 .. Half
    <3>1. Half \in Int
      BY ProgramAssumption DEF Half
    <3> QED BY <2>2, <3>1, Fits
  <2> QED BY <1>2, <2>1, <2>3 DEF IsOptions, OptionNames, Small, Numeric
<1>3. CASE o.key = "unreal-x"
  <2>1. Store(s, o) = [s EXCEPT !.unreal_x = o.val]
    BY <1>3 DEF Store
  <2> QED BY <1>3, <2>1 DEF IsOptions, OptionNames, Small
<1>4. CASE o.key = "init"
  <2>1. Store(s, o) = [s EXCEPT !.init = TRUE]
    BY <1>4 DEF Store
  <2> QED BY <1>4, <2>1 DEF IsOptions, OptionNames, Small
<1>5. CASE o.key \in {"check", "synth", "winreg"}
  <2>1. Store(s, o) = [s EXCEPT ![o.key] = o.val]
    BY <1>5 DEF Store
  <2> QED BY <1>5, <2>1 DEF IsOptions, OptionNames, Small
<1>6. CASE o.key \in {"ins", "outs"}
  <2>1. Store(s, o) = [s EXCEPT ![o.key] = @ \cup o.val]
    BY <1>6 DEF Store
  <2> QED BY <1>6, <2>1 DEF IsOptions, OptionNames, Small
<1> QED BY <1>1, <1>2, <1>3, <1>4, <1>5, <1>6 DEF Numeric, OptionKeys

(***************************************************************************)
(* The invariant holds initially.                                          *)
(***************************************************************************)
LEMMA InitOptions == ProgramInit => OptionsInv
<1> SUFFICES ASSUME ProgramInit PROVE OptionsInv
  OBVIOUS
<1>1. world \in Worlds /\ args = world.args /\ opts = Defaults /\ phase = "parse"
  BY DEF ProgramInit
<1>2. args \in Seq(Range(world.args))
  BY <1>1, ProgramAssumption DEF IsWorld
<1> QED BY <1>1, <1>2, DefaultsSmall DEF OptionsInv

(***************************************************************************)
(* What happens once the children are forked leaves the options alone.     *)
(***************************************************************************)
LEMMA OthersKeep ==
  ASSUME [ProgramNext]_allvars, ~ParseOption, ~Adjust
  PROVE  UNCHANGED <<world, phase, args, opts>>
<1>1. CASE phase = "run" /\ (ParentStep \/ Signal) /\ UNCHANGED program
  BY <1>1 DEF program
<1>2. ASSUME NEW k \in Kids, ChildStep(k) PROVE UNCHANGED <<world, phase, args, opts>>
  <2>1. CASE ReadFormula(k) \/ ReadFile(k) \/ ReadStdin(k)
    BY <2>1 DEF ReadFormula, ReadFile, ReadStdin
  <2>2. CASE Unsolvable(k) \/ GiveUp(k) \/ Exit(k)
    BY <2>2 DEF Unsolvable, GiveUp, Exit, program
  <2>3. CASE Win(k) \/ OpenOutput(k) \/ CloseOutput(k)
    BY <2>3 DEF Win, OpenOutput, CloseOutput
  <2>4. CASE (Throw(k) \/ Die(k) \/ Terminated(k)) /\ UNCHANGED program
    BY <2>4 DEF program
  <2> QED BY <1>2, <2>1, <2>2, <2>3, <2>4 DEF ChildStep
<1>3. CASE UNCHANGED allvars
  BY <1>3 DEF allvars, program
<1> QED BY <1>1, <1>2, <1>3 DEF ProgramNext, MainStep

(***************************************************************************)
(* Parsing an option.                                                      *)
(***************************************************************************)
LEMMA ParseKeeps == OptionsInv /\ ParseOption => OptionsInv'
<1> SUFFICES ASSUME OptionsInv, ParseOption PROVE OptionsInv'
  OBVIOUS
<1>1. CASE Refuse(3)
  BY <1>1 DEF Refuse, OptionsInv, Nonnegative
<1>2. CASE ~Refuse(3)
  <2> DEFINE o == Head(args)
  <2>1. /\ phase = "parse" /\ phase' = phase /\ world' = world /\ args # <<>>
        /\ ~BadOption(o) /\ opts' = Store(opts, o) /\ args' = Tail(args)
    BY <1>2 DEF ParseOption
  <2>2. args \in Seq(Range(world.args)) /\ IsOptions(opts) /\ world \in Worlds
    BY DEF OptionsInv
  <2>3. o \in Range(world.args) /\ args' \in Seq(Range(world.args))
    BY <2>1, <2>2
  <2>4. PICK n \in DOMAIN world.args : o = world.args[n]
    BY <2>3 DEF Range
  <2>5. /\ o.key \in OptionKeys
        /\ o.key \in Numeric => o.val \in -(UMax + 1) \div 2 .. UMax \div 2
    BY <2>2, <2>4, ProgramAssumption DEF IsWorld, Numeric
  <2>6. Nonnegative /\ o.key \in Numeric => o.val \in 0 .. Half
    BY <2>3, <2>5, ProgramAssumption DEF Nonnegative, Half
  <2>7. IsOptions(opts') /\ (Nonnegative => Small(opts'))
    BY <2>1, <2>2, <2>5, <2>6, StoreSmall DEF OptionsInv
  <2>8. Nonnegative' <=> Nonnegative
    BY <2>1 DEF Nonnegative
  <2> QED BY <2>1, <2>2, <2>3, <2>7, <2>8 DEF OptionsInv
<1> QED BY <1>1, <1>2

(***************************************************************************)
(* Adjusting K.                                                            *)
(***************************************************************************)
LEMMA AdjustKeeps == OptionsInv /\ Adjust => OptionsInv'
<1> SUFFICES ASSUME OptionsInv, Adjust PROVE OptionsInv'
  OBVIOUS
<1>1. CASE Refuse(2) \/ Refuse(3)
  BY <1>1 DEF Refuse, OptionsInv, Nonnegative
<1>2. CASE ~(Refuse(2) \/ Refuse(3))
  <2>1. /\ phase = "parse" /\ phase' = "run" /\ world' = world /\ args' = args
        /\ ~IncompatibleK(opts')
        /\ opts' = [opts EXCEPT !.jobs = IF @ = <<>> THEN <<StdinJob>> ELSE @,
                                !.Kmin = IF @ = UMax THEN opts.K ELSE @]
    BY <1>2 DEF Adjust
  <2>2. IsOptions(opts) /\ (Nonnegative => Small(opts))
    BY <2>1 DEF OptionsInv
  <2>3. /\ opts'.K = opts.K /\ opts'.Kinc = opts.Kinc
        /\ opts'.Kmin = IF opts.Kmin = UMax THEN opts.K ELSE opts.Kmin
        /\ IsOptions(opts')
    BY <2>1, <2>2 DEF IsOptions, OptionNames
  <2>4. Nonnegative => Compatible(opts')
    <3>1. Half \in Int
      BY ProgramAssumption DEF Half
    <3> QED BY <2>1, <2>2, <2>3, <3>1 DEF Small, Compatible, IncompatibleK
  <2>5. Nonnegative' <=> Nonnegative
    BY <2>1 DEF Nonnegative
  <2> QED BY <2>1, <2>3, <2>4, <2>5 DEF OptionsInv
<1> QED BY <1>1, <1>2

(***************************************************************************)
(* The inductive invariant holds in every reachable state.                 *)
(***************************************************************************)
THEOREM ProgramInvariant == ProgramSpec => []OptionsInv
<1>1. ProgramInit => OptionsInv
  BY InitOptions
<1>2. OptionsInv /\ [ProgramNext]_allvars => OptionsInv'
  <2> SUFFICES ASSUME OptionsInv, [ProgramNext]_allvars, ~ParseOption, ~Adjust PROVE OptionsInv'
    BY ParseKeeps, AdjustKeeps
  <2>1. UNCHANGED <<world, phase, args, opts>>
    BY OthersKeep
  <2> QED BY <2>1 DEF OptionsInv, Nonnegative
<1> QED BY <1>1, <1>2, PTL DEF ProgramSpec

(***************************************************************************)
(* For every command line without negative numbers, a child that solves    *)
(* has 1 <= Kmin <= K, an increment if Kmin < K, and with several formulas *)
(* one K and the task to check realizability.                              *)
(***************************************************************************)
THEOREM ProgramOptionsChecked == ProgramSpec => []OptionsChecked
<1>1. OptionsInv => OptionsChecked
  <2> SUFFICES ASSUME OptionsInv, NEW k \in Kids, Solving(k), Nonnegative
               PROVE  /\ 1 =< Signed(opts.Kmin) /\ Signed(opts.Kmin) =< Signed(opts.K)
                      /\ Signed(opts.Kmin) < Signed(opts.K) => Signed(opts.Kinc) >= 1
                      /\ Several(k) => opts.Kmin = opts.K /\ opts.Kinc = 0 /\ k = "real"
    BY DEF OptionsChecked, Nonnegative, Numeric
  <2>1. Compatible(opts)
    BY DEF Solving, Working, OptionsInv
  <2>2. Half \in Int
    BY ProgramAssumption DEF Half
  <2>3. Signed(opts.Kmin) = opts.Kmin /\ Signed(opts.K) = opts.K /\ Signed(opts.Kinc) = opts.Kinc
    BY <2>1, <2>2, Fits DEF Compatible
  <2>4. Several(k) => k = "real" /\ opts.Kinc = 0
    BY DEF Solving, HasGame, Refused
  <2> QED BY <2>1, <2>2, <2>3, <2>4 DEF Compatible
<1> QED BY <1>1, ProgramInvariant, PTL

-----------------------------------------------------------------------------
(***************************************************************************)
(* What the options choose from.                                           *)
(***************************************************************************)
ChoiceInv ==
  /\ opts.check \in {"real", "unreal", "both"}
  /\ opts.unreal_x \in {"formula", "automaton", "both"}
  /\ {opts.winreg, opts.synth} \subseteq FileNames(world) \cup {""}

(***************************************************************************)
(* An option that is stored is one of the choices, or names a file of the  *)
(* command line.                                                           *)
(***************************************************************************)
LEMMA ChoiceStep ==
  ASSUME OptionsInv, ChoiceInv, [ProgramNext]_allvars
  PROVE  ChoiceInv'
<1>1. CASE UNCHANGED <<world, opts>>
  BY <1>1 DEF ChoiceInv, FileNames
<1>2. CASE ParseOption
  <2>1. CASE Refuse(3)
    BY <1>1, <2>1 DEF Refuse
  <2>2. CASE ~Refuse(3)
    <3> DEFINE o == Head(args)
    <3>1. world' = world /\ args # <<>> /\ ~BadOption(o) /\ opts' = Store(opts, o)
      BY <1>2, <2>2 DEF ParseOption
    <3>2. args \in Seq(Range(world.args)) /\ IsOptions(opts) /\ world \in Worlds
      BY DEF OptionsInv
    <3>3. PICK n \in DOMAIN world.args : o = world.args[n]
      <4>1. o \in Range(world.args)
        BY <3>1, <3>2
      <4> QED BY <4>1 DEF Range
    <3>4. o.key \in OptionKeys
      BY <3>2, <3>3, ProgramAssumption DEF IsWorld
    <3>5. o.key \in {"winreg", "synth"} => o.val \in FileNames(world)
      BY <3>3 DEF FileNames
    <3>6. FileNames(world)' = FileNames(world)
      BY <3>1 DEF FileNames
    <3> HIDE DEF o
    <3>7. CASE o.key \in {"f", "F"}
      <4>1. opts' = [opts EXCEPT !.jobs = Append(@, Job(o))]
        BY <3>1, <3>7 DEF Store
      <4> QED BY <3>2, <3>6, <4>1 DEF ChoiceInv, IsOptions, OptionNames
    <3>8. CASE o.key \in {"K", "Kmin", "Kinc"}
      <4>1. opts' = [opts EXCEPT ![o.key] = Unsigned(o.val)]
        BY <3>1, <3>8 DEF Store
      <4> QED BY <3>2, <3>6, <3>8, <4>1 DEF ChoiceInv, IsOptions, OptionNames
    <3>9. CASE o.key = "unreal-x"
      <4>1. opts' = [opts EXCEPT !.unreal_x = o.val] /\ o.val \in {"formula", "automaton", "both"}
        BY <3>1, <3>9 DEF Store, BadOption
      <4> QED BY <3>2, <3>6, <4>1 DEF ChoiceInv, IsOptions, OptionNames
    <3>10. CASE o.key = "init"
      <4>1. opts' = [opts EXCEPT !.init = TRUE]
        BY <3>1, <3>10 DEF Store
      <4> QED BY <3>2, <3>6, <4>1 DEF ChoiceInv, IsOptions, OptionNames
    <3>11. CASE o.key \in {"check", "synth", "winreg"}
      <4>1. /\ opts' = [opts EXCEPT ![o.key] = o.val]
            /\ o.key = "check" => o.val \in {"real", "unreal", "both"}
        BY <3>1, <3>11 DEF Store, BadOption
      <4> QED BY <3>2, <3>5, <3>6, <3>11, <4>1 DEF ChoiceInv, IsOptions, OptionNames
    <3>12. CASE o.key \in {"ins", "outs"}
      <4>1. opts' = [opts EXCEPT ![o.key] = @ \cup o.val]
        BY <3>1, <3>12 DEF Store
      <4> QED BY <3>2, <3>6, <3>12, <4>1 DEF ChoiceInv, IsOptions, OptionNames
    <3> QED BY <3>4, <3>7, <3>8, <3>9, <3>10, <3>11, <3>12 DEF OptionKeys
  <2> QED BY <2>1, <2>2
<1>3. CASE Adjust
  <2>1. CASE Refuse(2) \/ Refuse(3)
    BY <1>1, <2>1 DEF Refuse
  <2>2. CASE ~(Refuse(2) \/ Refuse(3))
    <3>1. /\ world' = world
          /\ opts' = [opts EXCEPT !.jobs = IF @ = <<>> THEN <<StdinJob>> ELSE @,
                                  !.Kmin = IF @ = UMax THEN opts.K ELSE @]
      BY <1>3, <2>2 DEF Adjust
    <3>2. FileNames(world)' = FileNames(world)
      BY <3>1 DEF FileNames
    <3>3. /\ opts'.check = opts.check /\ opts'.unreal_x = opts.unreal_x
          /\ opts'.winreg = opts.winreg /\ opts'.synth = opts.synth
      BY <3>1 DEF OptionsInv, IsOptions, OptionNames
    <3> QED BY <3>2, <3>3 DEF ChoiceInv
  <2> QED BY <2>1, <2>2
<1> QED BY <1>1, <1>2, <1>3, OthersKeep

(***************************************************************************)
(* What is asked for is a plan of the supervisor.                          *)
(***************************************************************************)
LEMMA PlanOfOptions ==
  ASSUME NEW s, s.check \in {"real", "unreal", "both"},
         s.unreal_x \in {"formula", "automaton", "both"}
  PROVE  Plan(s) \in Plans
<1>0. ASSUME NEW a, NEW b, NEW c
      PROVE  /\ <<>> \o <<a>> = <<a>> /\ <<a>> \o <<>> = <<a>>
             /\ <<a>> \o <<b>> = <<a, b>> /\ <<a, b>> \o <<c>> = <<a, b, c>>
             /\ <<a, b>> \o <<>> = <<a, b>>
  <2>1. <<>> \o <<a>> = <<a>>
    OBVIOUS
  <2>2. <<a>> \o <<>> = <<a>>
    OBVIOUS
  <2>3. <<a>> \o <<b>> = <<a, b>>
    <3> DEFINE u == <<a>> \o <<b>>
    <3>1. u \in Seq({a, b}) /\ Len(u) = 2 /\ u[1] = a /\ u[2] = b
      OBVIOUS
    <3> HIDE DEF u
    <3>2. u = <<a, b>>
      BY <3>1
    <3> QED BY <3>2 DEF u
  <2>4. <<a, b>> \o <<c>> = <<a, b, c>>
    <3> DEFINE u == <<a, b>> \o <<c>>
    <3>1. u \in Seq({a, b, c}) /\ Len(u) = 3 /\ u[1] = a /\ u[2] = b /\ u[3] = c
      OBVIOUS
    <3> HIDE DEF u
    <3>2. u = <<a, b, c>>
      BY <3>1
    <3> QED BY <3>2 DEF u
  <2>5. <<a, b>> \o <<>> = <<a, b>>
    OBVIOUS
  <2> QED BY <2>1, <2>2, <2>3, <2>4, <2>5
<1>1. CASE s.check = "real"
  BY <1>1 DEF Plan, Plans
<1>2. CASE s.check = "unreal" /\ s.unreal_x = "formula"
  BY <1>2 DEF Plan, Plans
<1>3. CASE s.check = "unreal" /\ s.unreal_x = "automaton"
  BY <1>3 DEF Plan, Plans
<1>4. CASE s.check = "unreal" /\ s.unreal_x = "both"
  <2>1. Plan(s) = (<<>> \o <<"unreal-x=f">>) \o <<"unreal-x=a">>
    BY <1>4 DEF Plan
  <2> QED BY <1>0, <2>1 DEF Plans
<1>5. CASE s.check = "both" /\ s.unreal_x = "formula"
  <2>1. Plan(s) = (<<"real">> \o <<"unreal-x=f">>) \o <<>>
    BY <1>5 DEF Plan
  <2> QED BY <1>0, <2>1 DEF Plans
<1>6. CASE s.check = "both" /\ s.unreal_x = "automaton"
  <2>1. Plan(s) = (<<"real">> \o <<>>) \o <<"unreal-x=a">>
    BY <1>6 DEF Plan
  <2> QED BY <1>0, <2>1 DEF Plans
<1>7. CASE s.check = "both" /\ s.unreal_x = "both"
  <2>1. Plan(s) = (<<"real">> \o <<"unreal-x=f">>) \o <<"unreal-x=a">>
    BY <1>7 DEF Plan
  <2> QED BY <1>0, <2>1 DEF Plans
<1> QED BY <1>1, <1>2, <1>3, <1>4, <1>5, <1>6, <1>7

-----------------------------------------------------------------------------
(***************************************************************************)
(* The supervisor while options are parsed: nothing is forked.             *)
(***************************************************************************)
Fresh ==
  /\ realizable \in BOOLEAN /\ mpc = "fork"
  /\ why = "none" /\ resume = "none" /\ ret = 3
  /\ ignoring = FALSE /\ signalled = "no" /\ printed = ""
  /\ kid = [k \in Kids |-> "none"]
  /\ code = [k \in Kids |-> 3]
  /\ won = [k \in Kids |-> FALSE]
  /\ deaf = [k \in Kids |-> FALSE]
  /\ pending = [k \in Kids |-> FALSE]

PhaseInv ==
  /\ phase \in {"parse", "run", "refused"}
  /\ phase = "parse" => Fresh
  /\ phase = "refused" => printed = "" /\ mpc = "done" /\ kid = [k \in Kids |-> "none"]
  /\ phase = "run" => CoreInv /\ DeafInv

(***************************************************************************)
(* A step of the program is one of the supervisor, in which a child ends   *)
(* with a status that fits.                                                *)
(***************************************************************************)
LEMMA SupervisorStep ==
  ASSUME [ProgramNext]_allvars, ~ParseOption, ~Adjust
  PROVE  \/ phase = "run" /\ (ParentStep \/ Signal) /\ UNCHANGED program
         \/ \E k \in Kids : kid[k] = "running" /\ Ends(k)
         \/ UNCHANGED vars
<1>1. ASSUME NEW k \in Kids, ChildStep(k)
      PROVE  Ends(k) \/ UNCHANGED vars
  <2>1. CASE ReadFormula(k) \/ Win(k) \/ OpenOutput(k) \/ CloseOutput(k)
    BY <2>1 DEF ReadFormula, Win, OpenOutput, CloseOutput
  <2>2. CASE Unsolvable(k) \/ GiveUp(k)
    <3>1. End(k, 3, FALSE)
      BY <2>2 DEF Unsolvable, GiveUp, ExitStatus
    <3>2. 3 \in -1 .. 3 /\ 3 # 0 /\ 3 # 1
      OBVIOUS
    <3> QED BY <3>1, <3>2 DEF Ends
  <2>3. CASE Exit(k)
    <3>1. PICK c \in {0, 1}, w \in BOOLEAN :
            w = TRUE /\ c = (IF k = "real" THEN 0 ELSE 1) /\ End(k, c, w)
      BY <2>3 DEF Exit, ExitStatus
    <3>2. c \in -1 .. 3 /\ (w <=> c \in {0, 1}) /\ (c = 0 => k = "real") /\ (c = 1 => k # "real")
      BY <3>1
    <3>3. End(k, c, w)
      BY <3>1
    <3> QED BY <3>2, <3>3, Zenon DEF Ends
  <2>4. CASE ReadFile(k) \/ ReadStdin(k)
    <3>1. End(k, 2, FALSE) \/ UNCHANGED vars
      BY <2>4 DEF ReadFile, ReadStdin
    <3>2. 2 \in -1 .. 3 /\ 2 # 0 /\ 2 # 1
      OBVIOUS
    <3> QED BY <3>1, <3>2 DEF Ends
  <2>5. CASE Throw(k) \/ Die(k) \/ Terminated(k)
    BY <2>5, EarlyEnds, Zenon
  <2> QED BY <1>1, <2>1, <2>2, <2>3, <2>4, <2>5 DEF ChildStep
<1>2. \A k \in Kids : Ends(k) => kid[k] = "running"
  BY DEF Ends, End
<1> QED BY <1>1, <1>2 DEF ProgramNext, MainStep, allvars

(***************************************************************************)
(* When the options are adjusted, the supervisor starts in one of its      *)
(* initial states.                                                         *)
(***************************************************************************)
LEMMA AdjustStarts ==
  ASSUME OptionsInv, ChoiceInv, PhaseInv, Adjust, phase' = "run"
  PROVE  Init' /\ toFork' = Plan(opts)'
<1>1. ~Refuse(2) /\ ~Refuse(3)
  BY DEF Refuse
<1>2. /\ phase = "parse" /\ toFork' = Plan(opts')
      /\ UNCHANGED <<realizable, mpc, why, resume, ret, ignoring, signalled, printed, children>>
  BY <1>1 DEF Adjust
<1>3. Fresh /\ children' = children
  BY <1>2 DEF PhaseInv
<1>4. ChoiceInv'
  BY ChoiceStep DEF ProgramNext, MainStep
<1>5. Plan(opts') \in Plans
  <2>1. opts'.check \in {"real", "unreal", "both"} /\ opts'.unreal_x \in {"formula", "automaton", "both"}
    BY <1>4 DEF ChoiceInv
  <2> QED BY <2>1, PlanOfOptions
<1> QED BY <1>2, <1>3, <1>5 DEF Fresh, Init, children

(***************************************************************************)
(* The supervisor's invariants hold while the children run.                *)
(***************************************************************************)
LEMMA PhaseStep ==
  ASSUME OptionsInv, ChoiceInv, PhaseInv, [ProgramNext]_allvars
  PROVE  PhaseInv'
<1>1. CASE ParseOption
  <2>1. phase = "parse" /\ Fresh
    BY <1>1 DEF ParseOption, PhaseInv
  <2>2. CASE Refuse(3)
    BY <2>1, <2>2 DEF Refuse, PhaseInv, Fresh, children
  <2>3. CASE ~Refuse(3)
    <3>1. UNCHANGED <<vars, phase>>
      BY <1>1, <2>3 DEF ParseOption
    <3> QED BY <2>1, <3>1 DEF PhaseInv, Fresh, vars, parent, children
  <2> QED BY <2>2, <2>3
<1>2. CASE Adjust
  <2>1. phase = "parse" /\ Fresh
    BY <1>2 DEF Adjust, PhaseInv
  <2>2. CASE Refuse(2) \/ Refuse(3)
    BY <2>1, <2>2 DEF Refuse, PhaseInv, Fresh, children
  <2>3. CASE ~(Refuse(2) \/ Refuse(3))
    <3>1. phase' = "run"
      BY <1>2, <2>3 DEF Adjust
    <3>2. Init'
      BY <1>2, <3>1, AdjustStarts
    <3>3. Init' => CoreInv'
      BY InitInvariant, PTL
    <3>4. Init' => DeafInv'
      BY DEF Init, DeafInv, DrainStops
    <3> QED BY <3>1, <3>2, <3>3, <3>4 DEF PhaseInv
  <2> QED BY <2>2, <2>3
<1>3. CASE ~ParseOption /\ ~Adjust
  <2>1. phase' = phase
    BY <1>3, OthersKeep
  <2>2. CASE phase = "run"
    <3>1. ParentStep \/ Signal \/ (\E k \in Kids : Ends(k)) \/ UNCHANGED vars
      BY <1>3, SupervisorStep
    <3>2. CoreInv' /\ DeafInv'
      BY <2>2, <3>1, StepInvariant, DeafStep DEF PhaseInv
    <3> QED BY <2>1, <2>2, <3>2 DEF PhaseInv
  <2>3. CASE phase # "run"
    <3>1. kid = [k \in Kids |-> "none"]
      BY <2>3 DEF PhaseInv, Fresh
    <3>2. UNCHANGED vars
      BY <1>3, <2>3, <3>1, SupervisorStep
    <3> QED BY <2>1, <2>3, <3>2 DEF PhaseInv, Fresh, vars, parent, children
  <2> QED BY <2>2, <2>3
<1> QED BY <1>1, <1>2, <1>3

-----------------------------------------------------------------------------
(***************************************************************************)
(* Only the children that were asked for are forked.                       *)
(***************************************************************************)
AskedInv ==
  phase = "run" =>
    /\ Listed(toFork) \subseteq Listed(Plan(opts))
    /\ \A k \in Kids : kid[k] # "none" => k \in Listed(Plan(opts))

(***************************************************************************)
(* No other step than Fork makes a child, and a child does not become      *)
(* unborn.                                                                 *)
(***************************************************************************)
LEMMA OnlyForkForks ==
  ASSUME CoreInv, ParentStep \/ Signal \/ (\E k \in Kids : Ends(k)) \/ UNCHANGED vars, ~Fork
  PROVE  toFork' = toFork /\ \A k \in Kids : kid'[k] = "none" <=> kid[k] = "none"
<1>0. kid \in [Kids -> {"none", "running", "exited", "reaped"}]
  BY DEF CoreInv, TypeOK
<1>1. CASE Unknown \/ Kill \/ Verdict \/ Abort \/ Resume \/ Signal \/ UNCHANGED vars
  BY <1>1 DEF Unknown, Kill, Verdict, Abort, Resume, Signal, vars, parent, children
<1>2. ASSUME NEW l \in Kids, Wait(l) \/ Drain(l)
      PROVE  toFork' = toFork /\ \A k \in Kids : kid'[k] = "none" <=> kid[k] = "none"
  BY <1>0, <1>2 DEF Wait, Drain, parent
<1>3. ASSUME NEW l \in Kids, Ends(l)
      PROVE  toFork' = toFork /\ \A k \in Kids : kid'[k] = "none" <=> kid[k] = "none"
  BY <1>0, <1>3 DEF Ends, End, parent
<1> QED BY <1>1, <1>2, <1>3 DEF ParentStep

(***************************************************************************)
(* Every step forks only what is still on the list.                        *)
(***************************************************************************)
LEMMA AskedStep ==
  ASSUME OptionsInv, ChoiceInv, PhaseInv, AskedInv, [ProgramNext]_allvars
  PROVE  AskedInv'
<1> SUFFICES ASSUME phase' = "run" PROVE AskedInv'
  BY DEF AskedInv
<1>1. CASE ParseOption
  BY <1>1 DEF ParseOption, Refuse
<1>2. CASE Adjust
  <2>1. Init' /\ toFork' = Plan(opts)'
    BY <1>2, AdjustStarts
  <2> QED BY <2>1 DEF AskedInv, Init
<1>3. CASE ~ParseOption /\ ~Adjust
  <2>1. phase = "run" /\ opts' = opts
    BY <1>3, OthersKeep
  <2>2. CoreInv /\ (ParentStep \/ Signal \/ (\E k \in Kids : Ends(k)) \/ UNCHANGED vars)
    BY <1>3, <2>1, SupervisorStep DEF PhaseInv
  <2>3. Plan(opts)' = Plan(opts)
    BY <2>1
  <2>4. CASE ~Fork
    BY <2>1, <2>2, <2>3, <2>4, OnlyForkForks DEF AskedInv
  <2>5. CASE Fork
    <3>1. toFork \in Plans
      BY <2>2, <2>5 DEF CoreInv, PlanInv, Fork
    <3>2. /\ Head(toFork) \in Listed(toFork)
          /\ Listed(Tail(toFork)) \subseteq Listed(toFork)
      BY <3>1, PlanSteps
    <3>3. toFork' = Tail(toFork) /\ kid' = [kid EXCEPT ![Head(toFork)] = "running"]
      BY <2>5 DEF Fork
    <3>4. kid \in [Kids -> {"none", "running", "exited", "reaped"}]
      BY <2>2 DEF CoreInv, TypeOK
    <3> QED BY <2>1, <2>3, <3>2, <3>3, <3>4 DEF AskedInv
  <2> QED BY <2>4, <2>5
<1> QED BY <1>1, <1>2, <1>3

-----------------------------------------------------------------------------
(***************************************************************************)
(* The children and their files.  A child past "read" has decided; it has  *)
(* won once it has no file left to write.                                  *)
(***************************************************************************)
ChildFields == {"at", "jobs", "col", "formulas", "outputs", "game"}

ChildShape == child = [k \in Kids |-> [f \in ChildFields |-> child[k][f]]]

Decides(k) == kid[k] # "none" /\ MayDecide(k) /\ (k = "real" => child[k].game)

ChildInv ==
  /\ ChildShape
  /\ \A k \in Kids :
       /\ child[k].at \in {"read", "output", "writing"}
       /\ child[k].outputs \in Seq({opts.winreg, opts.synth} \ {""})
       /\ child[k].at = "read" => child[k].outputs = <<>>
       /\ child[k].at # "read" => phase = "run" /\ Decides(k)
       /\ child[k].at = "writing" => child[k].outputs # <<>>
       /\ won[k] => child[k].at = "output" /\ child[k].outputs = <<>>

(* No other child has decided. *)
Alone(k) == \A l \in Kids \ {k} : child[l].at = "read"

Complete(k) == [by |-> k, complete |-> TRUE]

(* What the only child that has decided no longer has to write is complete. *)
FilesInv ==
  /\ files \in [FileNames(world) -> [by : Kids \cup {"nobody"}, complete : BOOLEAN]]
  /\ \A k \in Kids :
       Alone(k) /\ child[k].at # "read" =>
         /\ child[k].at = "writing" => files[Head(child[k].outputs)].by = k
         /\ child[k].game =>
              \A f \in Range(Outputs(k)) \ Range(child[k].outputs) : files[f] = Complete(k)

(***************************************************************************)
(* A child that reads changes nothing that the others, or those that have  *)
(* decided, have read or write.                                            *)
(***************************************************************************)
LEMMA ReadingKeeps ==
  ASSUME ChildShape, NEW k \in Kids, ReadFormula(k) \/ ReadFile(k) \/ ReadStdin(k)
  PROVE  /\ ChildShape'
         /\ \A l \in Kids :
              /\ UNCHANGED <<child[l].at, child[l].outputs, child[l].game>>
              /\ child[l].at # "read" => UNCHANGED child[l].formulas
         /\ UNCHANGED <<world, phase, opts, files>>
         /\ End(k, 2, FALSE) \/ UNCHANGED vars
<1> DEFINE Same == /\ ChildShape'
                   /\ \A l \in Kids :
                        /\ UNCHANGED <<child[l].at, child[l].outputs, child[l].game>>
                        /\ child[l].at # "read" => UNCHANGED child[l].formulas
<1>1. UNCHANGED <<world, phase, opts, files>> /\ (End(k, 2, FALSE) \/ UNCHANGED vars)
  BY DEF ReadFormula, ReadFile, ReadStdin
<1> SUFFICES Same
  BY <1>1
<1>2. child[k].at = "read"
  BY DEF ReadFormula, ReadFile, ReadStdin, Working
<1>3. ASSUME NEW c, child' = [child EXCEPT ![k] = c], c = [f \in ChildFields |-> c[f]],
             c.at = child[k].at, c.outputs = child[k].outputs, c.game = child[k].game
      PROVE  Same
  <2>1. child'[k] = c /\ \A l \in Kids \ {k} : child'[l] = child[l]
    BY <1>3 DEF ChildShape
  <2>2. \A l \in Kids : child'[l] = [f \in ChildFields |-> child'[l][f]]
    BY <1>3, <2>1 DEF ChildShape
  <2>3. ChildShape'
    BY <1>3, <2>2 DEF ChildShape
  <2> QED BY <1>2, <1>3, <2>1, <2>3
<1>4. ASSUME child' = child PROVE Same
  BY <1>4 DEF ChildShape
<1>5. child[k] = [f \in ChildFields |-> child[k][f]]
  BY DEF ChildShape
<1>6. CASE ReadFormula(k)
  <2>1. PICK jobs, formulas : child' = [child EXCEPT ![k].jobs = jobs, ![k].formulas = formulas]
    BY <1>6 DEF ReadFormula
  <2> DEFINE c == [child[k] EXCEPT !.jobs = jobs, !.formulas = formulas]
  <2>2. child' = [child EXCEPT ![k] = c]
    BY <2>1 DEF ChildShape
  <2>3. /\ c = [f \in ChildFields |-> c[f]]
        /\ c.at = child[k].at /\ c.outputs = child[k].outputs /\ c.game = child[k].game
    BY <1>5 DEF ChildFields
  <2> QED BY <1>3, <2>2, <2>3
<1>7. CASE ReadFile(k)
  <2>1. CASE child' = child
    BY <1>4, <2>1
  <2>2. CASE child' # child
    <3>1. PICK jobs, col, formulas :
            child' = [child EXCEPT ![k].jobs = jobs, ![k].col = col, ![k].formulas = formulas]
      BY <1>7, <2>2 DEF ReadFile
    <3> DEFINE c == [child[k] EXCEPT !.jobs = jobs, !.col = col, !.formulas = formulas]
    <3>2. child' = [child EXCEPT ![k] = c]
      BY <3>1 DEF ChildShape
    <3>3. /\ c = [f \in ChildFields |-> c[f]]
          /\ c.at = child[k].at /\ c.outputs = child[k].outputs /\ c.game = child[k].game
      BY <1>5 DEF ChildFields
    <3> QED BY <1>3, <3>2, <3>3
  <2> QED BY <2>1, <2>2
<1>8. CASE ReadStdin(k)
  <2>1. CASE child' = child
    BY <1>4, <2>1
  <2>2. CASE child' # child
    <3> DEFINE j == Head(child[k].jobs)
               col == ColumnFor(k, j)
               first == [child EXCEPT ![k].jobs[1].col = 0, ![k].col = AbsVal(col)]
               jobs == [child[k].jobs EXCEPT ![1].col = 0]
               d == [child[k] EXCEPT !.jobs = jobs, !.col = AbsVal(col)]
    <3>1. \/ child' = [first EXCEPT ![k].formulas = @ \o FormulasOf(col, Head(stdin))]
          \/ child' = [first EXCEPT ![k].jobs = Tail(@)]
      BY <1>8, <2>2 DEF ReadStdin
    <3>2. first = [child EXCEPT ![k] = d]
      BY DEF ChildShape
    <3>3. /\ d = [f \in ChildFields |-> d[f]]
          /\ d.at = child[k].at /\ d.outputs = child[k].outputs /\ d.game = child[k].game
      BY <1>5 DEF ChildFields
    <3> HIDE DEF first, d, j, col, jobs
    <3>4. first[k] = d /\ DOMAIN child = Kids
      BY <3>2 DEF ChildShape
    <3>5. CASE child' = [first EXCEPT ![k].formulas = @ \o FormulasOf(col, Head(stdin))]
      <4> DEFINE c == [d EXCEPT !.formulas = @ \o FormulasOf(col, Head(stdin))]
      <4>1. child' = [child EXCEPT ![k] = c]
        BY <3>2, <3>4, <3>5
      <4>2. /\ c = [f \in ChildFields |-> c[f]]
            /\ c.at = child[k].at /\ c.outputs = child[k].outputs /\ c.game = child[k].game
        BY <3>3 DEF ChildFields
      <4> QED BY <1>3, <4>1, <4>2
    <3>6. CASE child' = [first EXCEPT ![k].jobs = Tail(@)]
      <4> DEFINE c == [d EXCEPT !.jobs = Tail(@)]
      <4>1. child' = [child EXCEPT ![k] = c]
        BY <3>2, <3>4, <3>6
      <4>2. /\ c = [f \in ChildFields |-> c[f]]
            /\ c.at = child[k].at /\ c.outputs = child[k].outputs /\ c.game = child[k].game
        BY <3>3 DEF ChildFields
      <4> QED BY <1>3, <4>1, <4>2
    <3> QED BY <3>1, <3>5, <3>6
  <2> QED BY <2>1, <2>2
<1> QED BY <1>6, <1>7, <1>8

(***************************************************************************)
(* What a step may do to the children and their files.                     *)
(***************************************************************************)
LEMMA ChildSteps ==
  ASSUME [ProgramNext]_allvars, ~ParseOption, ~Adjust
  PROVE  \/ UNCHANGED <<child, files>>
         \/ \E k \in Kids : ReadFormula(k) \/ ReadFile(k) \/ ReadStdin(k)
         \/ \E k \in Kids : Win(k) \/ OpenOutput(k) \/ CloseOutput(k)
<1>1. ASSUME NEW k \in Kids, Unsolvable(k) \/ GiveUp(k) \/ Exit(k) PROVE UNCHANGED <<child, files>>
  BY <1>1 DEF Unsolvable, GiveUp, Exit, program
<1>2. ASSUME UNCHANGED program \/ UNCHANGED allvars PROVE UNCHANGED <<child, files>>
  BY <1>2 DEF program, allvars
<1> QED BY <1>1, <1>2 DEF ProgramNext, MainStep, ChildStep

(***************************************************************************)
(* A child that is there stays, and it wins by Exit alone.                 *)
(***************************************************************************)
LEMMA WonByExit ==
  ASSUME PhaseInv, phase = "run", [ProgramNext]_allvars, ~ParseOption, ~Adjust, NEW k \in Kids
  PROVE  /\ kid[k] # "none" => kid'[k] # "none"
         /\ won'[k] => won[k] \/ Exit(k)
<1>0. CoreInv /\ kid \in [Kids -> {"none", "running", "exited", "reaped"}] /\ won \in [Kids -> BOOLEAN]
  BY DEF PhaseInv, CoreInv, TypeOK
<1>1. kid[k] # "none" => kid'[k] # "none"
  <2>1. CASE Fork
    BY <1>0, <2>1 DEF Fork
  <2>2. CASE ~Fork
    BY <1>0, <2>2, SupervisorStep, OnlyForkForks
  <2> QED BY <2>1, <2>2
<1>2. ASSUME NEW l \in Kids, NEW c, End(l, c, FALSE) PROVE won'[k] => won[k]
  BY <1>0, <1>2 DEF End
<1>3. ASSUME UNCHANGED won PROVE won'[k] => won[k]
  BY <1>3
<1>4. ASSUME NEW l \in Kids, ChildStep(l) PROVE won'[k] => won[k] \/ Exit(k)
  <2>1. CASE ReadFormula(l) \/ Win(l) \/ OpenOutput(l) \/ CloseOutput(l)
    BY <1>3, <2>1 DEF ReadFormula, Win, OpenOutput, CloseOutput, vars, children
  <2>2. CASE ReadFile(l) \/ ReadStdin(l)
    BY <1>2, <1>3, <2>2 DEF ReadFile, ReadStdin, vars, children
  <2>3. CASE Unsolvable(l) \/ GiveUp(l)
    BY <1>2, <2>3 DEF Unsolvable, GiveUp
  <2>4. CASE Exit(l)
    <3>1. CASE l = k
      BY <2>4, <3>1
    <3>2. CASE l # k
      BY <1>0, <2>4, <3>2 DEF Exit, End
    <3> QED BY <3>1, <3>2
  <2>5. CASE Throw(l) \/ Die(l) \/ Terminated(l)
    BY <1>2, <2>5 DEF Throw, Die, Terminated
  <2> QED BY <1>4, <2>1, <2>2, <2>3, <2>4, <2>5 DEF ChildStep
<1>5. ASSUME ParentStep \/ Signal PROVE UNCHANGED won
  <2>1. ASSUME NEW l \in Kids, Wait(l) \/ Drain(l) PROVE UNCHANGED won
    BY <2>1, Zenon DEF Wait, Drain
  <2>2. CASE Fork \/ Unknown \/ Kill \/ Verdict \/ Abort \/ Resume \/ Signal
    BY <2>2, Zenon DEF Fork, Unknown, Kill, Verdict, Abort, Resume, Signal, children
  <2> QED BY <1>5, <2>1, <2>2 DEF ParentStep
<1>6. UNCHANGED allvars => UNCHANGED won
  BY DEF allvars, vars, children
<1> QED BY <1>1, <1>3, <1>4, <1>5, <1>6 DEF ProgramNext, MainStep

(***************************************************************************)
(* What two sequences hold, their concatenation holds.                     *)
(***************************************************************************)
LEMMA ConcatHolds ==
  ASSUME NEW S, NEW a \in Seq(S), NEW b \in Seq(S)
  PROVE  a \o b \in Seq(S) /\ Range(a) \subseteq Range(a \o b) /\ Range(b) \subseteq Range(a \o b)
<1>1. /\ a \o b \in Seq(S) /\ Len(a \o b) = Len(a) + Len(b)
      /\ Len(a) \in Nat /\ Len(b) \in Nat
      /\ DOMAIN a = 1 .. Len(a) /\ DOMAIN b = 1 .. Len(b) /\ DOMAIN (a \o b) = 1 .. Len(a) + Len(b)
  OBVIOUS
<1>2. \A n \in 1 .. Len(a) : (a \o b)[n] = a[n] /\ n \in 1 .. Len(a) + Len(b)
  BY <1>1
<1>3. \A n \in 1 .. Len(b) : (a \o b)[Len(a) + n] = b[n] /\ Len(a) + n \in 1 .. Len(a) + Len(b)
  BY <1>1
<1>4. Range(a) \subseteq Range(a \o b)
  BY <1>1, <1>2 DEF Range
<1>5. Range(b) \subseteq Range(a \o b)
  BY <1>1, <1>3 DEF Range
<1> QED BY <1>1, <1>4, <1>5

(***************************************************************************)
(* The sequence of one element, and of none.                               *)
(***************************************************************************)
LEMMA OneOrNone ==
  ASSUME NEW S
  PROVE  /\ <<>> \in Seq(S) /\ Range(<<>>) = {}
         /\ \A f \in S : <<f>> \in Seq(S) /\ Range(<<f>>) = {f}
<1>1. <<>> \in Seq(S) /\ DOMAIN <<>> = {}
  OBVIOUS
<1>2. ASSUME NEW f \in S PROVE <<f>> \in Seq(S) /\ DOMAIN <<f>> = {1} /\ <<f>>[1] = f
  OBVIOUS
<1>3. ASSUME NEW f \in S PROVE Range(<<f>>) = {f}
  BY <1>2 DEF Range
<1> QED BY <1>1, <1>2, <1>3 DEF Range

(***************************************************************************)
(* What a sequence holds is its head and what its tail holds.              *)
(***************************************************************************)
LEMMA HeadAndTail ==
  ASSUME NEW S, NEW q \in Seq(S)
  PROVE  /\ Range(q) \subseteq S
         /\ q # <<>> => /\ Head(q) \in S /\ Head(q) \in Range(q)
                        /\ Range(q) \subseteq Range(Tail(q)) \cup {Head(q)}
<1>1. DOMAIN q = 1 .. Len(q) /\ Len(q) \in Nat /\ \A n \in 1 .. Len(q) : q[n] \in S
  OBVIOUS
<1>2. Range(q) \subseteq S
  BY <1>1 DEF Range
<1>3. ASSUME q # <<>>
      PROVE  /\ Head(q) \in S /\ Head(q) \in Range(q)
             /\ Range(q) \subseteq Range(Tail(q)) \cup {Head(q)}
  <2>1. Len(q) >= 1 /\ Head(q) = q[1]
    BY <1>3
  <2>2. DOMAIN Tail(q) = 1 .. Len(q) - 1 /\ \A n \in 1 .. Len(q) - 1 : Tail(q)[n] = q[n + 1]
    BY <1>1, <1>3, <2>1
  <2>3. Head(q) \in S /\ Head(q) \in Range(q)
    BY <1>1, <2>1 DEF Range
  <2>4. ASSUME NEW n \in 1 .. Len(q), n # 1 PROVE q[n] \in Range(Tail(q))
    <3>1. n - 1 \in 1 .. Len(q) - 1 /\ Tail(q)[n - 1] = q[n]
      BY <1>1, <2>1, <2>2, <2>4
    <3> QED BY <2>2, <3>1 DEF Range
  <2>5. Range(q) \subseteq Range(Tail(q)) \cup {Head(q)}
    BY <1>1, <2>1, <2>4 DEF Range
  <2> QED BY <2>3, <2>5
<1> QED BY <1>2, <1>3

(***************************************************************************)
(* A name that is given is the only one of its sequence.                   *)
(***************************************************************************)
LEMMA NamedHolds ==
  ASSUME NEW S, NEW f, f # "" => f \in S
  PROVE  Named(f) \in Seq(S) /\ Range(Named(f)) = {f} \ {""}
<1>1. CASE f = ""
  BY <1>1, OneOrNone, Zenon DEF Named
<1>2. CASE f # ""
  <2>1. Named(f) = <<f>> /\ f \in S
    BY <1>2, Zenon DEF Named
  <2>2. {f} \ {""} = {f}
    BY <1>2
  <2>3. <<f>> \in Seq(S) /\ Range(<<f>>) = {f}
    BY <2>1, OneOrNone, Zenon
  <2> QED BY <2>1, <2>2, <2>3, Zenon
<1> QED BY <1>1, <1>2

(***************************************************************************)
(* The files that a child has to write.                                    *)
(***************************************************************************)
LEMMA OutputNames ==
  ASSUME NEW k
  PROVE  /\ Outputs(k) \in Seq({opts.winreg, opts.synth} \ {""})
         /\ opts.winreg # "" => opts.winreg \in Range(Outputs(k))
         /\ k = "real" /\ opts.synth # "" => opts.synth \in Range(Outputs(k))
<1> DEFINE S == {opts.winreg, opts.synth} \ {""}
           a == Named(opts.winreg)
           b == IF k = "real" THEN Named(opts.synth) ELSE <<>>
<1>1. a \in Seq(S) /\ Range(a) = {opts.winreg} \ {""}
  BY NamedHolds
<1>2. Named(opts.synth) \in Seq(S) /\ Range(Named(opts.synth)) = {opts.synth} \ {""}
  BY NamedHolds
<1>3. <<>> \in Seq(S)
  OBVIOUS
<1>4. b \in Seq(S) /\ (k = "real" => Range(b) = {opts.synth} \ {""})
  BY <1>2, <1>3
<1>5. Outputs(k) = a \o b
  BY DEF Outputs
<1> HIDE DEF a, b, S
<1>6. a \o b \in Seq(S) /\ Range(a) \subseteq Range(a \o b) /\ Range(b) \subseteq Range(a \o b)
  BY <1>1, <1>4, ConcatHolds
<1> QED BY <1>1, <1>4, <1>5, <1>6 DEF S

(***************************************************************************)
(* What deciding and writing change: the child that does it, and nothing   *)
(* of what it has read.                                                    *)
(***************************************************************************)
LEMMA WritingKeeps ==
  ASSUME ChildShape, NEW k \in Kids, Win(k) \/ OpenOutput(k) \/ CloseOutput(k)
  PROVE  /\ ChildShape'
         /\ child'[k].formulas = child[k].formulas
         /\ \A l \in Kids \ {k} : child'[l] = child[l]
         /\ UNCHANGED <<vars, world, phase, opts>>
         /\ Win(k) =>
              /\ child[k].at = "read" /\ child'[k].at = "output" /\ MayDecide(k)
              /\ k = "real" => child'[k].game = TRUE
              /\ child'[k].outputs = IF child'[k].game THEN Outputs(k) ELSE <<>>
         /\ OpenOutput(k) =>
              /\ child[k].at = "output" /\ child'[k].at = "writing" /\ child[k].outputs # <<>>
              /\ child'[k].outputs = child[k].outputs /\ child'[k].game = child[k].game
         /\ CloseOutput(k) =>
              /\ child[k].at = "writing" /\ child'[k].at = "output"
              /\ child'[k].outputs = Tail(child[k].outputs) /\ child'[k].game = child[k].game
<1>1. child[k] = [f \in ChildFields |-> child[k][f]]
  BY DEF ChildShape
<1>2. ASSUME NEW c, child' = [child EXCEPT ![k] = c], c = [f \in ChildFields |-> c[f]]
      PROVE  ChildShape' /\ child'[k] = c /\ \A l \in Kids \ {k} : child'[l] = child[l]
  <2>1. child'[k] = c /\ \A l \in Kids \ {k} : child'[l] = child[l]
    BY <1>2 DEF ChildShape
  <2>2. \A l \in Kids : child'[l] = [f \in ChildFields |-> child'[l][f]]
    BY <1>2, <2>1 DEF ChildShape
  <2>3. ChildShape'
    BY <1>2, <2>2 DEF ChildShape
  <2> QED BY <2>1, <2>3
<1>3. UNCHANGED <<vars, world, phase, opts>>
  BY DEF Win, OpenOutput, CloseOutput
<1>4. CASE Win(k)
  <2>1. PICK game \in IF k = "real" THEN {TRUE} ELSE BOOLEAN :
          child' = [child EXCEPT ![k].at = "output", ![k].outputs = IF game THEN Outputs(k) ELSE <<>>,
                                 ![k].game = game]
    BY <1>4 DEF Win
  <2> DEFINE out == IF game THEN Outputs(k) ELSE <<>>
             c == [child[k] EXCEPT !.at = "output", !.outputs = out, !.game = game]
  <2>2. child' = [child EXCEPT ![k] = c]
    BY <2>1 DEF ChildShape
  <2>3. /\ c = [f \in ChildFields |-> c[f]] /\ c.at = "output" /\ c.outputs = out
        /\ c.game = game /\ c.formulas = child[k].formulas
    BY <1>1 DEF ChildFields
  <2>4. child[k].at = "read" /\ MayDecide(k)
    BY <1>4 DEF Win, Solving, Working
  <2>5. k = "real" => game = TRUE
    BY <2>1
  <2> HIDE DEF c
  <2>6. ChildShape' /\ child'[k] = c /\ \A l \in Kids \ {k} : child'[l] = child[l]
    BY <1>2, <2>2, <2>3
  <2>7. ~OpenOutput(k) /\ ~CloseOutput(k)
    BY <2>4 DEF OpenOutput, CloseOutput, Working
  <2> QED BY <1>3, <2>3, <2>4, <2>5, <2>6, <2>7
<1>5. CASE OpenOutput(k)
  <2> DEFINE c == [child[k] EXCEPT !.at = "writing"]
  <2>1. child' = [child EXCEPT ![k] = c]
    BY <1>5 DEF OpenOutput, ChildShape
  <2>2. /\ c = [f \in ChildFields |-> c[f]] /\ c.at = "writing" /\ c.outputs = child[k].outputs
        /\ c.game = child[k].game /\ c.formulas = child[k].formulas
    BY <1>1 DEF ChildFields
  <2>3. child[k].at = "output" /\ child[k].outputs # <<>>
    BY <1>5 DEF OpenOutput, Working
  <2> HIDE DEF c
  <2>4. ChildShape' /\ child'[k] = c /\ \A l \in Kids \ {k} : child'[l] = child[l]
    BY <1>2, <2>1, <2>2
  <2>5. ~Win(k) /\ ~CloseOutput(k)
    BY <2>3 DEF Win, Solving, CloseOutput, Working
  <2> QED BY <1>3, <2>2, <2>3, <2>4, <2>5
<1>6. CASE CloseOutput(k)
  <2> DEFINE c == [child[k] EXCEPT !.at = "output", !.outputs = Tail(@)]
  <2>1. child' = [child EXCEPT ![k] = c]
    BY <1>6 DEF CloseOutput, ChildShape
  <2>2. /\ c = [f \in ChildFields |-> c[f]] /\ c.at = "output" /\ c.outputs = Tail(child[k].outputs)
        /\ c.game = child[k].game /\ c.formulas = child[k].formulas
    BY <1>1 DEF ChildFields
  <2>3. child[k].at = "writing"
    BY <1>6 DEF CloseOutput, Working
  <2> HIDE DEF c
  <2>4. ChildShape' /\ child'[k] = c /\ \A l \in Kids \ {k} : child'[l] = child[l]
    BY <1>2, <2>1, <2>2
  <2>5. ~Win(k) /\ ~OpenOutput(k)
    BY <2>3 DEF Win, Solving, OpenOutput, Working
  <2> QED BY <1>3, <2>2, <2>3, <2>4, <2>5
<1> QED BY <1>4, <1>5, <1>6

(***************************************************************************)
(* Every step keeps what is known of the children.                         *)
(***************************************************************************)
LEMMA ChildInvStep ==
  ASSUME OptionsInv, PhaseInv, ChildInv, [ProgramNext]_allvars
  PROVE  ChildInv'
<1> USE DEF Decides
<1>0. ASSUME NEW k \in Kids, UNCHANGED <<world, opts>>, child'[k].formulas = child[k].formulas
      PROVE  MayDecide(k)' <=> MayDecide(k)
  BY <1>0 DEF MayDecide, Exact, LargestK, SpecificationOf, Signed
<1>1. CASE ParseOption \/ Adjust
  <2>1. phase = "parse" /\ Fresh
    BY <1>1 DEF ParseOption, Adjust, PhaseInv
  <2>2. \A k \in Kids : child[k].at = "read" /\ child[k].outputs = <<>> /\ ~won[k]
    BY <2>1 DEF ChildInv, Fresh
  <2>3. won' = won
    BY <1>1 DEF ParseOption, Adjust, Refuse, vars, children
  <2>4. ChildShape' /\ \A k \in Kids : child'[k].at = "read" /\ child'[k].outputs = <<>>
    <3>1. CASE child' = child
      BY <2>2, <3>1 DEF ChildInv, ChildShape
    <3>2. CASE \E jobs : child' = [k \in Kids |-> [child[k] EXCEPT !.jobs = jobs]]
      <4>1. PICK jobs : child' = [k \in Kids |-> [child[k] EXCEPT !.jobs = jobs]]
        BY <3>2
      <4>2. \A k \in Kids : child[k] = [f \in ChildFields |-> child[k][f]]
        BY DEF ChildInv, ChildShape
      <4>3. \A k \in Kids : /\ child'[k] = [f \in ChildFields |-> child'[k][f]]
                            /\ child'[k].at = "read" /\ child'[k].outputs = <<>>
        BY <2>2, <4>1, <4>2 DEF ChildFields
      <4> QED BY <4>1, <4>3 DEF ChildShape
    <3> QED BY <1>1, <3>1, <3>2 DEF ParseOption, Adjust, Refuse
  <2>5. \A S : <<>> \in Seq(S)
    OBVIOUS
  <2> QED BY <2>2, <2>3, <2>4, <2>5 DEF ChildInv
<1>2. CASE ~ParseOption /\ ~Adjust
  <2>1. UNCHANGED <<world, phase, opts>>
    BY <1>2, OthersKeep
  <2>2. ASSUME phase = "run", NEW k \in Kids
        PROVE  (kid[k] # "none" => kid'[k] # "none") /\ (won'[k] => won[k] \/ Exit(k))
    BY <1>2, <2>2, WonByExit
  <2>3. CASE phase # "run"
    <3>1. UNCHANGED vars
      <4>1. kid = [k \in Kids |-> "none"]
        BY <2>3 DEF PhaseInv, Fresh
      <4> QED BY <1>2, <2>3, <4>1, SupervisorStep
    <3>2. child' = child
      BY <1>2, <2>3, ChildSteps
      DEF ReadFormula, ReadFile, ReadStdin, Win, Solving, OpenOutput, CloseOutput, Working
    <3>3. \A k \in Kids : MayDecide(k)' <=> MayDecide(k)
      BY <1>0, <2>1, <3>2
    <3> QED BY <2>1, <3>1, <3>2, <3>3 DEF ChildInv, ChildShape, vars, children
  <2>4. CASE phase = "run" /\ child' = child
    <3>1. \A k \in Kids : Exit(k) => child[k].at = "output" /\ child[k].outputs = <<>>
      BY DEF Exit, Working
    <3>2. \A k \in Kids : MayDecide(k)' <=> MayDecide(k)
      BY <1>0, <2>1, <2>4
    <3> QED BY <2>1, <2>2, <2>4, <3>1, <3>2 DEF ChildInv, ChildShape
  <2>5. ASSUME phase = "run", NEW k \in Kids, ReadFormula(k) \/ ReadFile(k) \/ ReadStdin(k)
        PROVE  ChildInv'
    <3>1. /\ ChildShape'
          /\ \A l \in Kids :
               /\ child'[l].at = child[l].at /\ child'[l].outputs = child[l].outputs
               /\ child'[l].game = child[l].game
               /\ child[l].at # "read" => child'[l].formulas = child[l].formulas
          /\ End(k, 2, FALSE) \/ UNCHANGED vars
      BY <2>5, ReadingKeeps DEF ChildInv
    <3>2. \A l \in Kids : won'[l] => won[l]
      <4>1. won \in [Kids -> BOOLEAN]
        BY <2>5 DEF PhaseInv, CoreInv, TypeOK
      <4> QED BY <3>1, <4>1 DEF End, vars, children
    <3>3. ASSUME NEW l \in Kids
          PROVE  /\ child'[l].at \in {"read", "output", "writing"}
                 /\ child'[l].outputs \in Seq({opts'.winreg, opts'.synth} \ {""})
                 /\ child'[l].at = "read" => child'[l].outputs = <<>>
                 /\ child'[l].at # "read" => phase' = "run" /\ Decides(l)'
                 /\ child'[l].at = "writing" => child'[l].outputs # <<>>
                 /\ won'[l] => child'[l].at = "output" /\ child'[l].outputs = <<>>
      <4>1. ASSUME child[l].at # "read" PROVE Decides(l)'
        <5>1. Decides(l)
          BY <4>1 DEF ChildInv
        <5>2. kid'[l] # "none"
          BY <2>2, <2>5, <5>1
        <5>3. child'[l].formulas = child[l].formulas /\ child'[l].game = child[l].game
          BY <3>1, <4>1
        <5>4. MayDecide(l)' <=> MayDecide(l)
          BY <1>0, <2>1, <5>3
        <5> QED BY <5>1, <5>2, <5>3, <5>4
      <4>2. /\ child'[l].at = child[l].at /\ child'[l].outputs = child[l].outputs
            /\ phase' = phase /\ opts' = opts /\ (won'[l] => won[l])
        BY <2>1, <3>1, <3>2
      <4>3. /\ child[l].at \in {"read", "output", "writing"}
            /\ child[l].outputs \in Seq({opts.winreg, opts.synth} \ {""})
            /\ child[l].at = "read" => child[l].outputs = <<>>
            /\ child[l].at = "writing" => child[l].outputs # <<>>
            /\ won[l] => child[l].at = "output" /\ child[l].outputs = <<>>
        BY DEF ChildInv
      <4> HIDE DEF Decides
      <4> QED BY <2>5, <4>1, <4>2, <4>3
    <3> QED BY <3>1, <3>3 DEF ChildInv
  <2>6. ASSUME phase = "run", NEW k \in Kids, Win(k) \/ OpenOutput(k) \/ CloseOutput(k)
        PROVE  ChildInv'
    <3> DEFINE S == {opts.winreg, opts.synth} \ {""}
    <3>1. /\ ChildShape'
          /\ child'[k].formulas = child[k].formulas
          /\ \A l \in Kids \ {k} : child'[l] = child[l]
          /\ UNCHANGED <<vars, world, phase, opts>>
          /\ Win(k) =>
               /\ child[k].at = "read" /\ child'[k].at = "output" /\ MayDecide(k)
               /\ k = "real" => child'[k].game = TRUE
               /\ child'[k].outputs = IF child'[k].game THEN Outputs(k) ELSE <<>>
          /\ OpenOutput(k) =>
               /\ child[k].at = "output" /\ child'[k].at = "writing" /\ child[k].outputs # <<>>
               /\ child'[k].outputs = child[k].outputs /\ child'[k].game = child[k].game
          /\ CloseOutput(k) =>
               /\ child[k].at = "writing" /\ child'[k].at = "output"
               /\ child'[k].outputs = Tail(child[k].outputs) /\ child'[k].game = child[k].game
      BY <2>6, WritingKeeps DEF ChildInv
    <3>2. kid[k] = "running"
      BY <2>6 DEF Win, Solving, OpenOutput, CloseOutput, Working
    <3>3. ~won[k]
      BY <2>6, <3>1, <3>2 DEF ChildInv, PhaseInv, CoreInv, StatusInv
    <3>4. child'[k].outputs \in Seq(S)
      <4>1. Outputs(k) \in Seq(S)
        BY OutputNames
      <4>2. child[k].outputs \in Seq(S)
        BY DEF ChildInv
      <4>3. <<>> \in Seq(S)
        OBVIOUS
      <4>4. child[k].at = "writing" => child[k].outputs # <<>>
        BY DEF ChildInv
      <4> HIDE DEF S
      <4>5. CASE Win(k)
        BY <3>1, <4>1, <4>3, <4>5
      <4>6. CASE OpenOutput(k)
        BY <3>1, <4>2, <4>6
      <4>7. CASE CloseOutput(k)
        <5>1. child[k].outputs # <<>> /\ child'[k].outputs = Tail(child[k].outputs)
          BY <3>1, <4>4, <4>7
        <5>2. \A q \in Seq(S) : q # <<>> => Tail(q) \in Seq(S)
          OBVIOUS
        <5> QED BY <4>2, <5>1, <5>2
      <4> QED BY <2>6, <4>5, <4>6, <4>7
    <3>5. /\ child'[k].at \in {"output", "writing"}
          /\ child'[k].at = "writing" => child'[k].outputs # <<>>
          /\ MayDecide(k)' /\ (k = "real" => child'[k].game)
      <4>1. MayDecide(k)' <=> MayDecide(k)
        BY <1>0, <3>1
      <4> QED BY <2>6, <3>1, <4>1 DEF ChildInv
    <3>6. UNCHANGED <<kid, won>>
      BY <3>1 DEF vars, children
    <3>7. child'[k].outputs \in Seq({opts'.winreg, opts'.synth} \ {""})
      BY <3>1, <3>4
    <3>8. ASSUME NEW l \in Kids
          PROVE  /\ child'[l].at \in {"read", "output", "writing"}
                 /\ child'[l].outputs \in Seq({opts'.winreg, opts'.synth} \ {""})
                 /\ child'[l].at = "read" => child'[l].outputs = <<>>
                 /\ child'[l].at # "read" => phase' = "run" /\ Decides(l)'
                 /\ child'[l].at = "writing" => child'[l].outputs # <<>>
                 /\ won'[l] => child'[l].at = "output" /\ child'[l].outputs = <<>>
      <4>1. CASE l = k
        BY <2>6, <3>1, <3>2, <3>3, <3>5, <3>6, <3>7, <4>1
      <4>2. CASE l # k
        <5>1. child'[l] = child[l]
          BY <3>1, <4>2
        <5>2. MayDecide(l)' <=> MayDecide(l)
          BY <1>0, <3>1, <5>1
        <5> QED BY <3>1, <3>6, <5>1, <5>2 DEF ChildInv
      <4> QED BY <4>1, <4>2
    <3> QED BY <3>1, <3>8 DEF ChildInv
  <2> QED BY <1>2, <2>3, <2>4, <2>5, <2>6, ChildSteps
<1> QED BY <1>1, <1>2

(***************************************************************************)
(* Every step keeps what is known of the files: the only child that has    *)
(* decided has them for itself.                                            *)
(***************************************************************************)
LEMMA FilesStep ==
  ASSUME OptionsInv, ChoiceInv, ChildInv, ChildInv', FilesInv, [ProgramNext]_allvars
  PROVE  FilesInv'
<1> DEFINE F == [FileNames(world) -> [by : Kids \cup {"nobody"}, complete : BOOLEAN]]
           Written(k) == /\ child[k].at = "writing" => files[Head(child[k].outputs)].by = k
                         /\ child[k].game =>
                              \A f \in Range(Outputs(k)) \ Range(child[k].outputs) : files[f] = Complete(k)
<1>0. files \in F /\ \A k \in Kids : Alone(k) /\ child[k].at # "read" => Written(k)
  BY DEF FilesInv
<1>1. CASE ParseOption \/ Adjust
  <2>1. world' = world /\ files' = files
    BY <1>1 DEF ParseOption, Adjust, Refuse
  <2>2. phase = "parse" /\ \A k \in Kids : child[k].at = "read"
    BY <1>1 DEF ParseOption, Adjust, ChildInv
  <2>3. \A k \in Kids : child'[k].at = "read"
    <3>1. CASE child' = child
      BY <2>2, <3>1
    <3>2. CASE \E jobs : child' = [k \in Kids |-> [child[k] EXCEPT !.jobs = jobs]]
      <4>1. PICK jobs : child' = [k \in Kids |-> [child[k] EXCEPT !.jobs = jobs]]
        BY <3>2
      <4>2. \A k \in Kids : child[k] = [f \in ChildFields |-> child[k][f]]
        BY DEF ChildInv, ChildShape
      <4> QED BY <2>2, <4>1, <4>2 DEF ChildFields
    <3> QED BY <1>1, <3>1, <3>2 DEF ParseOption, Adjust, Refuse
  <2>4. FileNames(world)' = FileNames(world)
    BY <2>1 DEF FileNames
  <2> QED BY <1>0, <2>1, <2>3, <2>4 DEF FilesInv
<1>2. CASE ~ParseOption /\ ~Adjust
  <2>1. UNCHANGED <<world, phase, opts>>
    BY <1>2, OthersKeep
  <2>2. FileNames(world)' = FileNames(world) /\ \A k \in Kids : Outputs(k)' = Outputs(k)
    BY <2>1 DEF FileNames, Outputs
  <2>3. CASE UNCHANGED <<child, files>>
    <3>1. \A k \in Kids : (Alone(k)' <=> Alone(k)) /\ (Written(k)' <=> Written(k))
      BY <2>2, <2>3 DEF Alone
    <3> QED BY <1>0, <2>2, <2>3, <3>1 DEF FilesInv
  <2>4. ASSUME NEW k \in Kids, ReadFormula(k) \/ ReadFile(k) \/ ReadStdin(k)
        PROVE  FilesInv'
    <3>1. /\ \A l \in Kids :
               /\ child'[l].at = child[l].at /\ child'[l].outputs = child[l].outputs
               /\ child'[l].game = child[l].game
          /\ files' = files
      BY <2>4, ReadingKeeps DEF ChildInv
    <3>2. \A l \in Kids : (Alone(l)' <=> Alone(l)) /\ (Written(l)' <=> Written(l))
      BY <2>2, <3>1 DEF Alone
    <3> QED BY <1>0, <2>2, <3>1, <3>2 DEF FilesInv
  <2>5. ASSUME NEW k \in Kids, Win(k) \/ OpenOutput(k) \/ CloseOutput(k)
        PROVE  FilesInv'
    <3>1. /\ child'[k].at # "read"
          /\ \A l \in Kids \ {k} : child'[l] = child[l]
          /\ Win(k) =>
               /\ child'[k].at = "output"
               /\ child'[k].outputs = IF child'[k].game THEN Outputs(k) ELSE <<>>
          /\ OpenOutput(k) =>
               /\ child[k].at = "output" /\ child'[k].at = "writing" /\ child[k].outputs # <<>>
               /\ child'[k].outputs = child[k].outputs /\ child'[k].game = child[k].game
          /\ CloseOutput(k) =>
               /\ child[k].at = "writing" /\ child'[k].at = "output"
               /\ child'[k].outputs = Tail(child[k].outputs) /\ child'[k].game = child[k].game
      BY <2>5, WritingKeeps DEF ChildInv
    <3>2. \A l \in Kids \ {k} : ~Alone(l)'
      BY <3>1 DEF Alone
    <3>3. Alone(k)' <=> Alone(k)
      BY <3>1 DEF Alone
    <3> DEFINE S == {opts.winreg, opts.synth} \ {""}
               q == child[k].outputs
    <3>4. q \in Seq(S) /\ S \subseteq FileNames(world)
      BY DEF ChildInv, ChoiceInv
    <3>7. Range(Outputs(k)) \subseteq FileNames(world)
      <4>1. Outputs(k) \in Seq(S)
        BY OutputNames
      <4> HIDE DEF S
      <4>2. Range(Outputs(k)) \subseteq S
        BY <4>1, HeadAndTail
      <4> QED BY <3>4, <4>2
    <3>5. CASE Win(k)
      <4>1. files' = files
        BY <3>5 DEF Win
      <4>2. Written(k)'
        BY <2>2, <3>1, <3>5
      <4> QED BY <1>0, <2>2, <3>2, <4>1, <4>2 DEF FilesInv
    <3>6. CASE OpenOutput(k) \/ CloseOutput(k)
      <4>1. q # <<>>
        BY <3>1, <3>6 DEF ChildInv
      <4>2. /\ Head(q) \in FileNames(world) /\ Head(q) \in Range(q)
            /\ Range(q) \subseteq Range(Tail(q)) \cup {Head(q)}
        <5> HIDE DEF S, q
        <5> QED BY <3>4, <4>1, HeadAndTail
      <4> DEFINE h == Head(q)
      <4> HIDE DEF q
      <4>3. CASE OpenOutput(k)
        <5>1. files' = [files EXCEPT ![h] = [by |-> k, complete |-> FALSE]]
          BY <4>3 DEF OpenOutput, q
        <5>2. files' \in F
          BY <1>0, <4>2, <5>1
        <5>3. files'[h].by = k /\ \A f \in FileNames(world) \ {h} : files'[f] = files[f]
          BY <1>0, <4>2, <5>1
        <5>4. ASSUME Alone(k) PROVE Written(k)'
          <6>1. child[k].game => \A f \in Range(Outputs(k)) \ Range(q) : files[f] = Complete(k)
            BY <1>0, <3>1, <4>3, <5>4 DEF q
          <6>2. child'[k].outputs = q /\ child'[k].game = child[k].game /\ child'[k].at = "writing"
            BY <3>1, <4>3 DEF q
          <6>3. \A f \in Range(Outputs(k)) \ Range(q) : files'[f] = files[f]
            BY <3>7, <4>2, <5>3
          <6> QED BY <2>2, <5>3, <6>1, <6>2, <6>3
        <5> QED BY <2>2, <3>2, <3>3, <5>2, <5>4 DEF FilesInv
      <4>4. CASE CloseOutput(k)
        <5>1. files' = [files EXCEPT ![h].complete = @ \/ files[h].by = k]
          BY <4>4 DEF CloseOutput, q
        <5>2. files' \in F
          BY <1>0, <4>2, <5>1
        <5>3. /\ files[h].by = k => files'[h] = Complete(k)
              /\ \A f \in FileNames(world) \ {h} : files'[f] = files[f]
          BY <1>0, <4>2, <5>1 DEF Complete
        <5>4. ASSUME Alone(k) PROVE Written(k)'
          <6>1. /\ files[h].by = k
                /\ child[k].game => \A f \in Range(Outputs(k)) \ Range(q) : files[f] = Complete(k)
            BY <1>0, <3>1, <4>4, <5>4 DEF q
          <6>2. child'[k].outputs = Tail(q) /\ child'[k].game = child[k].game /\ child'[k].at = "output"
            BY <3>1, <4>4 DEF q
          <6>3. \A f \in Range(Outputs(k)) \ Range(Tail(q)) :
                  f = h \/ (f \notin Range(q) /\ files'[f] = files[f])
            BY <3>7, <4>2, <5>3
          <6> QED BY <2>2, <5>3, <6>1, <6>2, <6>3
        <5> QED BY <2>2, <3>2, <3>3, <5>2, <5>4 DEF FilesInv
      <4> QED BY <3>6, <4>3, <4>4
    <3> QED BY <2>5, <3>5, <3>6
  <2> QED BY <1>2, <2>3, <2>4, <2>5, ChildSteps
<1> QED BY <1>1, <1>2

-----------------------------------------------------------------------------
(***************************************************************************)
(* The inductive invariant of the program.                                 *)
(***************************************************************************)
ProgramInv == OptionsInv /\ ChoiceInv /\ PhaseInv /\ AskedInv /\ ChildInv /\ FilesInv

(***************************************************************************)
(* It holds before the first option is parsed.                             *)
(***************************************************************************)
LEMMA ProgramInitInv == ProgramInit => ProgramInv
<1> SUFFICES ASSUME ProgramInit PROVE ProgramInv
  OBVIOUS
<1>1. OptionsInv
  BY InitOptions
<1>2. ChoiceInv
  BY DEF ProgramInit, ChoiceInv, Defaults
<1>3. phase = "parse" /\ Fresh
  BY DEF ProgramInit, Fresh
<1>4. PhaseInv /\ AskedInv
  BY <1>3 DEF PhaseInv, AskedInv
<1>5. /\ ChildShape
      /\ \A k \in Kids : child[k].at = "read" /\ child[k].outputs = <<>> /\ ~won[k]
  BY <1>3 DEF ProgramInit, ChildShape, ChildFields, Fresh
<1>6. \A S : <<>> \in Seq(S)
  OBVIOUS
<1>7. ChildInv
  BY <1>5, <1>6 DEF ChildInv
<1>8. FilesInv
  BY <1>5 DEF ProgramInit, FilesInv
<1> QED BY <1>1, <1>2, <1>4, <1>7, <1>8 DEF ProgramInv

(***************************************************************************)
(* The inductive invariant holds in every reachable state.                 *)
(***************************************************************************)
THEOREM ProgramKeepsInvariant == ProgramSpec => []ProgramInv
<1>1. ProgramInit => ProgramInv
  BY ProgramInitInv
<1>2. ProgramInv /\ OptionsInv' /\ [ProgramNext]_allvars => ProgramInv'
  <2> SUFFICES ASSUME ProgramInv, OptionsInv', [ProgramNext]_allvars PROVE ProgramInv'
    OBVIOUS
  <2>1. ChoiceInv' /\ PhaseInv' /\ AskedInv' /\ ChildInv'
    BY ChoiceStep, PhaseStep, AskedStep, ChildInvStep DEF ProgramInv
  <2>2. FilesInv'
    BY <2>1, FilesStep DEF ProgramInv
  <2> QED BY <2>1, <2>2 DEF ProgramInv
<1> QED BY <1>1, <1>2, ProgramInvariant, PTL DEF ProgramSpec

(***************************************************************************)
(* UNKNOWN is only printed when no child decided, unless the program was   *)
(* stopped from outside, whatever the children read.                       *)
(***************************************************************************)
THEOREM ProgramUnknownJustified == ProgramSpec => []UnknownJustified
<1>1. ProgramInv => UnknownJustified
  <2> SUFFICES ASSUME ProgramInv PROVE UnknownJustified
    OBVIOUS
  <2>1. CASE phase = "run"
    BY <2>1, CoreUnknown DEF ProgramInv, PhaseInv
  <2>2. CASE phase # "run"
    BY <2>2 DEF ProgramInv, PhaseInv, Fresh, UnknownJustified
  <2> QED BY <2>1, <2>2
<1> QED BY <1>1, ProgramKeepsInvariant, PTL

(***************************************************************************)
(* While terminate() waits, every child that still runs is being stopped,  *)
(* whatever it is doing, unless a signal arrived while main was forking.   *)
(***************************************************************************)
THEOREM ProgramDrainStops == ProgramSpec => []DrainStops
<1>1. ProgramInv => DrainStops
  BY DEF ProgramInv, PhaseInv, Fresh, DeafInv, DrainStops
<1> QED BY <1>1, ProgramKeepsInvariant, PTL

-----------------------------------------------------------------------------
(***************************************************************************)
(* The children that are asked for.                                        *)
(***************************************************************************)
LEMMA AskedPlan ==
  ASSUME ProgramInv
  PROVE  Range(Plan(opts)) = Listed(Plan(opts)) /\ Range(Plan(opts)) \subseteq Kids
<1>1. opts.check \in {"real", "unreal", "both"} /\ opts.unreal_x \in {"formula", "automaton", "both"}
  BY DEF ProgramInv, ChoiceInv
<1>2. Plan(opts) \in Plans
  BY <1>1, PlanOfOptions
<1>3. Range(Plan(opts)) = Listed(Plan(opts))
  BY <1>2 DEF Plans, Range, Listed
<1> QED BY <1>2, <1>3, PlanListed

(***************************************************************************)
(* The winner wrote all its files, if no other child may have written.     *)
(***************************************************************************)
LEMMA WinnerWrote ==
  ASSUME ProgramInv, NEW k \in Kids, won[k], Alone(k), child[k].game
  PROVE  /\ WrittenBy(opts.winreg, {k})
         /\ k = "real" => WrittenBy(opts.synth, {k})
<1>1. child[k].at = "output" /\ child[k].outputs = <<>>
  BY DEF ProgramInv, ChildInv
<1>2. Range(child[k].outputs) = {}
  BY <1>1 DEF Range
<1>3. \A f \in Range(Outputs(k)) : files[f].by = k /\ files[f].complete
  <2>1. \A f \in Range(Outputs(k)) \ Range(child[k].outputs) : files[f] = Complete(k)
    BY <1>1 DEF ProgramInv, FilesInv
  <2>2. \A f \in Range(Outputs(k)) : files[f] = Complete(k)
    BY <1>2, <2>1
  <2> QED BY <2>2 DEF Complete
<1>4. /\ opts.winreg # "" => opts.winreg \in Range(Outputs(k))
      /\ k = "real" /\ opts.synth # "" => opts.synth \in Range(Outputs(k))
  BY OutputNames
<1> QED BY <1>3, <1>4 DEF WrittenBy

(***************************************************************************)
(* A printed verdict finds the files it promises complete, and from a      *)
(* child that decided so, however the others were stopped; unless children *)
(* of both sides have decided.                                             *)
(***************************************************************************)
THEOREM ProgramOutputComplete == ProgramSpec => []OutputComplete
<1>1. ASSUME ProgramInv, Undisputed, printed = "REALIZABLE"
      PROVE  WrittenBy(opts.winreg, {"real"}) /\ WrittenBy(opts.synth, {"real"})
  <2>1. CoreInv
    BY <1>1 DEF ProgramInv, PhaseInv, Fresh
  <2>2. PICK k \in Kids : code[k] = 0
    BY <1>1, <2>1 DEF CoreInv, OutputInv, ReasonInv
  <2>3. k = "real" /\ won[k]
    BY <2>1, <2>2 DEF CoreInv, StatusInv
  <2>4. child[k].at # "read" /\ child[k].game
    BY <1>1, <2>3 DEF ProgramInv, ChildInv, Decides
  <2>5. Alone(k)
    BY <1>1, <2>3, <2>4 DEF Alone, Undisputed
  <2> QED BY <1>1, <2>3, <2>4, <2>5, WinnerWrote
<1>2. ASSUME ProgramInv, Undisputed, printed = "UNREALIZABLE",
             Cardinality(Range(Plan(opts)) \ {"real"}) = 1,
             NEW k \in Kids, won[k], child[k].game
      PROVE  WrittenBy(opts.winreg, {k})
  <2>1. child[k].at # "read"
    BY <1>2 DEF ProgramInv, ChildInv
  <2>2. \A l \in Kids : child[l].at # "read" => l \in Range(Plan(opts))
    <3>1. Range(Plan(opts)) = Listed(Plan(opts))
      BY <1>2, AskedPlan
    <3> QED BY <1>2, <3>1 DEF ProgramInv, ChildInv, Decides, AskedInv
  <2>3. PICK x : Range(Plan(opts)) \ {"real"} = {x}
    <3>1. IsFiniteSet(Range(Plan(opts)) \ {"real"})
      <4>1. IsFiniteSet({"unreal-x=f"}) /\ IsFiniteSet({"unreal-x=f"} \cup {"unreal-x=a"})
        BY FS_Singleton, FS_AddElement
      <4>2. Range(Plan(opts)) \ {"real"} \subseteq {"unreal-x=f"} \cup {"unreal-x=a"}
        BY <1>2, AskedPlan DEF Kids
      <4> QED BY <4>1, <4>2, FS_Subset
    <3> QED BY <1>2, <3>1, FS_Singleton
  <2>4. \A l \in Kids \ {k} : child[l].at = "read"
    <3>1. CASE k = "real"
      BY <1>2, <2>1, <3>1 DEF Undisputed
    <3>2. CASE k # "real"
      <4>1. k = x /\ child["real"].at = "read"
        BY <1>2, <2>1, <2>2, <2>3, <3>2 DEF Undisputed
      <4> QED BY <2>2, <2>3, <4>1
    <3> QED BY <3>1, <3>2
  <2> QED BY <1>2, <2>4, WinnerWrote DEF Alone
<1>3. ProgramInv => OutputComplete
  BY <1>1, <1>2 DEF OutputComplete
<1> QED BY <1>3, ProgramKeepsInvariant, PTL
-----------------------------------------------------------------------------
(***************************************************************************)
(* Induction over the natural numbers, for a set.                          *)
(***************************************************************************)
LEMMA NaturalInduction ==
  ASSUME NEW T, 0 \in T, \A n \in Nat : n \in T => n + 1 \in T
  PROVE  Nat \subseteq T
<1> DEFINE R == OpToRel(<, Nat)
<1>1. SUFFICES ASSUME Nat \ T # {} PROVE FALSE
  OBVIOUS
<1>2. IsWellFoundedOn(R, Nat)
  BY NatLessThanWellFounded
<1>3. PICK x \in Nat \ T : \A y \in Nat \ T : ~ (<<y, x>> \in R)
  <2> HIDE DEF R
  <2> QED BY <1>1, <1>2, WFMin
<1>4. x # 0 /\ x - 1 \in Nat /\ (x - 1) + 1 = x
  OBVIOUS
<1>5. x - 1 \notin T
  BY <1>4
<1>6. <<x - 1, x>> \in R
  BY <1>4 DEF OpToRel
<1> QED BY <1>3, <1>4, <1>5, <1>6

(***************************************************************************)
(* FlattenSeq (which process_stream's loop over the lines is modelled by)  *)
(* joins the last of the sequences to those before it.                     *)
(***************************************************************************)
Prefix(f, n) == [m \in 1 .. n |-> f[m]]

Flattens(g, f, n) == g = [m \in 1 .. n |-> IF m = 1 THEN f[m] ELSE g[m - 1] \o f[m]]

(***************************************************************************)
(* What is flattened so far, part by part, is a sequence of sequences.     *)
(***************************************************************************)
LEMMA FlattenExists ==
  ASSUME NEW S, NEW f, NEW n \in Nat, \A m \in 1 .. n : f[m] \in Seq(S)
  PROVE  \E g \in [1 .. n -> Seq(S)] : Flattens(g, f, n)
<1> DEFINE T == {m \in Nat : m =< n => \E g \in [1 .. m -> Seq(S)] : Flattens(g, f, m)}
<1>1. 0 \in T
  <2> DEFINE g == [m \in 1 .. 0 |-> <<>>]
  <2>1. g \in [1 .. 0 -> Seq(S)] /\ Flattens(g, f, 0)
    BY DEF Flattens
  <2> QED BY <2>1
<1>2. ASSUME NEW m \in Nat, m \in T PROVE m + 1 \in T
  <2> SUFFICES ASSUME m + 1 =< n PROVE \E h \in [1 .. m + 1 -> Seq(S)] : Flattens(h, f, m + 1)
    OBVIOUS
  <2>1. PICK g \in [1 .. m -> Seq(S)] : Flattens(g, f, m)
    BY <1>2
  <2> DEFINE last == IF m = 0 THEN f[1] ELSE g[m] \o f[m + 1]
             h == [i \in 1 .. m + 1 |-> IF i = m + 1 THEN last ELSE g[i]]
  <2>2. last \in Seq(S)
    <3>1. f[m + 1] \in Seq(S)
      BY m + 1 \in 1 .. n
    <3>2. CASE m = 0
      BY <3>1, <3>2
    <3>3. CASE m # 0
      BY <3>1, <3>3, m \in 1 .. m
    <3> QED BY <3>2, <3>3
  <2>3. h \in [1 .. m + 1 -> Seq(S)]
    <3> HIDE DEF last
    <3> QED BY <2>2
  <2>4. ASSUME NEW i \in 1 .. m + 1 PROVE h[i] = IF i = 1 THEN f[i] ELSE h[i - 1] \o f[i]
    <3>1. CASE i = m + 1 /\ m = 0
      BY <3>1
    <3>2. CASE i = m + 1 /\ m # 0
      <4> HIDE DEF last
      <4>1. i # 1 /\ i - 1 = m /\ m \in 1 .. m + 1 /\ m # m + 1
        BY <3>2
      <4>2. h[i] = last /\ h[m] = g[m]
        BY <3>2, <4>1
      <4>3. last = g[m] \o f[i]
        BY <3>2 DEF last
      <4> HIDE DEF h
      <4> QED BY <4>1, <4>2, <4>3
    <3>3. CASE i # m + 1
      <4>1. i \in 1 .. m /\ h[i] = g[i] /\ (i # 1 => i - 1 \in 1 .. m /\ h[i - 1] = g[i - 1])
        BY <3>3
      <4>2. g[i] = IF i = 1 THEN f[i] ELSE g[i - 1] \o f[i]
        BY <2>1, <4>1 DEF Flattens
      <4> HIDE DEF h
      <4> QED BY <4>1, <4>2
    <3> QED BY <3>1, <3>2, <3>3
  <2>5. Flattens(h, f, m + 1)
    <3>1. h = [i \in 1 .. m + 1 |-> h[i]]
      OBVIOUS
    <3> HIDE DEF h
    <3> QED BY <2>4, <3>1 DEF Flattens
  <2> HIDE DEF h
  <2> QED BY <2>3, <2>5
<1>3. Nat \subseteq T
  <2> HIDE DEF T
  <2> QED BY <1>1, <1>2, NaturalInduction
<1> QED BY <1>3

(***************************************************************************)
(* The first parts determine what is flattened of them, however many       *)
(* follow.                                                                 *)
(***************************************************************************)
LEMMA FlattenUnique ==
  ASSUME NEW f, NEW n \in Nat, NEW g, NEW h, Flattens(g, f, n), NEW m \in Nat, m >= n, Flattens(h, f, m)
  PROVE  \A i \in 1 .. n : g[i] = h[i]
<1> DEFINE T == {i \in Nat : i \in 1 .. n => g[i] = h[i]}
<1>1. 0 \in T
  OBVIOUS
<1>2. ASSUME NEW i \in Nat, i \in T PROVE i + 1 \in T
  <2> SUFFICES ASSUME i + 1 \in 1 .. n PROVE g[i + 1] = h[i + 1]
    OBVIOUS
  <2>1. i + 1 \in 1 .. m
    OBVIOUS
  <2>2. /\ g[i + 1] = IF i + 1 = 1 THEN f[i + 1] ELSE g[(i + 1) - 1] \o f[i + 1]
        /\ h[i + 1] = IF i + 1 = 1 THEN f[i + 1] ELSE h[(i + 1) - 1] \o f[i + 1]
    BY <2>1 DEF Flattens
  <2>3. (i + 1) - 1 = i
    OBVIOUS
  <2>4. CASE i = 0
    BY <2>2, <2>4
  <2>5. CASE i # 0
    <3>1. i \in 1 .. n /\ i + 1 # 1
      BY <2>5
    <3>2. g[i] = h[i]
      BY <1>2, <3>1
    <3> QED BY <2>2, <2>3, <3>1, <3>2
  <2> QED BY <2>4, <2>5
<1>3. Nat \subseteq T
  <2> HIDE DEF T
  <2> QED BY <1>1, <1>2, NaturalInduction
<1> QED BY <1>3

(***************************************************************************)
(* FlattenSeq is the last of what is flattened part by part.               *)
(***************************************************************************)
LEMMA FlattenIs ==
  ASSUME NEW S, NEW f, NEW n \in Nat \ {0}, \A m \in 1 .. n : f[m] \in Seq(S),
         NEW g, Flattens(g, f, n)
  PROVE  FlattenSeq(Prefix(f, n)) = g[n]
<1> DEFINE p == Prefix(f, n)
           Is(h) == h = [i \in 1 .. Len(p) |-> IF i = 1 THEN p[i] ELSE h[i - 1] \o p[i]]
<1>1. Len(p) = n /\ p \in Seq(Seq(S)) /\ \A i \in 1 .. n : p[i] = f[i]
  <2>1. p = [m \in 1 .. n |-> f[m]]
    BY DEF Prefix
  <2>2. p \in [1 .. n -> Seq(S)]
    BY <2>1
  <2> HIDE DEF p
  <2> QED BY <2>1, <2>2
<1>2. \A h : Is(h) <=> Flattens(h, f, n)
  <2> SUFFICES ASSUME NEW h
               PROVE  [i \in 1 .. Len(p) |-> IF i = 1 THEN p[i] ELSE h[i - 1] \o p[i]]
                        = [m \in 1 .. n |-> IF m = 1 THEN f[m] ELSE h[m - 1] \o f[m]]
    BY DEF Flattens
  <2> HIDE DEF p
  <2> QED BY <1>1
<1>3. FlattenSeq(p) = (CHOOSE h : Is(h))[n]
  <2>1. FlattenSeq(p) = (CHOOSE h : Is(h))[Len(p)]
    <3>1. Len(p) # 0
      BY <1>1
    <3> HIDE DEF p
    <3> QED BY <3>1 DEF FlattenSeq
  <2> QED BY <1>1, <2>1
<1> HIDE DEF p, Is
<1>4. Flattens(CHOOSE h : Is(h), f, n)
  BY <1>2
<1>5. n \in 1 .. n /\ n >= n /\ n \in Nat
  OBVIOUS
<1>6. \A i \in 1 .. n : g[i] = (CHOOSE h : Is(h))[i]
  BY <1>4, <1>5, FlattenUnique
<1> QED BY <1>3, <1>5, <1>6 DEF p

(***************************************************************************)
(* One more part comes after what the parts before it are flattened to. *)
(***************************************************************************)
LEMMA FlattenSnoc ==
  ASSUME NEW S, NEW f, NEW n \in Nat, \A m \in 1 .. n + 1 : f[m] \in Seq(S)
  PROVE  /\ FlattenSeq(Prefix(f, n)) \in Seq(S)
         /\ FlattenSeq(Prefix(f, n + 1)) = FlattenSeq(Prefix(f, n)) \o f[n + 1]
<1>1. PICK g \in [1 .. n + 1 -> Seq(S)] : Flattens(g, f, n + 1)
  BY FlattenExists
<1>2. FlattenSeq(Prefix(f, n + 1)) = g[n + 1] /\ n + 1 \in 1 .. n + 1
  BY <1>1, FlattenIs
<1>3. g[n + 1] = IF n + 1 = 1 THEN f[n + 1] ELSE g[(n + 1) - 1] \o f[n + 1]
  BY <1>1, <1>2 DEF Flattens
<1>4. CASE n = 0
  <2>1. Prefix(f, n) = <<>>
    BY <1>4 DEF Prefix
  <2>2. FlattenSeq(<<>>) = <<>>
    BY DEF FlattenSeq
  <2>3. f[1] \in Seq(S) /\ <<>> \in Seq(S) /\ n + 1 = 1
    BY <1>4
  <2>4. <<>> \o f[1] = f[1]
    BY <2>3
  <2>5. FlattenSeq(Prefix(f, n + 1)) = f[n + 1]
    BY <1>2, <1>3, <2>3
  <2>6. FlattenSeq(Prefix(f, n)) = <<>>
    BY <2>1, <2>2
  <2> QED BY <2>3, <2>4, <2>5, <2>6
<1>5. CASE n # 0
  <2>0. \A m \in 1 .. n : f[m] \in Seq(S)
    OBVIOUS
  <2>1. PICK h \in [1 .. n -> Seq(S)] : Flattens(h, f, n)
    BY <2>0, FlattenExists
  <2>2. n \in 1 .. n /\ n \in Nat \ {0} /\ (n + 1) - 1 = n /\ n + 1 # 1 /\ n + 1 >= n /\ n + 1 \in Nat
    BY <1>5
  <2>3. FlattenSeq(Prefix(f, n)) = h[n] /\ h[n] \in Seq(S)
    BY <2>0, <2>1, <2>2, FlattenIs
  <2>4. \A i \in 1 .. n : h[i] = g[i]
    <3>1. PICK m \in Nat : m = n + 1 /\ m >= n
      BY <2>2
    <3>2. Flattens(g, f, m)
      BY <1>1, <3>1
    <3>3. m >= n
      BY <3>1
    <3> QED BY <2>1, <3>2, <3>3, FlattenUnique
  <2> QED BY <1>2, <1>3, <2>2, <2>3, <2>4
<1> QED BY <1>4, <1>5

(***************************************************************************)
(* It holds what the sequences hold.                                       *)
(***************************************************************************)
LEMMA RangeOfConcat ==
  ASSUME NEW S, NEW a \in Seq(S), NEW b \in Seq(S)
  PROVE  a \o b \in Seq(S) /\ Range(a \o b) = Range(a) \cup Range(b)
<1>1. /\ a \o b \in Seq(S) /\ Range(a) \subseteq Range(a \o b) /\ Range(b) \subseteq Range(a \o b)
  BY ConcatHolds
<1>2. ASSUME NEW n \in DOMAIN (a \o b) PROVE (a \o b)[n] \in Range(a) \cup Range(b)
  <2>1. n \in 1 .. Len(a) + Len(b) /\ Len(a) \in Nat /\ Len(b) \in Nat
    OBVIOUS
  <2>2. CASE n =< Len(a)
    <3>1. n \in DOMAIN a /\ (a \o b)[n] = a[n]
      BY <2>1, <2>2
    <3> QED BY <3>1 DEF Range
  <2>3. CASE n > Len(a)
    <3>1. n - Len(a) \in DOMAIN b /\ (a \o b)[n] = b[n - Len(a)]
      BY <2>1, <2>3
    <3> QED BY <3>1 DEF Range
  <2> QED BY <2>1, <2>2, <2>3
<1> QED BY <1>1, <1>2 DEF Range

(***************************************************************************)
(* What the parts hold, the flattened sequence holds, and nothing else.    *)
(***************************************************************************)
LEMMA FlattenHolds ==
  ASSUME NEW S, NEW f, NEW n \in Nat, f = Prefix(f, n), \A m \in 1 .. n : f[m] \in Seq(S)
  PROVE  /\ FlattenSeq(f) \in Seq(S)
         /\ Range(FlattenSeq(f)) = UNION {Range(f[m]) : m \in 1 .. n}
<1> DEFINE Good(p) == /\ FlattenSeq(Prefix(f, p)) \in Seq(S)
                      /\ Range(FlattenSeq(Prefix(f, p))) = UNION {Range(f[m]) : m \in 1 .. p}
           T == {p \in Nat : p =< n => Good(p)}
<1>1. 0 \in T
  <2>1. FlattenSeq(Prefix(f, 0)) = <<>>
    <3>1. Prefix(f, 0) = <<>>
      BY DEF Prefix
    <3> QED BY <3>1 DEF FlattenSeq
  <2>2. <<>> \in Seq(S) /\ Range(<<>>) = {} /\ 1 .. 0 = {}
    BY OneOrNone
  <2>3. (UNION {Range(f[m]) : m \in 1 .. 0}) = {}
    BY <2>2
  <2>4. Good(0)
    BY <2>1, <2>2, <2>3
  <2> QED BY <2>4
<1>2. ASSUME NEW p \in Nat, p \in T PROVE p + 1 \in T
  <2> SUFFICES ASSUME p + 1 =< n PROVE Good(p + 1)
    OBVIOUS
  <2> DEFINE a == FlattenSeq(Prefix(f, p))
  <2>1. a \in Seq(S) /\ Range(a) = UNION {Range(f[m]) : m \in 1 .. p}
    BY <1>2
  <2>2. f[p + 1] \in Seq(S) /\ \A m \in 1 .. p + 1 : f[m] \in Seq(S)
    BY p + 1 \in 1 .. n
  <2>3. FlattenSeq(Prefix(f, p + 1)) = a \o f[p + 1]
    BY <2>2, FlattenSnoc
  <2> HIDE DEF a
  <2>4. a \o f[p + 1] \in Seq(S) /\ Range(a \o f[p + 1]) = Range(a) \cup Range(f[p + 1])
    BY <2>1, <2>2, RangeOfConcat
  <2>5. 1 .. p + 1 = (1 .. p) \cup {p + 1}
    OBVIOUS
  <2>6. (UNION {Range(f[m]) : m \in 1 .. p + 1}) = (UNION {Range(f[m]) : m \in 1 .. p}) \cup Range(f[p + 1])
    BY <2>5
  <2> QED BY <2>1, <2>3, <2>4, <2>6
<1>3. Nat \subseteq T
  <2> HIDE DEF T
  <2> QED BY <1>1, <1>2, NaturalInduction
<1>4. Good(n)
  BY <1>3
<1> QED BY <1>4

-----------------------------------------------------------------------------
(***************************************************************************)
(* What the children have read.  While options are parsed, the jobs are    *)
(* those of the options that are parsed already.                           *)
(***************************************************************************)
Given(p) == FlattenSeq([n \in 1 .. p |-> JobsOf(world.args[n])])

GivenInv ==
  phase = "parse" =>
    \E p \in 0 .. Len(world.args) :
      /\ args = [n \in 1 .. Len(world.args) - p |-> world.args[p + n]]
      /\ opts.jobs = Given(p)

(* The jobs of a command line, and those of which a part is done. *)
WorldJobs ==
  {StdinJob} \cup {Job(world.args[n]) : n \in {n \in DOMAIN world.args : world.args[n].key \in {"f", "F"}}}

PartJobs == WorldJobs \cup {[j EXCEPT !.col = 0] : j \in WorldJobs}

(* What is left of the standard input, and what was taken from it. *)
StdinInv ==
  /\ Len(stdin) \in 0 .. Len(world.stdin)
  /\ stdin = [n \in 1 .. Len(stdin) |-> world.stdin[Len(world.stdin) - Len(stdin) + n]]

Taken == Len(world.stdin) - Len(stdin)

(***************************************************************************)
(* A child has done the first of the jobs that were asked for.  The one at *)
(* the head of those that are left is as it was asked for, unless it is    *)
(* the standard input, of which a part has been read: then the column has  *)
(* moved from the job to the child.                                        *)
(***************************************************************************)
DoneJobs(k) == Len(JobsAsked) - Len(child[k].jobs)

NextJob(k) == JobsAsked[DoneJobs(k) + 1]

Started(k) ==
  /\ child[k].jobs # <<>> /\ FromStdin(NextJob(k))
  /\ child[k].jobs[1] = [NextJob(k) EXCEPT !.col = 0]
  /\ child[k].col = AbsVal(NextJob(k).col)

JobsLeft(k) ==
  /\ child[k].jobs \in Seq(PartJobs) /\ Len(child[k].jobs) =< Len(JobsAsked)
  /\ \A m \in 2 .. Len(child[k].jobs) : child[k].jobs[m] = JobsAsked[DoneJobs(k) + m]
  /\ child[k].jobs # <<>> => child[k].jobs[1] = NextJob(k) \/ Started(k)

(* A column that is in force was asked for. *)
ColumnKept(k) ==
  child[k].col # 0 => Started(k) \/ \E m \in 1 .. DoneJobs(k) : JobsAsked[m].col # 0

(* The rows of a text that are read, and what is read of each. *)
RowsOf(col, lines) == IF col < 0 /\ lines # <<>> THEN Tail(lines) ELSE lines

TextsIn(col, lines) == UNION {Range(Cells(AbsVal(col), l)) : l \in Range(RowsOf(col, lines))}

(* The first reads of the standard input together, and what they hold of what is asked. *)
Reads(t) == FlattenSeq([n \in 1 .. t |-> world.stdin[n]])

AskedSoFar == UNION {TextsIn(j.col, Reads(Taken)) : j \in {j \in Range(JobsAsked) : FromStdin(j)}}

AskedOf(k) ==
  UNION {TextsAsked(JobsAsked[m]) : m \in {m \in 1 .. DoneJobs(k) : ~FromStdin(JobsAsked[m])}}

StdinAsked == \E j \in Range(JobsAsked) : FromStdin(j)

(* Several children, of which one takes the one part of the standard input. *)
Shared == Len(Plan(opts)) > 1 /\ StdinAsked /\ Len(world.stdin) > 0

(***************************************************************************)
(* A child that reads holds what it was asked up to where it is: when the  *)
(* standard input is shared, all of it or nothing.                         *)
(***************************************************************************)
Holds(k) ==
  /\ Started(k) /\ child[k].jobs[1] # NextJob(k) => Taken > 0
  /\ Shared => Range(child[k].formulas) \in {{}, Asked \cap Formulas}
               /\ (child[k].formulas # <<>> => Taken > 0)
  /\ ~Shared =>
       /\ Range(child[k].formulas) = (AskedOf(k) \cup AskedSoFar) \cap Formulas
       /\ \A m \in 1 .. DoneJobs(k) : FromStdin(JobsAsked[m]) => Taken = Len(world.stdin)
       /\ Taken > 0 => Started(k) \/ \E m \in 1 .. DoneJobs(k) : FromStdin(JobsAsked[m])

Reading(k) == kid[k] \in {"none", "running"} /\ child[k].at = "read"

(* Before the children are forked nothing is read. *)
KeptInv ==
  /\ \A k \in Kids : child[k].col \in Nat /\ child[k].formulas \in Seq(Formulas)
  /\ phase # "run" => Taken = 0 /\ \A k \in Kids : child[k].col = 0 /\ child[k].formulas = <<>>

WorkInv ==
  phase = "run" =>
    /\ opts.jobs = JobsAsked
    /\ ~StdinAsked => Taken = 0
    /\ \A k \in Kids : JobsLeft(k) /\ ColumnKept(k)

(* A child that has decided holds all of it. *)
HeldInv ==
  phase = "run" /\ ~Misread =>
    \A k \in Listed(Plan(opts)) :
      /\ Reading(k) => Holds(k)
      /\ child[k].at # "read" => Range(child[k].formulas) = Asked

InputInv == GivenInv /\ StdinInv /\ KeptInv /\ WorkInv /\ HeldInv

-----------------------------------------------------------------------------
(***************************************************************************)
(* What is read of a row: a column that is counted from the end of the     *)
(* first row on is the same one.                                           *)
(***************************************************************************)
LEMMA AbsIs ==
  ASSUME NEW col \in Int
  PROVE  /\ AbsVal(col) \in Nat /\ AbsVal(AbsVal(col)) = AbsVal(col)
         /\ AbsVal(col) = 0 <=> col = 0
BY DEF AbsVal

Texts == STRING \cup {"broken"}

CellOf(col, l) ==
  IF col = 0 THEN {IF Len(l) = 1 THEN l[1] ELSE "broken"}
  ELSE IF Len(l) >= AbsVal(col) THEN {l[AbsVal(col)]} ELSE {}

(***************************************************************************)
(* process_stream takes one text of a line: the line, if it is a single    *)
(* cell or no column is asked for, or its cell in the column.              *)
(***************************************************************************)
LEMMA CellsAre ==
  ASSUME NEW col \in Int, NEW l \in Seq(STRING)
  PROVE  Cells(AbsVal(col), l) \in Seq(Texts) /\ Range(Cells(AbsVal(col), l)) = CellOf(col, l)
<1>1. AbsVal(col) \in Nat /\ (AbsVal(col) = 0 <=> col = 0) /\ Len(l) \in Nat
  BY AbsIs
<1>2. CASE col = 0 /\ Len(l) = 1
  <2>1. l[1] \in Texts /\ l = <<l[1]>>
    BY <1>2 DEF Texts
  <2>2. Cells(AbsVal(col), l) = <<l[1]>>
    BY <1>1, <1>2, <2>1 DEF Cells
  <2> QED BY <1>2, <2>1, <2>2, OneOrNone DEF CellOf
<1>3. CASE col = 0 /\ Len(l) # 1
  <2>1. Cells(AbsVal(col), l) = <<"broken">>
    BY <1>1, <1>3 DEF Cells
  <2>2. "broken" \in Texts
    BY DEF Texts
  <2> QED BY <1>3, <2>1, <2>2, OneOrNone DEF CellOf
<1>4. CASE col # 0 /\ Len(l) >= AbsVal(col)
  <2>1. l[AbsVal(col)] \in Texts /\ ~(Len(l) < AbsVal(col))
    BY <1>1, <1>4 DEF Texts
  <2>2. Cells(AbsVal(col), l) = <<l[AbsVal(col)]>>
    BY <1>1, <1>4, <2>1 DEF Cells
  <2> HIDE DEF Cells
  <2> QED BY <1>4, <2>1, <2>2, OneOrNone DEF CellOf
<1>5. CASE col # 0 /\ ~(Len(l) >= AbsVal(col))
  <2>1. Cells(AbsVal(col), l) = <<>>
    BY <1>1, <1>5 DEF Cells
  <2> QED BY <1>5, <2>1, OneOrNone DEF CellOf
<1> QED BY <1>2, <1>3, <1>4, <1>5

(***************************************************************************)
(* process_string takes the texts that are formulas.                       *)
(***************************************************************************)
LEMMA ParsedIs ==
  ASSUME NEW S, NEW texts \in Seq(S)
  PROVE  Parsed(texts) \in Seq(Formulas) /\ Range(Parsed(texts)) = Range(texts) \cap Formulas
<1> DEFINE n == Len(texts)
           f == [m \in 1 .. n |-> IF texts[m] \in Formulas THEN <<texts[m]>> ELSE <<>>]
<1>1. n \in Nat /\ DOMAIN texts = 1 .. n
  OBVIOUS
<1>2. Parsed(texts) = FlattenSeq(f)
  BY <1>1 DEF Parsed
<1>3. \A m \in 1 .. n : f[m] \in Seq(Formulas) /\ Range(f[m]) = {texts[m]} \cap Formulas
  <2> SUFFICES ASSUME NEW m \in 1 .. n
               PROVE  f[m] \in Seq(Formulas) /\ Range(f[m]) = {texts[m]} \cap Formulas
    OBVIOUS
  <2>1. f[m] = IF texts[m] \in Formulas THEN <<texts[m]>> ELSE <<>>
    OBVIOUS
  <2> HIDE DEF f
  <2>2. CASE texts[m] \in Formulas
    <3>1. {texts[m]} \cap Formulas = {texts[m]}
      BY <2>2
    <3> QED BY <2>1, <2>2, <3>1, OneOrNone
  <2>3. CASE texts[m] \notin Formulas
    <3>1. {texts[m]} \cap Formulas = {}
      BY <2>3
    <3> QED BY <2>1, <2>3, <3>1, OneOrNone
  <2> QED BY <2>2, <2>3
<1>4. f = Prefix(f, n)
  BY DEF Prefix
<1> HIDE DEF f, n
<1>5. FlattenSeq(f) \in Seq(Formulas) /\ Range(FlattenSeq(f)) = UNION {Range(f[m]) : m \in 1 .. n}
  BY <1>1, <1>3, <1>4, FlattenHolds
<1>6. (UNION {Range(f[m]) : m \in 1 .. n}) = Range(texts) \cap Formulas
  BY <1>1, <1>3 DEF Range
<1> QED BY <1>2, <1>5, <1>6

(***************************************************************************)
(* process_stream takes those of its rows.                                 *)
(***************************************************************************)
LEMMA RowsAre ==
  ASSUME NEW S, NEW lines \in Seq(S), NEW col \in Int
  PROVE  RowsOf(col, lines) \in Seq(S)
BY DEF RowsOf

(***************************************************************************)
(* What process_stream adds is the formulas among the texts of the rows.   *)
(***************************************************************************)
LEMMA FormulasOfIs ==
  ASSUME NEW lines \in Seq(Seq(STRING)), NEW col \in Int
  PROVE  /\ FormulasOf(col, lines) \in Seq(Formulas)
         /\ Range(FormulasOf(col, lines)) = TextsIn(col, lines) \cap Formulas
<1> DEFINE rows == RowsOf(col, lines)
           n == Len(rows)
           f == [m \in 1 .. n |-> Cells(AbsVal(col), rows[m])]
<1>1. rows \in Seq(Seq(STRING))
  BY RowsAre
<1>2. FormulasOf(col, lines) = Parsed(FlattenSeq([m \in DOMAIN rows |-> Cells(AbsVal(col), rows[m])]))
  BY DEF FormulasOf, RowsOf
<1> HIDE DEF rows
<1>3. n \in Nat /\ DOMAIN rows = 1 .. n /\ \A m \in 1 .. n : rows[m] \in Seq(STRING)
  BY <1>1
<1>4. FormulasOf(col, lines) = Parsed(FlattenSeq(f))
  BY <1>2, <1>3
<1>5. \A m \in 1 .. n : f[m] = Cells(AbsVal(col), rows[m]) /\ f[m] \in Seq(Texts)
  BY <1>3, CellsAre
<1>6. f = Prefix(f, n)
  BY DEF Prefix
<1> HIDE DEF f, n
<1>7. FlattenSeq(f) \in Seq(Texts) /\ Range(FlattenSeq(f)) = UNION {Range(f[m]) : m \in 1 .. n}
  BY <1>3, <1>5, <1>6, FlattenHolds
<1>8. (UNION {Range(f[m]) : m \in 1 .. n}) = TextsIn(col, lines)
  <2>1. Range(rows) = {rows[m] : m \in 1 .. n}
    BY <1>3 DEF Range
  <2>2. TextsIn(col, lines) = UNION {Range(Cells(AbsVal(col), l)) : l \in Range(rows)}
    BY DEF TextsIn, rows
  <2> QED BY <1>5, <2>1, <2>2
<1> QED BY <1>4, <1>7, <1>8, ParsedIs

(***************************************************************************)
(* The texts that a file is asked for are those of its rows.               *)
(***************************************************************************)
LEMMA TextsInAre ==
  ASSUME NEW lines \in Seq(Seq(STRING)), NEW col \in Int
  PROVE  TextsIn(col, lines) = UNION {CellOf(col, l) : l \in Range(RowsOf(col, lines))}
<1>1. RowsOf(col, lines) \in Seq(Seq(STRING))
  BY RowsAre
<1>2. \A l \in Range(RowsOf(col, lines)) : l \in Seq(STRING)
  BY <1>1, HeadAndTail
<1>3. \A l \in Range(RowsOf(col, lines)) : Range(Cells(AbsVal(col), l)) = CellOf(col, l)
  BY <1>2, CellsAre
<1> QED BY <1>3 DEF TextsIn

(***************************************************************************)
(* A file is asked for the texts of its rows, the first left out for a     *)
(* negative column.                                                        *)
(***************************************************************************)
LEMMA TextsAskedAre ==
  ASSUME NEW j, j.file, j.col \in Int, LinesOf(j) \in Seq(Seq(STRING))
  PROVE  TextsAsked(j) = TextsIn(j.col, LinesOf(j))
<1> DEFINE lines == LinesOf(j)
           rows == RowsOf(j.col, lines)
<1>1. TextsIn(j.col, lines) = UNION {CellOf(j.col, l) : l \in Range(rows)}
  BY TextsInAre
<1>2. lines \in Seq(Seq(STRING)) /\ Len(lines) \in Nat /\ DOMAIN lines = 1 .. Len(lines)
  OBVIOUS
<1>3. CASE j.col = 0
  <2>1. rows = lines
    BY <1>3 DEF RowsOf
  <2>2. TextsAsked(j) = {IF Len(l) = 1 THEN l[1] ELSE "broken" : l \in Range(lines)}
    BY <1>3 DEF TextsAsked
  <2> QED BY <1>1, <1>3, <2>1, <2>2 DEF CellOf
<1>4. CASE j.col # 0
  <2> DEFINE from == IF j.col < 0 THEN 2 ELSE 1
             a == AbsVal(j.col)
  <2>1. TextsAsked(j) = {lines[n][a] : n \in {n \in from .. Len(lines) : Len(lines[n]) >= a}}
    BY <1>4 DEF TextsAsked
  <2>2. Range(rows) = {lines[n] : n \in from .. Len(lines)}
    <3>1. CASE j.col < 0 /\ lines # <<>>
      <4>1. rows = Tail(lines) /\ from = 2
        BY <3>1 DEF RowsOf
      <4>2. DOMAIN rows = 1 .. Len(lines) - 1 /\ \A n \in 1 .. Len(lines) - 1 : rows[n] = lines[n + 1]
        BY <1>2, <3>1, <4>1
      <4> HIDE DEF rows
      <4>3. ASSUME NEW n \in DOMAIN rows PROVE rows[n] \in {lines[m] : m \in 2 .. Len(lines)}
        <5>1. n + 1 \in 2 .. Len(lines) /\ rows[n] = lines[n + 1]
          BY <1>2, <4>2
        <5> QED BY <5>1
      <4>4. ASSUME NEW n \in 2 .. Len(lines) PROVE lines[n] \in Range(rows)
        <5>1. n - 1 \in 1 .. Len(lines) - 1 /\ (n - 1) + 1 = n
          BY <1>2
        <5> QED BY <4>2, <5>1 DEF Range
      <4> QED BY <4>1, <4>3, <4>4 DEF Range
    <3>2. CASE j.col < 0 /\ lines = <<>>
      <4>1. rows = <<>> /\ from = 2 /\ Len(lines) = 0
        BY <3>2 DEF RowsOf
      <4> QED BY <4>1 DEF Range
    <3>3. CASE ~(j.col < 0)
      <4>1. rows = lines /\ from = 1
        BY <3>3 DEF RowsOf
      <4> HIDE DEF rows
      <4> QED BY <1>2, <4>1 DEF Range
    <3> QED BY <3>1, <3>2, <3>3
  <2>3. \A l : CellOf(j.col, l) = IF Len(l) >= a THEN {l[a]} ELSE {}
    BY <1>4 DEF CellOf
  <2> HIDE DEF rows, lines, from, a
  <2>4. TextsIn(j.col, lines) = UNION {IF Len(l) >= a THEN {l[a]} ELSE {} : l \in Range(rows)}
    BY <1>1, <2>3
  <2>5. (UNION {IF Len(l) >= a THEN {l[a]} ELSE {} : l \in Range(rows)})
          = {lines[n][a] : n \in {n \in from .. Len(lines) : Len(lines[n]) >= a}}
    BY <2>2
  <2> QED BY <2>1, <2>4, <2>5 DEF lines
<1> QED BY <1>3, <1>4

(***************************************************************************)
(* Reading the standard input in parts: the first row is left out of the   *)
(* first part only.                                                        *)
(***************************************************************************)
LEMMA ReadsAre ==
  ASSUME world.stdin \in Seq(Seq(Seq(STRING)) \ {<<>>}), NEW t \in Nat, t < Len(world.stdin)
  PROVE  /\ Reads(t) \in Seq(Seq(STRING)) /\ (t # 0 => Reads(t) # <<>>)
         /\ t = 0 => Reads(t) = <<>>
         /\ world.stdin[t + 1] \in Seq(Seq(STRING)) \ {<<>>}
         /\ Reads(t + 1) = Reads(t) \o world.stdin[t + 1]
<1>1. \A m \in 1 .. t + 1 : world.stdin[m] \in Seq(Seq(STRING)) \ {<<>>}
  OBVIOUS
<1>2. /\ Reads(t) \in Seq(Seq(STRING))
      /\ Reads(t + 1) = Reads(t) \o world.stdin[t + 1]
  BY <1>1, FlattenSnoc DEF Reads, Prefix
<1>3. t = 0 => Reads(t) = <<>>
  BY DEF Reads, FlattenSeq
<1>4. ASSUME t # 0 PROVE Reads(t) # <<>>
  <2>1. t - 1 \in Nat /\ (t - 1) + 1 = t
    BY <1>4
  <2>2. PICK u \in Nat : u + 1 = t
    BY <2>1
  <2>3. /\ Reads(u) \in Seq(Seq(STRING)) /\ Reads(t) = Reads(u) \o world.stdin[t]
    <3>1. \A m \in 1 .. u + 1 : world.stdin[m] \in Seq(Seq(STRING))
      BY <1>1, <2>2
    <3>2. /\ FlattenSeq(Prefix(world.stdin, u)) \in Seq(Seq(STRING))
          /\ FlattenSeq(Prefix(world.stdin, u + 1)) = FlattenSeq(Prefix(world.stdin, u)) \o world.stdin[u + 1]
      BY <3>1, FlattenSnoc
    <3> QED BY <2>2, <3>2 DEF Reads, Prefix
  <2>4. world.stdin[t] \in Seq(Seq(STRING)) \ {<<>>}
    BY <1>1, <1>4
  <2>5. Len(Reads(u) \o world.stdin[t]) = Len(Reads(u)) + Len(world.stdin[t]) /\ Len(Reads(u)) \in Nat
    BY <2>3, <2>4
  <2>6. Len(world.stdin[t]) > 0
    BY <2>4
  <2>7. Len(Reads(t)) # 0
    BY <2>3, <2>5, <2>6
  <2> QED BY <2>7
<1>5. world.stdin[t + 1] \in Seq(Seq(STRING)) \ {<<>>}
  BY <1>1, t + 1 \in 1 .. t + 1
<1> QED BY <1>2, <1>3, <1>4, <1>5

(***************************************************************************)
(* Sequences of the same elements are the same.                            *)
(***************************************************************************)
LEMMA SameElements ==
  ASSUME NEW S, NEW p \in Seq(S), NEW q \in Seq(S), Len(p) = Len(q),
         \A n \in 1 .. Len(p) : p[n] = q[n]
  PROVE  p = q
<1>1. p = [n \in 1 .. Len(p) |-> p[n]] /\ q = [n \in 1 .. Len(q) |-> q[n]]
  OBVIOUS
<1> QED BY <1>1

(***************************************************************************)
(* The tail of a concatenation is that of its first part, if there is one. *)
(***************************************************************************)
LEMMA TailOfConcat ==
  ASSUME NEW S, NEW a \in Seq(S), NEW b \in Seq(S), a # <<>>
  PROVE  Tail(a \o b) = Tail(a) \o b
<1> DEFINE c == a \o b
<1>1. /\ c \in Seq(S) /\ Len(c) = Len(a) + Len(b) /\ Len(a) \in Nat \ {0} /\ Len(b) \in Nat
      /\ \A n \in 1 .. Len(c) : c[n] = IF n =< Len(a) THEN a[n] ELSE b[n - Len(a)]
  OBVIOUS
<1> HIDE DEF c
<1>2. /\ Tail(c) \in Seq(S) /\ Len(Tail(c)) = Len(c) - 1
      /\ \A n \in 1 .. Len(c) - 1 : Tail(c)[n] = c[n + 1]
  <2>1. Len(c) \in Nat /\ Len(c) # 0
    BY <1>1
  <2>2. c # <<>>
    BY <2>1
  <2>3. Tail(c) \in Seq(S) /\ Len(Tail(c)) = Len(c) - 1
    BY <1>1, <2>2
  <2>4. \A n \in 1 .. Len(c) - 1 : Tail(c)[n] = c[n + 1]
    BY <1>1, <2>1, <2>2
  <2> QED BY <2>3, <2>4
<1>3. /\ Tail(a) \in Seq(S) /\ Len(Tail(a)) = Len(a) - 1
      /\ \A n \in 1 .. Len(a) - 1 : Tail(a)[n] = a[n + 1]
  BY <1>1
<1> DEFINE d == Tail(a)
<1> HIDE DEF d
<1>4. /\ d \o b \in Seq(S) /\ Len(d \o b) = Len(a) - 1 + Len(b)
      /\ \A n \in 1 .. Len(d \o b) : (d \o b)[n] = IF n =< Len(d) THEN d[n] ELSE b[n - Len(d)]
  BY <1>1, <1>3 DEF d
<1>5. ASSUME NEW n \in 1 .. Len(c) - 1 PROVE Tail(c)[n] = (d \o b)[n]
  <2>1. Tail(c)[n] = IF n + 1 =< Len(a) THEN a[n + 1] ELSE b[(n + 1) - Len(a)]
    BY <1>1, <1>2
  <2>2. (d \o b)[n] = IF n =< Len(a) - 1 THEN a[n + 1] ELSE b[n - (Len(a) - 1)]
    BY <1>1, <1>3, <1>4 DEF d
  <2>3. (n + 1) - Len(a) = n - (Len(a) - 1)
    BY <1>1
  <2> QED BY <1>1, <2>1, <2>2, <2>3
<1>6. Tail(c) = d \o b
  <2>1. Len(Tail(c)) = Len(d \o b)
    BY <1>1, <1>2, <1>4
  <2>2. \A n \in 1 .. Len(Tail(c)) : Tail(c)[n] = (d \o b)[n]
    BY <1>2, <1>5
  <2> QED BY <1>2, <1>4, <2>1, <2>2, SameElements
<1> QED BY <1>6 DEF c, d

(***************************************************************************)
(* The standard input is read part by part as if it were read at once: the *)
(* first row is left out of the first part alone, since the column is no   *)
(* longer negative for the others.                                         *)
(***************************************************************************)
LEMMA ReadMore ==
  ASSUME world.stdin \in Seq(Seq(Seq(STRING)) \ {<<>>}), NEW t \in Nat, t < Len(world.stdin),
         NEW col \in Int
  PROVE  TextsIn(col, Reads(t + 1)) =
           TextsIn(col, Reads(t)) \cup TextsIn(IF t = 0 THEN col ELSE AbsVal(col), world.stdin[t + 1])
<1> DEFINE a == Reads(t)
           b == world.stdin[t + 1]
<1>1. /\ a \in Seq(Seq(STRING)) /\ b \in Seq(Seq(STRING)) /\ b # <<>> /\ Reads(t + 1) = a \o b
      /\ t # 0 => a # <<>>
      /\ t = 0 => a = <<>>
  BY ReadsAre
<1> HIDE DEF a, b
<1>2. CASE t = 0
  <2>1. a = <<>> /\ a \o b = b
    BY <1>1, <1>2
  <2>2. RowsOf(col, a) = <<>> /\ Range(<<>>) = {}
    BY <2>1, OneOrNone DEF RowsOf
  <2>3. TextsIn(col, a) = {}
    BY <2>2 DEF TextsIn
  <2> QED BY <1>1, <1>2, <2>1, <2>3 DEF a, b
<1>3. CASE t # 0
  <2>1. a # <<>> /\ a \o b # <<>>
    BY <1>1, <1>3
  <2>2. RowsOf(col, a \o b) = RowsOf(col, a) \o b
    <3>1. CASE col < 0
      <4>1. RowsOf(col, a \o b) = Tail(a \o b) /\ RowsOf(col, a) = Tail(a)
        BY <2>1, <3>1 DEF RowsOf
      <4>2. Tail(a \o b) = Tail(a) \o b
        BY <1>1, <2>1, TailOfConcat
      <4> QED BY <4>1, <4>2
    <3>2. CASE ~(col < 0)
      BY <3>2 DEF RowsOf
    <3> QED BY <3>1, <3>2
  <2>3. RowsOf(AbsVal(col), b) = b
    BY AbsIs DEF RowsOf
  <2>4. RowsOf(col, a) \in Seq(Seq(STRING))
    BY <1>1, RowsAre
  <2>5. Range(RowsOf(col, a) \o b) = Range(RowsOf(col, a)) \cup Range(b)
    BY <1>1, <2>4, RangeOfConcat
  <2>6. AbsVal(AbsVal(col)) = AbsVal(col)
    BY AbsIs
  <2>7. TextsIn(col, a \o b) = TextsIn(col, a) \cup TextsIn(AbsVal(col), b)
    BY <2>2, <2>3, <2>5, <2>6 DEF TextsIn
  <2> QED BY <1>1, <1>3, <2>7 DEF a, b
<1> QED BY <1>2, <1>3

-----------------------------------------------------------------------------
(***************************************************************************)
(* The jobs that a command line asks for.                                  *)
(***************************************************************************)
LEMMA WorldIs ==
  ASSUME OptionsInv
  PROVE  /\ Len(world.args) \in Nat /\ DOMAIN world.args = 1 .. Len(world.args)
         /\ world.stdin \in Seq(Seq(Seq(STRING)) \ {<<>>})
         /\ \A f \in DOMAIN world.disk : world.disk[f] \in Seq(Seq(STRING))
<1>1. IsWorld(world)
  BY ProgramAssumption DEF OptionsInv
<1>2. world.args \in Seq(Range(world.args))
  BY <1>1 DEF IsWorld
<1>3. Len(world.args) \in Nat /\ DOMAIN world.args = 1 .. Len(world.args)
  BY <1>2
<1>4. world.stdin \in Seq(Seq(Seq(STRING)) \ {<<>>})
  BY <1>1 DEF IsWorld
<1>5. \A f \in DOMAIN world.disk : world.disk[f] \in Seq(Seq(STRING))
  BY <1>1 DEF IsWorld
<1> QED BY <1>3, <1>4, <1>5

(***************************************************************************)
(* A job of the command line is a file with a column, or a formula.        *)
(***************************************************************************)
LEMMA JobsAreGood ==
  ASSUME OptionsInv, NEW j \in WorldJobs
  PROVE  /\ j.file \in BOOLEAN /\ j.col \in Int /\ (~j.file => j.col = 0)
         /\ j = [file |-> j.file, text |-> j.text, col |-> j.col]
<1>1. CASE j = StdinJob
  BY <1>1 DEF StdinJob
<1>2. ASSUME NEW n \in DOMAIN world.args, world.args[n].key \in {"f", "F"}, j = Job(world.args[n])
      PROVE  /\ j.file \in BOOLEAN /\ j.col \in Int /\ (~j.file => j.col = 0)
             /\ j = [file |-> j.file, text |-> j.text, col |-> j.col]
  <2> DEFINE o == world.args[n]
  <2>1. o.key = "F" => o.col \in Int
    BY ProgramAssumption DEF OptionsInv, IsWorld
  <2>2. j = [file |-> o.key = "F", text |-> o.val, col |-> IF o.key = "F" THEN o.col ELSE 0]
    BY <1>2 DEF Job
  <2> HIDE DEF o
  <2>3. j.col \in Int /\ (o.key # "F" => j.col = 0)
    BY <2>1, <2>2
  <2>4. j.file \in BOOLEAN /\ (j.file <=> o.key = "F")
    BY <2>2
  <2>5. j = [file |-> j.file, text |-> j.text, col |-> j.col]
    BY <2>2
  <2> QED BY <2>3, <2>4, <2>5
<1> QED BY <1>1, <1>2 DEF WorldJobs

(***************************************************************************)
(* So is a job of which a part is done.                                    *)
(***************************************************************************)
LEMMA PartsAreGood ==
  ASSUME OptionsInv, NEW j \in PartJobs
  PROVE  /\ j.file \in BOOLEAN /\ j.col \in Int
         /\ j = [file |-> j.file, text |-> j.text, col |-> j.col]
<1>1. CASE j \in WorldJobs
  BY <1>1, JobsAreGood
<1>2. ASSUME NEW i \in WorldJobs, j = [i EXCEPT !.col = 0]
      PROVE  /\ j.file \in BOOLEAN /\ j.col \in Int
             /\ j = [file |-> j.file, text |-> j.text, col |-> j.col]
  <2>1. i.file \in BOOLEAN /\ i = [file |-> i.file, text |-> i.text, col |-> i.col]
    BY JobsAreGood
  <2>2. j = [file |-> i.file, text |-> i.text, col |-> 0]
    BY <1>2, <2>1
  <2> QED BY <2>1, <2>2
<1> QED BY <1>1, <1>2 DEF PartJobs

(***************************************************************************)
(* The jobs of one more option are appended to those of the options        *)
(* before.                                                                 *)
(***************************************************************************)
LEMMA GivenSnoc ==
  ASSUME OptionsInv, NEW p \in 0 .. Len(world.args)
  PROVE  /\ Given(p) \in Seq(WorldJobs)
         /\ p = 0 => Given(p) = <<>>
         /\ p # Len(world.args) => Given(p + 1) = Given(p) \o JobsOf(world.args[p + 1])
<1> DEFINE f == [n \in 1 .. Len(world.args) |-> JobsOf(world.args[n])]
<1>1. Len(world.args) \in Nat /\ DOMAIN world.args = 1 .. Len(world.args)
  BY WorldIs
<1>2. \A n \in 1 .. Len(world.args) : JobsOf(world.args[n]) \in Seq(WorldJobs)
  <2> SUFFICES ASSUME NEW n \in 1 .. Len(world.args) PROVE JobsOf(world.args[n]) \in Seq(WorldJobs)
    OBVIOUS
  <2>1. CASE world.args[n].key \in {"f", "F"}
    <3>1. Job(world.args[n]) \in WorldJobs
      BY <1>1, <2>1 DEF WorldJobs
    <3>2. JobsOf(world.args[n]) = <<Job(world.args[n])>>
      BY <2>1 DEF JobsOf
    <3> HIDE DEF JobsOf
    <3> QED BY <3>1, <3>2, OneOrNone
  <2>2. CASE world.args[n].key \notin {"f", "F"}
    <3>1. JobsOf(world.args[n]) = <<>>
      BY <2>2 DEF JobsOf
    <3> QED BY <3>1, OneOrNone
  <2> QED BY <2>1, <2>2
<1>3. \A n \in 1 .. Len(world.args) : f[n] = JobsOf(world.args[n]) /\ f[n] \in Seq(WorldJobs)
  BY <1>2
<1>4. \A m \in 0 .. Len(world.args) : Given(m) = FlattenSeq(Prefix(f, m))
  <2> SUFFICES ASSUME NEW m \in 0 .. Len(world.args)
               PROVE  [n \in 1 .. m |-> JobsOf(world.args[n])] = [n \in 1 .. m |-> f[n]]
    BY DEF Given, Prefix
  <2> HIDE DEF f
  <2> QED BY <1>1, <1>3
<1> HIDE DEF f
<1>5. Given(p) \in Seq(WorldJobs)
  <2>1. \A n \in 1 .. p : f[n] \in Seq(WorldJobs)
    BY <1>1, <1>3
  <2>2. Prefix(f, p) = Prefix(Prefix(f, p), p) /\ \A n \in 1 .. p : Prefix(f, p)[n] = f[n]
    BY DEF Prefix
  <2>3. p \in Nat
    BY <1>1
  <2>4. FlattenSeq(Prefix(f, p)) \in Seq(WorldJobs)
    BY <2>1, <2>2, <2>3, FlattenHolds
  <2> QED BY <1>4, <2>4
<1>6. p = 0 => Given(p) = <<>>
  BY DEF Given, FlattenSeq
<1>7. ASSUME p # Len(world.args) PROVE Given(p + 1) = Given(p) \o JobsOf(world.args[p + 1])
  <2>1. p \in Nat /\ p + 1 \in 1 .. Len(world.args)
    BY <1>1, <1>7
  <2>2. \A n \in 1 .. p + 1 : f[n] \in Seq(WorldJobs)
    BY <1>3, <2>1
  <2>3. FlattenSeq(Prefix(f, p + 1)) = FlattenSeq(Prefix(f, p)) \o f[p + 1]
    BY <2>1, <2>2, FlattenSnoc
  <2>4. Given(p) = FlattenSeq(Prefix(f, p)) /\ Given(p + 1) = FlattenSeq(Prefix(f, p + 1))
    <3>1. p + 1 \in 0 .. Len(world.args)
      BY <1>1, <2>1
    <3> QED BY <1>4, <3>1
  <2>5. f[p + 1] = JobsOf(world.args[p + 1])
    BY <1>3, <2>1
  <2> QED BY <2>3, <2>4, <2>5
<1> QED BY <1>5, <1>6, <1>7

(***************************************************************************)
(* The jobs asked for are those of all options, or the standard input.     *)
(***************************************************************************)
LEMMA JobsAskedAre ==
  ASSUME OptionsInv
  PROVE  /\ JobsAsked = IF Given(Len(world.args)) = <<>> THEN <<StdinJob>> ELSE Given(Len(world.args))
         /\ JobsAsked \in Seq(WorldJobs) /\ JobsAsked # <<>>
<1>1. Len(world.args) \in Nat /\ DOMAIN world.args = 1 .. Len(world.args)
  BY WorldIs
<1>2. JobsAsked = IF Given(Len(world.args)) = <<>> THEN <<StdinJob>> ELSE Given(Len(world.args))
  BY <1>1 DEF JobsAsked, Given
<1>3. Given(Len(world.args)) \in Seq(WorldJobs)
  BY <1>1, GivenSnoc
<1>4. StdinJob \in WorldJobs
  BY DEF WorldJobs
<1>5. <<StdinJob>> \in Seq(WorldJobs) /\ <<StdinJob>> # <<>>
  BY <1>4
<1> QED BY <1>2, <1>3, <1>5

(***************************************************************************)
(* Parsing collects them.                                                  *)
(***************************************************************************)
LEMMA StoreJobs ==
  ASSUME NEW s, IsOptions(s), NEW S, s.jobs \in Seq(S), NEW o,
         o.key \in OptionKeys
  PROVE  Store(s, o).jobs = s.jobs \o JobsOf(o)
<1>1. CASE o.key \in {"f", "F"}
  <2>1. Store(s, o) = [s EXCEPT !.jobs = Append(@, Job(o))]
    BY <1>1 DEF Store
  <2>2. Store(s, o).jobs = Append(s.jobs, Job(o))
    BY <2>1 DEF IsOptions, OptionNames
  <2>3. JobsOf(o) = <<Job(o)>>
    BY <1>1 DEF JobsOf
  <2> HIDE DEF JobsOf
  <2>4. s.jobs \in Seq(S \cup {Job(o)})
    OBVIOUS
  <2>5. Append(s.jobs, Job(o)) = s.jobs \o <<Job(o)>>
    BY <2>4
  <2> QED BY <2>2, <2>3, <2>5
<1>2. CASE o.key \notin {"f", "F"}
  <2>1. JobsOf(o) = <<>> /\ s.jobs \o <<>> = s.jobs
    BY <1>2 DEF JobsOf
  <2>2. CASE o.key \in Numeric
    <3>1. Store(s, o) = [s EXCEPT ![o.key] = Unsigned(o.val)]
      BY <2>2 DEF Store, Numeric
    <3> QED BY <2>1, <2>2, <3>1 DEF IsOptions, OptionNames, Numeric
  <2>3. CASE o.key = "unreal-x"
    <3>1. Store(s, o) = [s EXCEPT !.unreal_x = o.val]
      BY <2>3 DEF Store
    <3> QED BY <2>1, <3>1 DEF IsOptions, OptionNames
  <2>4. CASE o.key = "init"
    <3>1. Store(s, o) = [s EXCEPT !.init = TRUE]
      BY <2>4 DEF Store
    <3> QED BY <2>1, <3>1 DEF IsOptions, OptionNames
  <2>5. CASE o.key \in {"check", "synth", "winreg"}
    <3>1. Store(s, o) = [s EXCEPT ![o.key] = o.val]
      BY <2>5 DEF Store
    <3> QED BY <2>1, <2>5, <3>1 DEF IsOptions, OptionNames
  <2>6. CASE o.key \in {"ins", "outs"}
    <3>1. Store(s, o) = [s EXCEPT ![o.key] = @ \cup o.val]
      BY <2>6 DEF Store
    <3> QED BY <2>1, <2>6, <3>1 DEF IsOptions, OptionNames
  <2> QED BY <1>2, <2>2, <2>3, <2>4, <2>5, <2>6 DEF Numeric, OptionKeys
<1> QED BY <1>1, <1>2

(***************************************************************************)
(* Before the first option is parsed, no job is stored.                    *)
(***************************************************************************)
LEMMA InitGiven == ProgramInit => GivenInv
<1> SUFFICES ASSUME ProgramInit PROVE GivenInv
  OBVIOUS
<1>1. OptionsInv
  BY InitOptions
<1>2. Len(world.args) \in Nat /\ DOMAIN world.args = 1 .. Len(world.args)
  BY <1>1, WorldIs
<1>3. args = world.args /\ opts.jobs = <<>>
  BY DEF ProgramInit, Defaults
<1>4. world.args = [n \in 1 .. Len(world.args) - 0 |-> world.args[0 + n]]
  <2>1. world.args \in Seq(Range(world.args))
    BY <1>1, ProgramAssumption DEF OptionsInv, IsWorld
  <2>2. world.args = [n \in 1 .. Len(world.args) |-> world.args[n]]
    BY <2>1
  <2> QED BY <1>2, <2>2
<1>5. 0 \in 0 .. Len(world.args) /\ Given(0) = <<>>
  BY <1>1, <1>2, GivenSnoc
<1> QED BY <1>3, <1>4, <1>5 DEF GivenInv

(***************************************************************************)
(* The options parsed so far have stored their jobs, in their order.       *)
(***************************************************************************)
LEMMA GivenStep ==
  ASSUME OptionsInv, GivenInv, [ProgramNext]_allvars
  PROVE  GivenInv'
<1> SUFFICES ASSUME phase' = "parse"
             PROVE  (\E p \in 0 .. Len(world.args) :
                       /\ args = [n \in 1 .. Len(world.args) - p |-> world.args[p + n]]
                       /\ opts.jobs = Given(p))'
  BY DEF GivenInv
<1>0. Len(world.args) \in Nat /\ DOMAIN world.args = 1 .. Len(world.args)
  BY WorldIs
<1>1. CASE Adjust
  BY <1>1 DEF Adjust, Refuse
<1>2. CASE ~ParseOption /\ ~Adjust
  <2>1. UNCHANGED <<world, phase, args, opts>>
    BY <1>2, OthersKeep
  <2> QED BY <2>1 DEF GivenInv, Given
<1>3. CASE ParseOption
  <2> DEFINE o == Head(args)
             N == Len(world.args)
  <2>1. /\ phase = "parse" /\ world' = world /\ args # <<>>
        /\ opts' = Store(opts, o) /\ args' = Tail(args)
    BY <1>3 DEF ParseOption, Refuse
  <2>2. PICK p \in 0 .. N : args = [n \in 1 .. N - p |-> world.args[p + n]] /\ opts.jobs = Given(p)
    BY <2>1 DEF GivenInv
  <2>3. p # N
    <3>1. p = N => 1 .. N - p = {}
      BY <1>0
    <3>2. p = N => args = <<>>
      BY <2>2, <3>1
    <3> QED BY <2>1, <3>2
  <2>4. N - p \in Nat \ {0} /\ args \in Seq(Range(world.args)) /\ Len(args) = N - p
    BY <1>0, <2>2, <2>3 DEF OptionsInv
  <2>5. o = world.args[p + 1]
    BY <2>2, <2>4
  <2>6. args' = [n \in 1 .. N - (p + 1) |-> world.args[(p + 1) + n]]
    <3>1. /\ Tail(args) \in Seq(Range(world.args)) /\ Len(Tail(args)) = N - (p + 1)
          /\ \A n \in 1 .. N - (p + 1) : Tail(args)[n] = args[n + 1]
      BY <1>0, <2>1, <2>4
    <3>2. \A n \in 1 .. N - (p + 1) : n + 1 \in 1 .. N - p /\ p + (n + 1) = (p + 1) + n
      BY <1>0
    <3>3. \A n \in 1 .. N - (p + 1) : Tail(args)[n] = world.args[(p + 1) + n]
      BY <2>2, <3>1, <3>2
    <3>4. Tail(args) = [n \in 1 .. N - (p + 1) |-> Tail(args)[n]]
      <4> DEFINE t == Tail(args)
      <4>1. t \in Seq(Range(world.args)) /\ Len(t) = N - (p + 1)
        BY <3>1
      <4> HIDE DEF t, N
      <4>2. t = [n \in 1 .. Len(t) |-> t[n]]
        BY <4>1
      <4> QED BY <4>1, <4>2 DEF t
    <3> QED BY <2>1, <3>3, <3>4
  <2>7. opts'.jobs = Given(p + 1)
    <3>1. o.key \in OptionKeys
      <4>1. p + 1 \in DOMAIN world.args
        BY <1>0, <2>3
      <4> QED BY <2>5, <4>1, ProgramAssumption DEF OptionsInv, IsWorld
    <3>2. IsOptions(opts) /\ opts.jobs \in Seq(WorldJobs)
      BY <2>2, GivenSnoc DEF OptionsInv
    <3>3. opts'.jobs = opts.jobs \o JobsOf(o)
      <4> HIDE DEF o
      <4> QED BY <2>1, <3>1, <3>2, StoreJobs
    <3>4. Given(p + 1) = Given(p) \o JobsOf(world.args[p + 1])
      BY <2>3, GivenSnoc
    <3> QED BY <2>2, <2>5, <3>3, <3>4
  <2>8. p + 1 \in 0 .. N
    BY <1>0, <2>3
  <2>9. \A m : Given(m)' = Given(m)
    BY <2>1 DEF Given
  <2>10. N' = N
    BY <2>1
  <2> HIDE DEF N, o
  <2> QED BY <2>1, <2>6, <2>7, <2>8, <2>9, <2>10 DEF N
<1> QED BY <1>1, <1>2, <1>3

-----------------------------------------------------------------------------
(***************************************************************************)
(* What a child that reads may do with the first of its jobs.              *)
(***************************************************************************)
Failed(k) ==
  /\ child' = child /\ End(k, 2, FALSE)
  /\ \/ stdin' = stdin
     \/ stdin # <<>> /\ stdin' = Tail(stdin) /\ FromStdin(child[k].jobs[1])

FinishedJob(k, col, formulas) ==
  /\ UNCHANGED vars /\ stdin' = stdin
  /\ child'[k].jobs = Tail(child[k].jobs) /\ child'[k].col = col
  /\ child'[k].formulas = child[k].formulas \o formulas

DidFormula(k) ==
  LET j == child[k].jobs[1]
  IN  ~j.file /\ FinishedJob(k, child[k].col, Parsed(<<j.text>>))

DidFile(k) ==
  LET j == child[k].jobs[1]
      col == ColumnFor(k, j)
  IN  /\ j.file /\ ~FromStdin(j) /\ j.text \in DOMAIN world.disk
      /\ FinishedJob(k, AbsVal(col), FormulasOf(col, world.disk[j.text]))

DidStdin(k) ==
  LET j == child[k].jobs[1]
  IN  FromStdin(j) /\ stdin = <<>> /\ FinishedJob(k, AbsVal(ColumnFor(k, j)), <<>>)

TookPart(k) ==
  LET j == child[k].jobs[1]
      col == ColumnFor(k, j)
  IN  /\ FromStdin(j) /\ stdin # <<>> /\ stdin' = Tail(stdin) /\ UNCHANGED vars
      /\ child'[k].jobs = [child[k].jobs EXCEPT ![1].col = 0] /\ child'[k].col = AbsVal(col)
      /\ child'[k].formulas = child[k].formulas \o FormulasOf(col, Head(stdin))

(***************************************************************************)
(* A change of the head leaves the tail alone.                             *)
(***************************************************************************)
LEMMA TailOfExcept ==
  ASSUME NEW S, NEW q \in Seq(S), q # <<>>, NEW x \in S
  PROVE  [q EXCEPT ![1] = x] \in Seq(S) /\ Tail([q EXCEPT ![1] = x]) = Tail(q)
<1> DEFINE p == [q EXCEPT ![1] = x]
<1>1. /\ p \in Seq(S) /\ Len(p) = Len(q) /\ Len(q) \in Nat \ {0}
      /\ \A n \in 2 .. Len(q) : p[n] = q[n]
  OBVIOUS
<1> HIDE DEF p
<1>2. p # <<>>
  BY <1>1
<1>3. /\ Tail(p) \in Seq(S) /\ Len(Tail(p)) = Len(q) - 1
      /\ \A n \in 1 .. Len(q) - 1 : Tail(p)[n] = p[n + 1]
  BY <1>1, <1>2
<1>4. /\ Tail(q) \in Seq(S) /\ Len(Tail(q)) = Len(q) - 1
      /\ \A n \in 1 .. Len(q) - 1 : Tail(q)[n] = q[n + 1]
  BY <1>1
<1>5. \A n \in 1 .. Len(Tail(p)) : Tail(p)[n] = Tail(q)[n]
  BY <1>1, <1>3, <1>4
<1>6. Tail(p) = Tail(q)
  BY <1>3, <1>4, <1>5, SameElements
<1> QED BY <1>1, <1>6 DEF p

(***************************************************************************)
(* A job of which a part is done has no column left to lose.               *)
(***************************************************************************)
LEMMA PartJobsClosed ==
  ASSUME OptionsInv, NEW j \in PartJobs
  PROVE  [j EXCEPT !.col = 0] \in PartJobs
<1>1. CASE j \in WorldJobs
  BY <1>1 DEF PartJobs
<1>2. ASSUME NEW i \in WorldJobs, j = [i EXCEPT !.col = 0] PROVE [j EXCEPT !.col = 0] = j
  <2>1. i = [file |-> i.file, text |-> i.text, col |-> i.col]
    BY JobsAreGood
  <2>2. j = [file |-> i.file, text |-> i.text, col |-> 0]
    BY <1>2, <2>1
  <2> QED BY <2>2
<1> QED BY <1>1, <1>2 DEF PartJobs

(***************************************************************************)
(* The steps that read, as what they do to the jobs, the column and the    *)
(* formulas of one child.                                                  *)
(***************************************************************************)
LEMMA ReadEffect ==
  ASSUME OptionsInv, ChildShape, NEW k \in Kids, child[k].jobs \in Seq(PartJobs),
         child[k].formulas \in Seq(Formulas),
         ReadFormula(k) \/ ReadFile(k) \/ ReadStdin(k)
  PROVE  /\ Working(k, "read") /\ child[k].jobs # <<>>
         /\ \A l \in Kids \ {k} : child'[l] = child[l]
         /\ child'[k].at = child[k].at
         /\ UNCHANGED <<world, phase, args, opts>>
         /\ Failed(k) \/ DidFormula(k) \/ DidFile(k) \/ DidStdin(k) \/ TookPart(k)
<1> DEFINE q == child[k].jobs
           j == q[1]
           col == ColumnFor(k, j)
<1>1. /\ Working(k, "read") /\ q # <<>> /\ UNCHANGED <<world, phase, args, opts>>
      /\ Head(q) = j /\ j \in PartJobs
  <2>1. Working(k, "read") /\ q # <<>> /\ UNCHANGED <<world, phase, args, opts>>
    BY DEF ReadFormula, ReadFile, ReadStdin
  <2> QED BY <2>1
<1>2. child[k] = [f \in ChildFields |-> child[k][f]]
  BY DEF ChildShape
<1>3. ASSUME NEW c, child' = [child EXCEPT ![k] = c]
      PROVE  child'[k] = c /\ \A l \in Kids \ {k} : child'[l] = child[l]
  BY <1>3 DEF ChildShape
<1>4. CASE ReadFormula(k)
  <2> DEFINE c == [child[k] EXCEPT !.jobs = Tail(@), !.formulas = @ \o Parsed(<<j.text>>)]
  <2>1. child' = [child EXCEPT ![k].jobs = Tail(@), ![k].formulas = @ \o Parsed(<<j.text>>)]
        /\ ~j.file /\ UNCHANGED <<vars, stdin>>
    BY <1>1, <1>4 DEF ReadFormula
  <2>2. child' = [child EXCEPT ![k] = c]
    BY <2>1 DEF ChildShape
  <2>3. /\ c.jobs = Tail(q) /\ c.formulas = child[k].formulas \o Parsed(<<j.text>>)
        /\ c.at = child[k].at /\ c.col = child[k].col
    BY <1>2 DEF ChildFields
  <2> HIDE DEF c
  <2>4. child'[k] = c /\ \A l \in Kids \ {k} : child'[l] = child[l]
    BY <1>3, <2>2
  <2>5. DidFormula(k)
    BY <2>1, <2>3, <2>4 DEF DidFormula, FinishedJob
  <2> QED BY <1>1, <2>3, <2>4, <2>5
<1>5. CASE ReadFile(k)
  <2>1. CASE End(k, 2, FALSE) /\ UNCHANGED <<child, stdin>>
    BY <1>1, <2>1 DEF Failed
  <2>2. CASE ~(End(k, 2, FALSE) /\ UNCHANGED <<child, stdin>>)
    <3> DEFINE c == [child[k] EXCEPT !.jobs = Tail(@), !.col = AbsVal(col),
                                     !.formulas = @ \o FormulasOf(col, world.disk[j.text])]
    <3>1. /\ child' = [child EXCEPT ![k].jobs = Tail(@), ![k].col = AbsVal(col),
                              ![k].formulas = @ \o FormulasOf(col, world.disk[j.text])]
          /\ j.file /\ j.text # "-" /\ j.text \in DOMAIN world.disk /\ UNCHANGED <<vars, stdin>>
      BY <1>1, <1>5, <2>2 DEF ReadFile
    <3> HIDE DEF col
    <3>2. child' = [child EXCEPT ![k] = c]
      BY <3>1 DEF ChildShape
    <3>3. /\ c.jobs = Tail(q) /\ c.formulas = child[k].formulas \o FormulasOf(col, world.disk[j.text])
          /\ c.at = child[k].at /\ c.col = AbsVal(col)
      BY <1>2 DEF ChildFields
    <3> HIDE DEF c
    <3>4. child'[k] = c /\ \A l \in Kids \ {k} : child'[l] = child[l]
      BY <1>3, <3>2
    <3>5. DidFile(k)
      BY <3>1, <3>3, <3>4 DEF DidFile, FinishedJob, FromStdin, col
    <3> QED BY <1>1, <3>3, <3>4, <3>5
  <2> QED BY <2>1, <2>2
<1>6. CASE ReadStdin(k)
  <2> DEFINE first == [child EXCEPT ![k].jobs[1].col = 0, ![k].col = AbsVal(col)]
             r == [q EXCEPT ![1].col = 0]
             d == [child[k] EXCEPT !.jobs = r, !.col = AbsVal(col)]
  <2>1. /\ j.file /\ j.text = "-"
        /\ \/ /\ stdin # <<>> /\ child' = [first EXCEPT ![k].formulas = @ \o FormulasOf(col, Head(stdin))]
              /\ stdin' = Tail(stdin) /\ UNCHANGED vars
           \/ /\ stdin # <<>> /\ End(k, 2, FALSE) /\ stdin' = Tail(stdin) /\ UNCHANGED child
           \/ /\ stdin = <<>> /\ child' = [first EXCEPT ![k].jobs = Tail(@)]
              /\ UNCHANGED <<vars, stdin>>
    BY <1>1, <1>6 DEF ReadStdin
  <2> HIDE DEF col
  <2>2. first = [child EXCEPT ![k] = d]
    BY DEF ChildShape
  <2>3. d.jobs = r /\ d.col = AbsVal(col) /\ d.at = child[k].at /\ d.formulas = child[k].formulas
        /\ d = [f \in ChildFields |-> d[f]]
    BY <1>2 DEF ChildFields
  <2>4. Tail(r) = Tail(q)
    <3>1. [j EXCEPT !.col = 0] \in PartJobs
      BY <1>1, PartJobsClosed
    <3>2. r = [q EXCEPT ![1] = [j EXCEPT !.col = 0]]
      BY <1>1
    <3> QED BY <1>1, <3>1, <3>2, TailOfExcept
  <2> HIDE DEF first, d, r
  <2>5. first[k] = d /\ DOMAIN child = Kids
    BY <2>2 DEF ChildShape
  <2>6. CASE /\ stdin # <<>> /\ child' = [first EXCEPT ![k].formulas = @ \o FormulasOf(col, Head(stdin))]
             /\ stdin' = Tail(stdin) /\ UNCHANGED vars
    <3> DEFINE c == [d EXCEPT !.formulas = @ \o FormulasOf(col, Head(stdin))]
    <3>1. child' = [child EXCEPT ![k] = c]
      BY <2>2, <2>5, <2>6
    <3>2. /\ c.jobs = r /\ c.formulas = child[k].formulas \o FormulasOf(col, Head(stdin))
          /\ c.at = child[k].at /\ c.col = AbsVal(col)
      BY <2>3 DEF ChildFields
    <3> HIDE DEF c
    <3>3. child'[k] = c /\ \A l \in Kids \ {k} : child'[l] = child[l]
      BY <1>3, <3>1
    <3>4. TookPart(k)
      BY <2>1, <2>6, <3>2, <3>3 DEF TookPart, FromStdin, col, r
    <3> QED BY <1>1, <3>2, <3>3, <3>4
  <2>7. CASE stdin # <<>> /\ End(k, 2, FALSE) /\ stdin' = Tail(stdin) /\ UNCHANGED child
    BY <1>1, <2>1, <2>7 DEF Failed, FromStdin
  <2>8. CASE stdin = <<>> /\ child' = [first EXCEPT ![k].jobs = Tail(@)] /\ UNCHANGED <<vars, stdin>>
    <3> DEFINE c == [d EXCEPT !.jobs = Tail(@)]
    <3>1. child' = [child EXCEPT ![k] = c]
      BY <2>2, <2>5, <2>8
    <3>2. /\ c.jobs = Tail(q) /\ c.formulas = child[k].formulas
          /\ c.at = child[k].at /\ c.col = AbsVal(col)
      BY <2>3, <2>4 DEF ChildFields
    <3> HIDE DEF c
    <3>3. child'[k] = c /\ \A l \in Kids \ {k} : child'[l] = child[l]
      BY <1>3, <3>1
    <3>4. child[k].formulas \o <<>> = child[k].formulas
      OBVIOUS
    <3>5. DidStdin(k)
      BY <2>1, <2>8, <3>2, <3>3, <3>4 DEF DidStdin, FinishedJob, FromStdin, col
    <3> QED BY <1>1, <3>2, <3>3, <3>5
  <2> QED BY <2>1, <2>6, <2>7, <2>8
<1> QED BY <1>4, <1>5, <1>6

-----------------------------------------------------------------------------
(***************************************************************************)
(* What is asked for does not change while it is read.                     *)
(***************************************************************************)
LEMMA AskedSame ==
  ASSUME world' = world
  PROVE  /\ JobsAsked' = JobsAsked /\ Asked' = Asked /\ StdinAsked' = StdinAsked
         /\ WorldJobs' = WorldJobs /\ PartJobs' = PartJobs
         /\ \A j : TextsAsked(j)' = TextsAsked(j)
         /\ \A t : Reads(t)' = Reads(t)
         /\ opts' = opts =>
              Misread' = Misread /\ Shared' = Shared /\ Plan(opts)' = Plan(opts)
<1>1. JobsAsked' = JobsAsked
  BY DEF JobsAsked, JobsOf, StdinJob, Job
<1>2. \A j : TextsAsked(j)' = TextsAsked(j)
  BY DEF TextsAsked, LinesOf
<1>3. Asked' = Asked
  BY <1>1, <1>2 DEF Asked
<1>4. StdinAsked' = StdinAsked
  BY <1>1 DEF StdinAsked, FromStdin
<1>5. WorldJobs' = WorldJobs
  BY DEF WorldJobs, StdinJob, Job
<1>6. PartJobs' = PartJobs
  BY <1>5 DEF PartJobs
<1>7. \A t : Reads(t)' = Reads(t)
  BY DEF Reads
<1>8. ASSUME opts' = opts
      PROVE  Misread' = Misread /\ Shared' = Shared /\ Plan(opts)' = Plan(opts)
  <2>1. Plan(opts)' = Plan(opts)
    BY <1>8
  <2>2. Shared' = Shared
    BY <1>4, <2>1 DEF Shared
  <2>3. Misread' = Misread
    BY <1>1, <1>3, <2>1 DEF Misread, FromStdin
  <2> QED BY <2>1, <2>2, <2>3
<1> QED BY <1>1, <1>2, <1>3, <1>4, <1>5, <1>6, <1>7, <1>8

(***************************************************************************)
(* A child that did not move has what it had.                              *)
(***************************************************************************)
LEMMA ChildSame ==
  ASSUME world' = world, NEW k \in Kids,
         child'[k].jobs = child[k].jobs, child'[k].col = child[k].col
  PROVE  /\ DoneJobs(k)' = DoneJobs(k) /\ NextJob(k)' = NextJob(k) /\ Started(k)' = Started(k)
         /\ JobsLeft(k)' = JobsLeft(k) /\ ColumnKept(k)' = ColumnKept(k) /\ AskedOf(k)' = AskedOf(k)
<1>0. /\ JobsAsked' = JobsAsked /\ PartJobs' = PartJobs
      /\ \A j : TextsAsked(j)' = TextsAsked(j)
  BY AskedSame
<1>1. DoneJobs(k)' = DoneJobs(k)
  BY <1>0 DEF DoneJobs
<1>2. NextJob(k)' = NextJob(k)
  BY <1>0, <1>1 DEF NextJob
<1>3. Started(k)' = Started(k)
  BY <1>2 DEF Started, FromStdin
<1>4. JobsLeft(k)' = JobsLeft(k)
  BY <1>0, <1>1, <1>2, <1>3 DEF JobsLeft
<1>5. ColumnKept(k)' = ColumnKept(k)
  BY <1>0, <1>1, <1>3 DEF ColumnKept
<1>6. AskedOf(k)' = AskedOf(k)
  BY <1>0, <1>1 DEF AskedOf, FromStdin
<1> QED BY <1>1, <1>2, <1>3, <1>4, <1>5, <1>6

(***************************************************************************)
(* The job that a child does next, and the column it reads it in.  A       *)
(* column that is still in force from an earlier file is the only reason   *)
(* for another one than that asked for.                                    *)
(***************************************************************************)
LEMMA NextIs ==
  ASSUME OptionsInv, NEW k \in Kids, JobsLeft(k), ColumnKept(k), child[k].jobs # <<>>,
         child[k].col \in Nat
  PROVE  /\ DoneJobs(k) \in Nat /\ DoneJobs(k) + 1 \in 1 .. Len(JobsAsked)
         /\ DOMAIN JobsAsked = 1 .. Len(JobsAsked) /\ Len(JobsAsked) \in Nat
         /\ NextJob(k) \in Range(JobsAsked) /\ NextJob(k) \in WorldJobs
         /\ child[k].jobs[1] = NextJob(k) \/ Started(k)
         /\ child[k].jobs[1].file = NextJob(k).file /\ child[k].jobs[1].text = NextJob(k).text
         /\ FromStdin(child[k].jobs[1]) = FromStdin(NextJob(k))
         /\ child[k].jobs[1].col \in {0, NextJob(k).col}
         /\ ColumnFor(k, child[k].jobs[1]) \in Int
         /\ ~Misread /\ NextJob(k).file =>
              ColumnFor(k, child[k].jobs[1]) =
                IF child[k].jobs[1] = NextJob(k) THEN NextJob(k).col ELSE AbsVal(NextJob(k).col)
<1> DEFINE j == NextJob(k)
           h == child[k].jobs[1]
           d == DoneJobs(k)
<1>1. /\ JobsAsked \in Seq(WorldJobs) /\ Len(JobsAsked) \in Nat
      /\ DOMAIN JobsAsked = 1 .. Len(JobsAsked)
      /\ \A n \in 1 .. Len(JobsAsked) : JobsAsked[n] \in WorldJobs
  BY JobsAskedAre
<1>2. child[k].jobs \in Seq(PartJobs) /\ Len(child[k].jobs) =< Len(JobsAsked) /\ (h = j \/ Started(k))
  BY DEF JobsLeft
<1>3. Len(child[k].jobs) \in Nat \ {0}
  BY <1>2
<1>4. d \in Nat /\ d + 1 \in 1 .. Len(JobsAsked)
  BY <1>1, <1>2, <1>3 DEF DoneJobs
<1>5. j = JobsAsked[d + 1] /\ j \in WorldJobs /\ j \in Range(JobsAsked)
  BY <1>1, <1>4 DEF NextJob, Range
<1>6. j = [file |-> j.file, text |-> j.text, col |-> j.col] /\ j.col \in Int
  BY <1>5, JobsAreGood
<1> HIDE DEF j, h, d
<1>7. Started(k) => /\ h = [file |-> j.file, text |-> j.text, col |-> 0]
                    /\ child[k].col = AbsVal(j.col) /\ h.col = 0
  <2>1. Started(k) => h = [j EXCEPT !.col = 0] /\ child[k].col = AbsVal(j.col)
    BY DEF Started, h, j
  <2> QED BY <1>6, <2>1
<1>8. h.file = j.file /\ h.text = j.text /\ h.col \in {0, j.col}
  BY <1>2, <1>7 DEF h, j
<1>9. FromStdin(h) = FromStdin(j)
  BY <1>8 DEF FromStdin
<1>10. ColumnFor(k, h) \in Int
  BY <1>6, <1>8 DEF ColumnFor
<1>11. ASSUME ~Misread, j.file
       PROVE  ColumnFor(k, h) = IF h = j THEN j.col ELSE AbsVal(j.col)
  <2>1. CASE h # j
    <3>1. Started(k)
      BY <1>2, <2>1 DEF h, j
    <3> QED BY <1>7, <2>1, <3>1 DEF ColumnFor
  <2>2. CASE h = j /\ j.col # 0
    BY <2>2 DEF ColumnFor
  <2>3. CASE h = j /\ j.col = 0
    <3>1. ~Started(k) \/ child[k].col = 0
      BY <1>7, <2>3, AbsIs
    <3>2. \A m \in 1 .. d : JobsAsked[m].col = 0
      <4>1. SUFFICES ASSUME NEW m \in 1 .. d, JobsAsked[m].col # 0 PROVE FALSE
        OBVIOUS
      <4>2. m \in DOMAIN JobsAsked /\ d + 1 \in DOMAIN JobsAsked /\ m < d + 1
        BY <1>1, <1>4
      <4> QED BY <1>5, <1>11, <2>3, <4>1, <4>2 DEF Misread
    <3>3. child[k].col = 0
      BY <3>1, <3>2 DEF ColumnKept, d
    <3> QED BY <2>3, <3>3 DEF ColumnFor
  <2> QED BY <2>1, <2>2, <2>3
<1> QED BY <1>1, <1>2, <1>4, <1>5, <1>8, <1>9, <1>10, <1>11 DEF j, h, d

(***************************************************************************)
(* A child that has done a job goes on to the next, and the column that it *)
(* leaves in force is that of the job or was in force before.              *)
(***************************************************************************)
LEMMA FinishedMoves ==
  ASSUME OptionsInv, world' = world, NEW k \in Kids, NEW col, NEW formulas,
         FinishedJob(k, col, formulas),
         JobsLeft(k), ColumnKept(k), child[k].jobs # <<>>, child[k].col \in Nat,
         col # 0 => child[k].col # 0 \/ child[k].jobs[1].col # 0
  PROVE  /\ JobsLeft(k)' /\ ColumnKept(k)' /\ DoneJobs(k)' = DoneJobs(k) + 1
         /\ child'[k].jobs # <<>> => child'[k].jobs[1] = NextJob(k)'
<1> DEFINE q == child[k].jobs
           r == child'[k].jobs
           d == DoneJobs(k)
           N == Len(JobsAsked)
<1>1. JobsAsked' = JobsAsked /\ PartJobs' = PartJobs
  BY AskedSame
<1>2. r = Tail(q) /\ child'[k].col = col
  BY DEF FinishedJob
<1>3. /\ q \in Seq(PartJobs) /\ Len(q) =< N /\ q # <<>>
      /\ \A m \in 2 .. Len(q) : q[m] = JobsAsked[d + m]
  BY DEF JobsLeft
<1>4. N \in Nat /\ d = N - Len(q)
  BY JobsAskedAre DEF DoneJobs
<1> HIDE DEF q
<1>5. /\ Len(q) \in Nat \ {0} /\ r \in Seq(PartJobs) /\ Len(r) = Len(q) - 1
      /\ \A m \in 1 .. Len(q) - 1 : r[m] = q[m + 1]
  BY <1>2, <1>3
<1>6. DoneJobs(k)' = N - Len(r)
  BY <1>1 DEF DoneJobs
<1> HIDE DEF r, d, N
<1>7. DoneJobs(k)' = d + 1
  BY <1>4, <1>5, <1>6
<1>8. ASSUME NEW m \in 1 .. Len(r) PROVE r[m] = JobsAsked[d + 1 + m]
  <2>1. r[m] = q[m + 1] /\ m + 1 \in 2 .. Len(q) /\ d + (m + 1) = d + 1 + m
    BY <1>4, <1>5
  <2> QED BY <1>3, <2>1
<1>9. ASSUME r # <<>> PROVE r[1] = NextJob(k)'
  <2>1. Len(r) \in Nat /\ Len(r) # 0
    BY <1>5, <1>9
  <2>2. 1 \in 1 .. Len(r)
    BY <2>1
  <2>3. NextJob(k)' = JobsAsked[d + 1 + 1]
    BY <1>1, <1>7 DEF NextJob
  <2> QED BY <1>8, <2>2, <2>3
<1>10. JobsLeft(k)'
  <2>1. Len(r) =< N /\ \A m \in 2 .. Len(r) : m \in 1 .. Len(r)
    BY <1>3, <1>4, <1>5
  <2>2. \A m \in 2 .. Len(r) : r[m] = JobsAsked[DoneJobs(k)' + m]
    BY <1>7, <1>8, <2>1
  <2> QED BY <1>1, <1>5, <1>9, <2>1, <2>2 DEF JobsLeft, r, N
<1>11. ColumnKept(k)'
  <2>1. SUFFICES ASSUME col # 0
                 PROVE  \E m \in 1 .. d + 1 : JobsAsked[m].col # 0
    BY <1>1, <1>2, <1>7 DEF ColumnKept
  <2>2. d + 1 \in 1 .. d + 1 /\ 1 .. d \subseteq 1 .. d + 1
    BY <1>4, <1>5, <1>3
  <2>3. NextJob(k) = JobsAsked[d + 1]
    BY DEF NextJob, d
  <2>4. NextJob(k).col \in Int /\ child[k].jobs[1].col \in {0, NextJob(k).col}
    <3>1. NextJob(k) \in WorldJobs /\ child[k].jobs[1].col \in {0, NextJob(k).col}
      BY NextIs
    <3> QED BY <3>1, JobsAreGood
  <2>5. CASE child[k].jobs[1].col # 0
    BY <2>2, <2>3, <2>4, <2>5
  <2>6. CASE child[k].col # 0 /\ Started(k)
    <3>1. AbsVal(NextJob(k).col) # 0
      BY <2>6 DEF Started
    <3>2. NextJob(k).col # 0
      BY <2>4, <3>1, AbsIs
    <3> QED BY <2>2, <2>3, <3>2
  <2>7. CASE child[k].col # 0 /\ ~Started(k)
    BY <2>2, <2>7 DEF ColumnKept, d
  <2> QED BY <2>1, <2>5, <2>6, <2>7
<1> QED BY <1>7, <1>9, <1>10, <1>11 DEF r, d

(***************************************************************************)
(* A child that takes a part of the standard input stays at its job, and   *)
(* has the column that was asked for unless another is in force.           *)
(***************************************************************************)
LEMMA TookMoves ==
  ASSUME OptionsInv, world' = world, NEW k \in Kids, TookPart(k),
         JobsLeft(k), ColumnKept(k), child[k].jobs # <<>>, child[k].col \in Nat
  PROVE  /\ JobsLeft(k)' /\ ColumnKept(k)'
         /\ DoneJobs(k)' = DoneJobs(k) /\ NextJob(k)' = NextJob(k)
         /\ ~Misread => Started(k)'
<1> DEFINE q == child[k].jobs
           r == child'[k].jobs
           c == child'[k].col
           d == DoneJobs(k)
           j == NextJob(k)
           N == Len(JobsAsked)
<1>1. JobsAsked' = JobsAsked /\ PartJobs' = PartJobs
  BY AskedSame
<1>2. /\ r = [q EXCEPT ![1].col = 0] /\ c = AbsVal(ColumnFor(k, q[1])) /\ FromStdin(q[1])
  BY DEF TookPart
<1>3. /\ q \in Seq(PartJobs) /\ Len(q) =< N /\ q # <<>>
      /\ \A m \in 2 .. Len(q) : q[m] = JobsAsked[d + m]
  BY DEF JobsLeft
<1>4. /\ d \in Nat /\ FromStdin(j) /\ j \in WorldJobs /\ q[1].col \in {0, j.col}
      /\ q[1].file = j.file /\ q[1].text = j.text /\ ColumnFor(k, q[1]) \in Int
      /\ q[1] = j \/ Started(k)
      /\ ~Misread /\ j.file => ColumnFor(k, q[1]) = IF q[1] = j THEN j.col ELSE AbsVal(j.col)
  BY <1>2, NextIs
<1>5. j = [file |-> j.file, text |-> j.text, col |-> j.col] /\ j.col \in Int
  BY <1>4, JobsAreGood
<1>6. q[1] \in PartJobs /\ 1 \in DOMAIN q /\ Len(q) \in Nat
  BY <1>3
<1> HIDE DEF j, q, c, d, N
<1>7. [q[1] EXCEPT !.col = 0] = [j EXCEPT !.col = 0]
  <2>1. q[1] = [file |-> q[1].file, text |-> q[1].text, col |-> q[1].col]
    BY <1>6, PartsAreGood
  <2>2. [q[1] EXCEPT !.col = 0] = [file |-> q[1].file, text |-> q[1].text, col |-> 0]
    BY <2>1
  <2>3. [j EXCEPT !.col = 0] = [file |-> j.file, text |-> j.text, col |-> 0]
    BY <1>5
  <2> QED BY <1>4, <2>2, <2>3
<1>8. [j EXCEPT !.col = 0] \in PartJobs
  BY <1>4 DEF PartJobs
<1>9. /\ r \in Seq(PartJobs) /\ Len(r) = Len(q) /\ r[1] = [j EXCEPT !.col = 0]
      /\ \A m \in 2 .. Len(q) : r[m] = q[m]
  <2>1. r = [q EXCEPT ![1] = [j EXCEPT !.col = 0]]
    BY <1>2, <1>6, <1>7
  <2> QED BY <1>3, <1>6, <1>8, <2>1
<1> HIDE DEF r
<1>10. DoneJobs(k)' = d
  BY <1>1, <1>9 DEF DoneJobs, d, q, r
<1>11. NextJob(k)' = j
  BY <1>1, <1>10 DEF NextJob, d, j
<1>12. r # <<>>
  <2>1. Len(q) # 0
    BY <1>3
  <2> QED BY <1>9, <2>1
<1>13. c = AbsVal(j.col) => Started(k)'
  BY <1>4, <1>9, <1>11, <1>12 DEF Started, FromStdin, r, c
<1>14. q[1].col # 0 \/ Started(k) => c = AbsVal(j.col)
  <2>1. CASE q[1].col # 0
    BY <1>2, <1>4, <2>1 DEF ColumnFor
  <2>2. CASE q[1].col = 0 /\ Started(k)
    <3>1. ColumnFor(k, q[1]) = AbsVal(j.col)
      BY <2>2 DEF ColumnFor, Started, j
    <3> QED BY <1>2, <1>5, <3>1, AbsIs
  <2> QED BY <2>1, <2>2
<1>15. q[1].col = 0 /\ ~Started(k) => r[1] = j /\ c = AbsVal(child[k].col)
  <2>1. SUFFICES ASSUME q[1].col = 0, ~Started(k) PROVE r[1] = j /\ c = AbsVal(child[k].col)
    OBVIOUS
  <2>2. q[1] = j /\ j.col = 0
    BY <1>4, <2>1
  <2>3. j = [j EXCEPT !.col = 0]
    BY <1>5, <2>2
  <2> QED BY <1>2, <1>9, <2>1, <2>3 DEF ColumnFor
<1>16. JobsLeft(k)'
  <2>1. r[1] = j \/ Started(k)'
    BY <1>13, <1>14, <1>15
  <2>2. \A m \in 2 .. Len(r) : r[m] = JobsAsked[d + m]
    BY <1>3, <1>9
  <2> QED BY <1>1, <1>3, <1>9, <1>10, <1>11, <2>1, <2>2 DEF JobsLeft, r, N
<1>17. ColumnKept(k)'
  <2>1. CASE q[1].col # 0 \/ Started(k)
    BY <1>13, <1>14, <2>1 DEF ColumnKept
  <2>2. CASE q[1].col = 0 /\ ~Started(k)
    <3>1. child[k].col = 0 => c = 0
      BY <1>15, <2>2 DEF AbsVal
    <3>2. child[k].col # 0 => \E m \in 1 .. d : JobsAsked[m].col # 0
      BY <2>2 DEF ColumnKept, d
    <3> QED BY <1>1, <1>10, <3>1, <3>2 DEF ColumnKept, c
  <2> QED BY <2>1, <2>2
<1>18. ~Misread => Started(k)'
  <2>1. SUFFICES ASSUME ~Misread PROVE c = AbsVal(j.col)
    BY <1>13
  <2>2. ColumnFor(k, q[1]) = j.col \/ ColumnFor(k, q[1]) = AbsVal(j.col)
    BY <1>4, <2>1 DEF FromStdin
  <2> QED BY <1>2, <1>5, <2>2, AbsIs
<1> QED BY <1>10, <1>11, <1>16, <1>17, <1>18 DEF d, j

-----------------------------------------------------------------------------
(***************************************************************************)
(* A part that is taken is the next of the standard input.                 *)
(***************************************************************************)
LEMMA TakeMoves ==
  ASSUME OptionsInv, world' = world, StdinInv, stdin # <<>>, stdin' = Tail(stdin)
  PROVE  /\ StdinInv' /\ Taken \in Nat /\ Taken < Len(world.stdin) /\ Taken' = Taken + 1
         /\ Head(stdin) = world.stdin[Taken + 1]
<1> DEFINE N == Len(world.stdin)
           L == Len(stdin)
<1>1. world.stdin \in Seq(Seq(Seq(STRING)) \ {<<>>}) /\ N \in Nat
  BY WorldIs
<1>2. L \in 0 .. N /\ stdin = [n \in 1 .. L |-> world.stdin[N - L + n]]
  BY DEF StdinInv
<1> DEFINE S == Seq(Seq(STRING)) \ {<<>>}
<1>3. stdin \in Seq(S)
  <2>1. \A n \in 1 .. L : N - L + n \in 1 .. N
    <3> HIDE DEF L, N
    <3> QED BY <1>1, <1>2
  <2>2. \A n \in 1 .. L : world.stdin[N - L + n] \in S
    BY <1>1, <2>1
  <2> HIDE DEF L, N, S
  <2> QED BY <1>1, <1>2, <2>2
<1> HIDE DEF S
<1>4. /\ L \in Nat \ {0} /\ Len(Tail(stdin)) = L - 1 /\ Head(stdin) = stdin[1]
      /\ Tail(stdin) \in Seq(S) /\ \A n \in 1 .. L - 1 : Tail(stdin)[n] = stdin[n + 1]
  BY <1>3
<1>5. Tail(stdin) = [n \in 1 .. Len(Tail(stdin)) |-> Tail(stdin)[n]]
  <2> DEFINE t == Tail(stdin)
  <2>1. t \in Seq(S)
    BY <1>4
  <2> HIDE DEF t
  <2>2. t = [n \in 1 .. Len(t) |-> t[n]]
    BY <2>1
  <2> QED BY <2>2 DEF t
<1> HIDE DEF L, N
<1>6. Len(stdin') = L - 1 /\ Len(world'.stdin) = N
  BY <1>4 DEF N
<1>7. stdin' = [n \in 1 .. L - 1 |-> Tail(stdin)[n]]
  BY <1>4, <1>5
<1>8. \A n \in 1 .. L - 1 : Tail(stdin)[n] = world.stdin[N - (L - 1) + n]
  <2>1. \A n \in 1 .. L - 1 : n + 1 \in 1 .. L /\ N - L + (n + 1) = N - (L - 1) + n
    BY <1>1, <1>2
  <2> QED BY <1>2, <1>4, <2>1
<1>9. stdin' = [n \in 1 .. L - 1 |-> world.stdin[N - (L - 1) + n]]
  BY <1>7, <1>8
<1>10. L - 1 \in 0 .. N
  BY <1>1, <1>2, <1>4
<1>11. StdinInv'
  BY <1>6, <1>9, <1>10 DEF StdinInv
<1>12. Taken = N - L /\ Taken' = N - (L - 1)
  BY <1>6 DEF Taken, L, N
<1>13. Head(stdin) = world.stdin[N - L + 1]
  BY <1>2, <1>4
<1>14. N - L \in Nat /\ N - L < N /\ N - (L - 1) = N - L + 1
  BY <1>1, <1>2, <1>4
<1> QED BY <1>11, <1>12, <1>13, <1>14 DEF N

(***************************************************************************)
(* How much was taken.                                                     *)
(***************************************************************************)
LEMMA TakenIs ==
  ASSUME OptionsInv, StdinInv
  PROVE  /\ Len(world.stdin) \in Nat /\ Taken \in 0 .. Len(world.stdin)
         /\ stdin = <<>> => Taken = Len(world.stdin)
         /\ stdin = world.stdin => Taken = 0
<1>1. Len(world.stdin) \in Nat
  BY WorldIs
<1>2. Len(stdin) \in 0 .. Len(world.stdin)
  BY DEF StdinInv
<1>3. stdin = <<>> => Len(stdin) = 0
  OBVIOUS
<1> QED BY <1>1, <1>2, <1>3 DEF Taken

(***************************************************************************)
(* Nothing is held before anything is read.                                *)
(***************************************************************************)
LEMMA NothingRead == Reads(0) = <<>> /\ \A col : TextsIn(col, <<>>) = {}
<1>1. Reads(0) = <<>>
  BY DEF Reads, FlattenSeq
<1>2. Range(<<>>) = {}
  BY OneOrNone
<1>3. \A col : RowsOf(col, <<>>) = <<>>
  BY DEF RowsOf
<1> QED BY <1>1, <1>2, <1>3 DEF TextsIn

(***************************************************************************)
(* When the children are forked, each has all the jobs to do and has read  *)
(* nothing.                                                                *)
(***************************************************************************)
LEMMA AdjustReads ==
  ASSUME OptionsInv, ChoiceInv', GivenInv, StdinInv, KeptInv, ChildInv, Adjust, phase' = "run"
  PROVE  StdinInv' /\ KeptInv' /\ WorkInv' /\ HeldInv'
<1>1. /\ phase = "parse" /\ args = <<>> /\ world' = world /\ stdin' = stdin
      /\ opts'.jobs = IF opts.jobs = <<>> THEN <<StdinJob>> ELSE opts.jobs
      /\ child' = [k \in Kids |-> [child[k] EXCEPT !.jobs = opts'.jobs]]
  <2> DEFINE s == [opts EXCEPT !.jobs = IF @ = <<>> THEN <<StdinJob>> ELSE @,
                               !.Kmin = IF @ = UMax THEN opts.K ELSE @]
  <2>1. /\ phase = "parse" /\ args = <<>> /\ world' = world /\ stdin' = stdin /\ opts' = s
        /\ child' = [k \in Kids |-> [child[k] EXCEPT !.jobs = s.jobs]]
    BY DEF Adjust, Refuse
  <2>2. s.jobs = IF opts.jobs = <<>> THEN <<StdinJob>> ELSE opts.jobs
    BY DEF OptionsInv, IsOptions, OptionNames
  <2> HIDE DEF s
  <2> QED BY <2>1, <2>2
<1>2. opts'.jobs = JobsAsked
  <2>1. PICK p \in 0 .. Len(world.args) :
          args = [n \in 1 .. Len(world.args) - p |-> world.args[p + n]] /\ opts.jobs = Given(p)
    BY <1>1 DEF GivenInv
  <2>2. Len(world.args) \in Nat
    BY WorldIs
  <2>3. p = Len(world.args)
    <3> DEFINE M == Len(world.args) - p
    <3>1. DOMAIN args = 1 .. M /\ DOMAIN args = {}
      BY <1>1, <2>1
    <3>2. M \in Nat
      BY <2>2
    <3> HIDE DEF M
    <3>3. M = 0
      BY <3>1, <3>2
    <3> QED BY <2>2, <3>3 DEF M
  <2> QED BY <1>1, <2>1, <2>3, JobsAskedAre
<1>3. /\ JobsAsked' = JobsAsked /\ StdinAsked' = StdinAsked /\ PartJobs' = PartJobs
      /\ \A t : Reads(t)' = Reads(t)
  BY <1>1, AskedSame
<1>4. StdinInv' /\ Taken' = Taken /\ Taken = 0
  BY <1>1 DEF StdinInv, Taken, KeptInv
<1>5. ASSUME NEW k \in Kids
      PROVE  /\ child'[k].jobs = JobsAsked /\ child'[k].col = 0 /\ child'[k].formulas = <<>>
             /\ child'[k].at = "read"
  <2>1. child[k].at = "read" /\ child[k].col = 0 /\ child[k].formulas = <<>>
    BY <1>1 DEF ChildInv, KeptInv
  <2>2. child[k] = [f \in ChildFields |-> child[k][f]]
    BY DEF ChildInv, ChildShape
  <2> QED BY <1>1, <1>2, <2>1, <2>2 DEF ChildFields
<1>6. KeptInv'
  <2>1. <<>> \in Seq(Formulas) /\ 0 \in Nat
    OBVIOUS
  <2>2. \A k \in Kids : child'[k].col \in Nat /\ child'[k].formulas \in Seq(Formulas)
    BY <1>5, <2>1
  <2> QED BY <2>2 DEF KeptInv
<1> DEFINE N == Len(JobsAsked)
<1>7. /\ JobsAsked \in Seq(WorldJobs) /\ JobsAsked \in Seq(PartJobs) /\ N \in Nat \ {0}
      /\ DOMAIN JobsAsked = 1 .. N
  <2>1. JobsAsked \in Seq(WorldJobs) /\ JobsAsked # <<>>
    BY JobsAskedAre
  <2>2. WorldJobs \subseteq PartJobs
    BY DEF PartJobs
  <2>3. \A n \in 1 .. Len(JobsAsked) : JobsAsked[n] \in WorldJobs
    BY <2>1
  <2>4. \A n \in 1 .. Len(JobsAsked) : JobsAsked[n] \in PartJobs
    BY <2>2, <2>3
  <2> QED BY <2>1, <2>4
<1>8. ASSUME NEW k \in Kids
      PROVE  DoneJobs(k)' = 0 /\ NextJob(k)' = JobsAsked[1] /\ child'[k].jobs[1] = NextJob(k)'
  <2>1. DoneJobs(k)' = N - N
    BY <1>3, <1>5 DEF DoneJobs
  <2>2. DoneJobs(k)' = 0
    BY <1>7, <2>1
  <2> QED BY <1>3, <1>5, <2>2 DEF NextJob
<1>9. ASSUME NEW k \in Kids
      PROVE  JobsLeft(k)' /\ ColumnKept(k)'
  <2>1. \A m \in 2 .. Len(JobsAsked) : JobsAsked[m] = JobsAsked[0 + m]
    OBVIOUS
  <2>2. N =< N
    BY <1>7
  <2> QED BY <1>3, <1>5, <1>7, <1>8, <2>1, <2>2 DEF JobsLeft, ColumnKept
<1>10. WorkInv'
  BY <1>2, <1>3, <1>4, <1>9 DEF WorkInv
<1>11. Listed(Plan(opts')) \subseteq Kids
  <2>1. PICK s : s = opts'
    OBVIOUS
  <2>2. s.check \in {"real", "unreal", "both"} /\ s.unreal_x \in {"formula", "automaton", "both"}
    BY <2>1 DEF ChoiceInv
  <2>3. Plan(s) \in Plans
    BY <2>2, PlanOfOptions
  <2> QED BY <2>1, <2>3, PlanListed
<1>12. HeldInv'
  <2>1. SUFFICES ASSUME NEW k \in Kids PROVE Holds(k)' /\ child'[k].at = "read"
    BY <1>11 DEF HeldInv
  <2>2. AskedSoFar' = {}
    <3>1. Reads(Taken)' = <<>>
      BY <1>3, <1>4, NothingRead DEF Reads
    <3> QED BY <3>1, NothingRead DEF AskedSoFar
  <2>3. AskedOf(k)' = {}
    <3>1. 1 .. DoneJobs(k)' = {}
      BY <1>8
    <3> QED BY <3>1 DEF AskedOf
  <2>4. Range(child'[k].formulas) = {}
    BY <1>5, OneOrNone
  <2>5. 1 .. DoneJobs(k)' = {} /\ ~(Taken' > 0)
    BY <1>4, <1>8
  <2> QED BY <1>5, <1>8, <2>2, <2>3, <2>4, <2>5 DEF Holds
<1> QED BY <1>4, <1>6, <1>10, <1>12

-----------------------------------------------------------------------------
(***************************************************************************)
(* The files of the jobs hold lines.                                       *)
(***************************************************************************)
LEMMA LinesAre ==
  ASSUME OptionsInv, NEW j
  PROVE  /\ LinesOf(j) \in Seq(Seq(STRING))
         /\ FromStdin(j) => LinesOf(j) = Reads(Len(world.stdin))
<1> DEFINE s == world.stdin
           N == Len(world.stdin)
<1>1. s \in Seq(Seq(Seq(STRING)) \ {<<>>}) /\ N \in Nat
      /\ \A f \in DOMAIN world.disk : world.disk[f] \in Seq(Seq(STRING))
  BY WorldIs
<1>2. s = [n \in 1 .. N |-> s[n]] /\ \A n \in 1 .. N : s[n] \in Seq(Seq(STRING))
  <2> HIDE DEF s
  <2>1. s = [n \in 1 .. Len(s) |-> s[n]] /\ \A n \in 1 .. Len(s) : s[n] \in Seq(Seq(STRING)) \ {<<>>}
    BY <1>1
  <2> QED BY <2>1 DEF s
<1> HIDE DEF s, N
<1>3. s = Prefix(s, N)
  BY <1>2 DEF Prefix
<1>4. FlattenSeq(s) \in Seq(Seq(STRING))
  BY <1>1, <1>2, <1>3, FlattenHolds
<1>5. FlattenSeq(s) = Reads(N)
  BY <1>2 DEF Reads, s, N
<1>6. <<>> \in Seq(Seq(STRING))
  OBVIOUS
<1> QED BY <1>1, <1>4, <1>5, <1>6 DEF LinesOf, FromStdin, s, N

(***************************************************************************)
(* A job of the command line asks for what its lines hold in its column.   *)
(***************************************************************************)
LEMMA JobTexts ==
  ASSUME OptionsInv, NEW j \in WorldJobs
  PROVE  /\ j.file => TextsAsked(j) = TextsIn(j.col, LinesOf(j))
         /\ FromStdin(j) => TextsAsked(j) = TextsIn(j.col, Reads(Len(world.stdin)))
<1>1. j.col \in Int /\ LinesOf(j) \in Seq(Seq(STRING))
  BY JobsAreGood, LinesAre
<1>2. j.file => TextsAsked(j) = TextsIn(j.col, LinesOf(j))
  BY <1>1, TextsAskedAre
<1> QED BY <1>2, LinesAre DEF FromStdin

(***************************************************************************)
(* Once all of the standard input is taken, all that was asked of it is.   *)
(***************************************************************************)
LEMMA AllTaken ==
  ASSUME OptionsInv, Taken = Len(world.stdin)
  PROVE  AskedSoFar = UNION {TextsAsked(j) : j \in {j \in Range(JobsAsked) : FromStdin(j)}}
<1>1. ASSUME NEW j \in Range(JobsAsked), FromStdin(j)
      PROVE  TextsAsked(j) = TextsIn(j.col, Reads(Taken))
  <2>1. j \in WorldJobs
    BY JobsAskedAre, HeadAndTail
  <2> QED BY <1>1, <2>1, JobTexts
<1> QED BY <1>1 DEF AskedSoFar

(***************************************************************************)
(* All that is asked is asked of the standard input, or of the jobs that   *)
(* are not about it.                                                       *)
(***************************************************************************)
LEMMA AskedIs ==
  ASSUME OptionsInv, StdinAsked => Taken = Len(world.stdin),
         NEW k \in Kids, DoneJobs(k) = Len(JobsAsked)
  PROVE  AskedOf(k) \cup AskedSoFar = Asked
<1> DEFINE R == Range(JobsAsked)
           F == {j \in R : FromStdin(j)}
<1>1. DOMAIN JobsAsked = 1 .. Len(JobsAsked)
  BY JobsAskedAre
<1>2. R \ F = {JobsAsked[m] : m \in {m \in 1 .. DoneJobs(k) : ~FromStdin(JobsAsked[m])}}
  BY <1>1 DEF Range
<1>3. AskedOf(k) = UNION {TextsAsked(j) : j \in R \ F}
  BY <1>2 DEF AskedOf
<1>4. AskedSoFar = UNION {TextsAsked(j) : j \in F}
  <2>1. CASE StdinAsked
    BY <2>1, AllTaken
  <2>2. CASE ~StdinAsked
    BY <2>2 DEF StdinAsked, AskedSoFar
  <2> QED BY <2>1, <2>2
<1>5. F \subseteq R
  OBVIOUS
<1> HIDE DEF R, F
<1>6. (UNION {TextsAsked(j) : j \in R \ F}) \cup (UNION {TextsAsked(j) : j \in F})
        = UNION {TextsAsked(j) : j \in R}
  BY <1>5
<1> QED BY <1>3, <1>4, <1>6 DEF Asked, R

(***************************************************************************)
(* A command line that is read as it is meant, and whose standard input    *)
(* the children share, asks for nothing else, and it comes in one part.    *)
(***************************************************************************)
LEMMA SharedIs ==
  ASSUME OptionsInv, Shared, ~Misread
  PROVE  /\ Len(JobsAsked) = 1 /\ Len(world.stdin) = 1
         /\ \A j \in Range(JobsAsked) : FromStdin(j) /\ j = JobsAsked[1]
<1>1. /\ DOMAIN JobsAsked = 1 .. Len(JobsAsked) /\ Len(JobsAsked) \in Nat \ {0}
      /\ Len(world.stdin) \in Nat
  BY JobsAskedAre, WorldIs
<1>2. PICK i \in Range(JobsAsked) : FromStdin(i)
  BY DEF Shared, StdinAsked
<1>3. ~(Len(world.stdin) + Len(JobsAsked) > 2) /\ Len(world.stdin) > 0
  BY <1>2 DEF Misread, Shared
<1>4. Len(JobsAsked) = 1 /\ Len(world.stdin) = 1
  <2>1. PICK a \in Nat \ {0}, b \in Nat : a = Len(JobsAsked) /\ b = Len(world.stdin)
    BY <1>1
  <2>2. ~(b + a > 2) /\ b > 0
    BY <1>3, <2>1
  <2>3. a = 1 /\ b = 1
    BY <2>2
  <2> QED BY <2>1, <2>3
<1>5. \A j \in Range(JobsAsked) : j = JobsAsked[1]
  BY <1>1, <1>4 DEF Range
<1> QED BY <1>2, <1>4, <1>5

(***************************************************************************)
(* A part that is taken is read in the column that was asked for.          *)
(***************************************************************************)
LEMMA MoreAsked ==
  ASSUME OptionsInv, StdinInv, world' = world, NEW k \in Kids, TookPart(k), ~Misread,
         JobsLeft(k), ColumnKept(k), child[k].jobs # <<>>, child[k].col \in Nat,
         child[k].jobs[1] # NextJob(k) => Taken > 0,
         Taken > 0 => Started(k)
  PROVE  AskedSoFar' = AskedSoFar \cup TextsIn(ColumnFor(k, child[k].jobs[1]), Head(stdin))
<1> DEFINE j == NextJob(k)
           h == child[k].jobs[1]
           c == ColumnFor(k, h)
           t == Taken
<1>1. FromStdin(h) /\ stdin # <<>> /\ stdin' = Tail(stdin)
  BY DEF TookPart
<1>2. /\ j \in Range(JobsAsked) /\ j \in WorldJobs /\ FromStdin(j)
      /\ c = IF h = j THEN j.col ELSE AbsVal(j.col)
  BY <1>1, NextIs DEF FromStdin
<1>3. j.col \in Int /\ j = [file |-> j.file, text |-> j.text, col |-> j.col]
  BY <1>2, JobsAreGood
<1>4. t \in Nat /\ t < Len(world.stdin) /\ Taken' = t + 1 /\ Head(stdin) = world.stdin[t + 1]
  BY <1>1, TakeMoves
<1>5. \A i \in Range(JobsAsked) : FromStdin(i) => i.col = j.col
  BY <1>2 DEF Misread
<1>6. JobsAsked' = JobsAsked /\ \A u : Reads(u)' = Reads(u)
  BY AskedSame
<1>7. c = IF t = 0 THEN j.col ELSE AbsVal(j.col)
  <2>1. CASE t = 0
    <3>1. h = j
      BY <2>1
    <3> QED BY <1>2, <2>1, <3>1
  <2>2. CASE t # 0 /\ h # j
    BY <1>2, <2>2
  <2>3. CASE t # 0 /\ h = j
    <3>1. h = [j EXCEPT !.col = 0]
      BY <1>4, <2>3 DEF Started
    <3>2. h.col = 0
      BY <1>3, <3>1
    <3>3. j.col = 0
      BY <2>3, <3>2
    <3> QED BY <1>2, <2>3, <3>3, AbsIs
  <2> QED BY <2>1, <2>2, <2>3
<1> HIDE DEF t, j, c, h
<1>8. TextsIn(j.col, Reads(t + 1)) =
        TextsIn(j.col, Reads(t)) \cup TextsIn(c, Head(stdin))
  <2>1. world.stdin \in Seq(Seq(Seq(STRING)) \ {<<>>})
    BY WorldIs
  <2> QED BY <1>3, <1>4, <1>7, <2>1, ReadMore
<1>9. AskedSoFar = TextsIn(j.col, Reads(t))
  BY <1>2, <1>5 DEF AskedSoFar, t
<1>10. AskedSoFar' = TextsIn(j.col, Reads(t + 1))
  <2>1. AskedSoFar' = UNION {TextsIn(i.col, Reads(t + 1)) : i \in {i \in Range(JobsAsked) : FromStdin(i)}}
    BY <1>4, <1>6 DEF AskedSoFar, FromStdin, Reads
  <2> QED BY <1>2, <1>5, <2>1
<1> QED BY <1>8, <1>9, <1>10 DEF c, h

(***************************************************************************)
(* A job that is not about the standard input is done as it was asked.     *)
(***************************************************************************)
LEMMA JobDone ==
  ASSUME OptionsInv, world' = world, NEW k \in Kids, DidFormula(k) \/ DidFile(k), ~Misread,
         JobsLeft(k), ColumnKept(k), child[k].jobs # <<>>, child[k].col \in Nat
  PROVE  /\ ~FromStdin(NextJob(k))
         /\ \E formulas \in Seq(Formulas) :
              /\ child'[k].formulas = child[k].formulas \o formulas
              /\ Range(formulas) = TextsAsked(NextJob(k)) \cap Formulas
<1> DEFINE j == NextJob(k)
           h == child[k].jobs[1]
           c == ColumnFor(k, h)
<1>1. /\ j \in WorldJobs /\ h.file = j.file /\ h.text = j.text /\ FromStdin(h) = FromStdin(j)
      /\ h = j \/ Started(k)
      /\ j.file => c = IF h = j THEN j.col ELSE AbsVal(j.col)
  BY NextIs
<1>2. j.col \in Int
  BY <1>1, JobsAreGood
<1>3. ~FromStdin(j)
  BY <1>1 DEF DidFormula, DidFile, FromStdin
<1> HIDE DEF j, h, c
<1>4. CASE DidFormula(k)
  <2> DEFINE p == Parsed(<<j.text>>)
  <2>1. ~j.file /\ child'[k].formulas = child[k].formulas \o p
    BY <1>1, <1>4 DEF DidFormula, FinishedJob, h
  <2>2. <<j.text>> \in Seq({j.text}) /\ Range(<<j.text>>) = {j.text}
    BY OneOrNone
  <2>3. p \in Seq(Formulas) /\ Range(p) = {j.text} \cap Formulas
    BY <2>2, ParsedIs
  <2>4. TextsAsked(j) = {j.text}
    BY <2>1 DEF TextsAsked
  <2> HIDE DEF p
  <2>5. Range(p) = TextsAsked(j) \cap Formulas
    BY <2>3, <2>4
  <2> QED BY <1>3, <2>1, <2>3, <2>5 DEF j
<1>5. CASE DidFile(k)
  <2> DEFINE p == FormulasOf(c, world.disk[j.text])
  <2>1. j.file /\ j.text \in DOMAIN world.disk /\ child'[k].formulas = child[k].formulas \o p
    BY <1>1, <1>5 DEF DidFile, FinishedJob, h, c
  <2>2. h = j /\ c = j.col
    BY <1>1, <1>3, <2>1 DEF Started, j
  <2>3. LinesOf(j) = world.disk[j.text] /\ LinesOf(j) \in Seq(Seq(STRING))
    <3>1. j.text # "-"
      BY <1>3, <2>1 DEF FromStdin
    <3>2. LinesOf(j) = world.disk[j.text]
      BY <2>1, <3>1 DEF LinesOf
    <3> QED BY <3>2, LinesAre
  <2>4. p \in Seq(Formulas) /\ Range(p) = TextsIn(j.col, LinesOf(j)) \cap Formulas
    BY <1>2, <2>2, <2>3, FormulasOfIs
  <2>5. TextsAsked(j) = TextsIn(j.col, LinesOf(j))
    BY <1>1, <2>1, JobTexts
  <2> HIDE DEF p
  <2>6. Range(p) = TextsAsked(j) \cap Formulas
    BY <2>4, <2>5
  <2> QED BY <1>3, <2>1, <2>4, <2>6 DEF j
<1> QED BY <1>4, <1>5

-----------------------------------------------------------------------------
(***************************************************************************)
(* The column that a child leaves in force when it has done a job.         *)
(***************************************************************************)
LEMMA DoneMoves ==
  ASSUME OptionsInv, world' = world, NEW k \in Kids, DidFormula(k) \/ DidFile(k) \/ DidStdin(k),
         JobsLeft(k), ColumnKept(k), child[k].jobs # <<>>, child[k].col \in Nat
  PROVE  /\ JobsLeft(k)' /\ ColumnKept(k)' /\ DoneJobs(k)' = DoneJobs(k) + 1
         /\ child'[k].jobs # <<>> => child'[k].jobs[1] = NextJob(k)'
         /\ stdin' = stdin
<1> DEFINE h == child[k].jobs[1]
<1>1. ColumnFor(k, h) \in Int
  BY NextIs
<1>2. AbsVal(ColumnFor(k, h)) # 0 => child[k].col # 0 \/ h.col # 0
  BY <1>1, AbsIs DEF ColumnFor
<1>3. PICK col, formulas :
        /\ FinishedJob(k, col, formulas)
        /\ col # 0 => child[k].col # 0 \/ h.col # 0
  BY <1>2 DEF DidFormula, DidFile, DidStdin
<1>4. stdin' = stdin
  BY <1>3 DEF FinishedJob
<1> QED BY <1>3, <1>4, FinishedMoves

(***************************************************************************)
(* What a child that has done a job was asked, apart from the standard     *)
(* input.                                                                  *)
(***************************************************************************)
LEMMA AskedMoves ==
  ASSUME world' = world, NEW k \in Kids, DoneJobs(k) \in Nat, DoneJobs(k)' = DoneJobs(k) + 1
  PROVE  AskedOf(k)' =
           AskedOf(k) \cup (IF FromStdin(NextJob(k)) THEN {} ELSE TextsAsked(NextJob(k)))
<1> DEFINE d == DoneJobs(k)
           A(n) == {m \in 1 .. n : ~FromStdin(JobsAsked[m])}
<1>1. JobsAsked' = JobsAsked /\ \A j : TextsAsked(j)' = TextsAsked(j)
  BY AskedSame
<1>2. AskedOf(k)' = UNION {TextsAsked(JobsAsked[m]) : m \in A(d + 1)}
  BY <1>1 DEF AskedOf, FromStdin
<1>3. AskedOf(k) = UNION {TextsAsked(JobsAsked[m]) : m \in A(d)}
  BY DEF AskedOf
<1>4. NextJob(k) = JobsAsked[d + 1]
  BY DEF NextJob
<1> HIDE DEF d
<1>5. 1 .. d + 1 = (1 .. d) \cup {d + 1}
  BY DEF d
<1>6. A(d + 1) = A(d) \cup (IF FromStdin(JobsAsked[d + 1]) THEN {} ELSE {d + 1})
  BY <1>5
<1> HIDE DEF A
<1>7. CASE FromStdin(JobsAsked[d + 1])
  BY <1>2, <1>3, <1>4, <1>6, <1>7
<1>8. CASE ~FromStdin(JobsAsked[d + 1])
  BY <1>2, <1>3, <1>4, <1>6, <1>8
<1> QED BY <1>7, <1>8

(***************************************************************************)
(* What a child that reads holds, it holds after its next step.            *)
(***************************************************************************)
LEMMA ReaderHolds ==
  ASSUME OptionsInv, StdinInv, UNCHANGED <<world, opts>>, NEW k \in Kids,
         DidFormula(k) \/ DidFile(k) \/ DidStdin(k) \/ TookPart(k),
         ~Misread, Holds(k), JobsLeft(k), ColumnKept(k), child[k].jobs # <<>>,
         child[k].col \in Nat, child[k].formulas \in Seq(Formulas)
  PROVE  Holds(k)'
<1> DEFINE d == DoneJobs(k)
           j == NextJob(k)
           F == child[k].formulas
<1>1. /\ JobsAsked' = JobsAsked /\ Asked' = Asked /\ Shared' = Shared
      /\ \A t : Reads(t)' = Reads(t)
  BY AskedSame
<1>2. /\ d \in Nat /\ d + 1 \in 1 .. Len(JobsAsked) /\ j \in Range(JobsAsked) /\ j = JobsAsked[d + 1]
      /\ j \in WorldJobs /\ FromStdin(child[k].jobs[1]) = FromStdin(j)
  BY NextIs DEF NextJob
<1>3. /\ Taken \in 0 .. Len(world.stdin) /\ Len(world.stdin) \in Nat
      /\ stdin = <<>> => Taken = Len(world.stdin)
  BY TakenIs
<1>4. CASE DidFormula(k) \/ DidFile(k) \/ DidStdin(k)
  <2>1. /\ JobsLeft(k)' /\ DoneJobs(k)' = d + 1 /\ stdin' = stdin
        /\ child'[k].jobs # <<>> => child'[k].jobs[1] = NextJob(k)'
    BY <1>4, DoneMoves
  <2>2. AskedOf(k)' = AskedOf(k) \cup (IF FromStdin(j) THEN {} ELSE TextsAsked(j))
    BY <1>2, <2>1, AskedMoves
  <2>3. Taken' = Taken /\ AskedSoFar' = AskedSoFar
    <3>1. Taken' = Taken
      BY <2>1 DEF Taken
    <3> QED BY <1>1, <3>1 DEF AskedSoFar, FromStdin, Reads
  <2>4. Started(k)' => child'[k].jobs[1] = NextJob(k)'
    BY <2>1 DEF Started
  <2>5. PICK G \in Seq(Formulas) :
          /\ child'[k].formulas = F \o G
          /\ Range(G) = (IF FromStdin(j) THEN {} ELSE TextsAsked(j)) \cap Formulas
    <3>1. CASE DidStdin(k)
      <4>1. FromStdin(j) /\ child'[k].formulas = F \o <<>>
        BY <1>2, <3>1 DEF DidStdin, FinishedJob
      <4>2. <<>> \in Seq(Formulas) /\ Range(<<>>) = {}
        BY OneOrNone
      <4> QED BY <4>1, <4>2
    <3>2. CASE DidFormula(k) \/ DidFile(k)
      <4>1. /\ ~FromStdin(j)
            /\ \E formulas \in Seq(Formulas) :
                 child'[k].formulas = F \o formulas /\ Range(formulas) = TextsAsked(j) \cap Formulas
        BY <3>2, JobDone
      <4> QED BY <4>1
    <3> QED BY <1>4, <3>1, <3>2
  <2>6. Range(child'[k].formulas) = Range(F) \cup Range(G)
    BY <2>5, RangeOfConcat
  <2>7. 1 .. d + 1 = (1 .. d) \cup {d + 1}
    BY <1>2
  <2>8. FromStdin(j) => Taken = Len(world.stdin)
    <3>1. FromStdin(j) => DidStdin(k)
      BY <1>4, JobDone
    <3> QED BY <1>3, <3>1 DEF DidStdin
  <2>9. CASE Shared
    <3>1. FromStdin(j)
      BY <1>2, <2>9, SharedIs
    <3>2. child'[k].formulas = F
      <4>1. F \o <<>> = F
        OBVIOUS
      <4>2. ~DidFormula(k) /\ ~DidFile(k)
        BY <3>1, JobDone
      <4> QED BY <1>4, <4>1, <4>2 DEF DidStdin, FinishedJob
    <3>3. Range(F) \in {{}, Asked \cap Formulas} /\ (F # <<>> => Taken > 0)
      BY <2>9 DEF Holds
    <3> QED BY <1>1, <2>3, <2>4, <2>9, <3>2, <3>3 DEF Holds
  <2>10. CASE ~Shared
    <3>1. /\ Range(F) = (AskedOf(k) \cup AskedSoFar) \cap Formulas
          /\ \A m \in 1 .. d : FromStdin(JobsAsked[m]) => Taken = Len(world.stdin)
          /\ Taken > 0 => Started(k) \/ \E m \in 1 .. d : FromStdin(JobsAsked[m])
      BY <2>10 DEF Holds
    <3>2. Range(child'[k].formulas) = (AskedOf(k)' \cup AskedSoFar') \cap Formulas
      BY <2>2, <2>3, <2>5, <2>6, <3>1
    <3>3. \A m \in 1 .. d + 1 : FromStdin(JobsAsked[m]) => Taken = Len(world.stdin)
      BY <1>2, <2>7, <2>8, <3>1
    <3>4. Taken > 0 => \E m \in 1 .. d + 1 : FromStdin(JobsAsked[m])
      BY <1>2, <2>7, <3>1 DEF Started
    <3> QED BY <1>1, <2>1, <2>3, <2>4, <2>10, <3>2, <3>3, <3>4 DEF Holds, FromStdin
  <2> QED BY <2>9, <2>10
<1>5. CASE TookPart(k)
  <2> DEFINE G == FormulasOf(ColumnFor(k, child[k].jobs[1]), Head(stdin))
             T == TextsIn(ColumnFor(k, child[k].jobs[1]), Head(stdin))
  <2>1. /\ FromStdin(j) /\ stdin # <<>> /\ stdin' = Tail(stdin) /\ child'[k].formulas = F \o G
    BY <1>2, <1>5 DEF TookPart
  <2>2. Taken < Len(world.stdin) /\ Taken' = Taken + 1 /\ Head(stdin) = world.stdin[Taken + 1]
        /\ Taken \in Nat
    BY <2>1, TakeMoves
  <2>3. DoneJobs(k)' = d /\ NextJob(k)' = j /\ Started(k)'
    BY <1>5, TookMoves
  <2>4. G \in Seq(Formulas) /\ Range(G) = T \cap Formulas
    <3>1. Head(stdin) \in Seq(Seq(STRING))
      <4>1. world.stdin \in Seq(Seq(Seq(STRING)) \ {<<>>})
        BY WorldIs
      <4> QED BY <2>2, <4>1, ReadsAre
    <3>2. ColumnFor(k, child[k].jobs[1]) \in Int
      BY NextIs
    <3> QED BY <3>1, <3>2, FormulasOfIs
  <2> HIDE DEF G
  <2>5. Range(child'[k].formulas) = Range(F) \cup (T \cap Formulas)
    BY <2>1, <2>4, RangeOfConcat
  <2> HIDE DEF T
  <2>6. Taken' > 0 /\ Taken' = Taken + 1
    BY <2>2
  <2>7. child[k].jobs[1] # j => Taken > 0
    BY NextIs DEF Holds
  <2>8. AskedOf(k)' = AskedOf(k)
    <3>1. \A i : TextsAsked(i)' = TextsAsked(i)
      BY AskedSame
    <3> QED BY <1>1, <2>3, <3>1 DEF AskedOf, FromStdin
  <2>9. CASE Shared
    <3>1. Taken = 0 /\ Taken' = Len(world.stdin)
      <4>1. Len(world.stdin) = 1
        BY <2>9, SharedIs
      <4>2. \A t \in Nat : t < 1 => t = 0 /\ t + 1 = 1
        OBVIOUS
      <4> QED BY <2>2, <4>1, <4>2
    <3>2. AskedSoFar' = AskedSoFar \cup T
      BY <1>5, <2>7, <3>1, MoreAsked DEF T
    <3>3. AskedSoFar = {}
      BY <3>1, NothingRead DEF AskedSoFar
    <3>4. AskedSoFar' = Asked
      <4>1. \A i \in Range(JobsAsked) : TextsAsked(i) = TextsIn(i.col, Reads(Taken + 1))
        <5> SUFFICES ASSUME NEW i \in Range(JobsAsked)
                     PROVE  TextsAsked(i) = TextsIn(i.col, Reads(Taken + 1))
          OBVIOUS
        <5>1. FromStdin(i) /\ i \in WorldJobs
          BY <2>9, SharedIs, JobsAskedAre, HeadAndTail
        <5> QED BY <2>6, <3>1, <5>1, JobTexts
      <4>2. \A i \in Range(JobsAsked) : FromStdin(i)
        BY <2>9, SharedIs
      <4>3. AskedSoFar' = UNION {TextsIn(i.col, Reads(Taken + 1)) : i \in {i \in Range(JobsAsked) : FromStdin(i)}}
        BY <1>1, <2>6 DEF AskedSoFar, FromStdin, Reads
      <4> QED BY <4>1, <4>2, <4>3 DEF Asked
    <3>5. F = <<>>
      BY <2>9, <3>1 DEF Holds
    <3>6. Range(child'[k].formulas) = Asked \cap Formulas
      <4>1. Range(F) = {}
        BY <3>5, OneOrNone
      <4> QED BY <2>5, <3>2, <3>3, <3>4, <4>1
    <3> QED BY <1>1, <2>6, <2>9, <3>6 DEF Holds
  <2>10. CASE ~Shared
    <3>1. /\ Range(F) = (AskedOf(k) \cup AskedSoFar) \cap Formulas
          /\ \A m \in 1 .. d : FromStdin(JobsAsked[m]) => Taken = Len(world.stdin)
          /\ Taken > 0 => Started(k) \/ \E m \in 1 .. d : FromStdin(JobsAsked[m])
      BY <2>10 DEF Holds
    <3>2. ~ \E m \in 1 .. d : FromStdin(JobsAsked[m])
      BY <2>2, <3>1
    <3>3. AskedSoFar' = AskedSoFar \cup T
      BY <1>5, <2>7, <3>1, <3>2, MoreAsked DEF T
    <3>4. Range(child'[k].formulas) = (AskedOf(k)' \cup AskedSoFar') \cap Formulas
      BY <2>5, <2>8, <3>1, <3>3
    <3> QED BY <1>1, <2>3, <2>6, <2>10, <3>2, <3>4 DEF Holds, FromStdin
  <2> QED BY <2>9, <2>10
<1> QED BY <1>4, <1>5

-----------------------------------------------------------------------------
(***************************************************************************)
(* A child that is not forked yet or runs has not ended before.            *)
(***************************************************************************)
LEMMA KidsEnd ==
  ASSUME PhaseInv, phase = "run", [ProgramNext]_allvars, ~ParseOption, ~Adjust, NEW k \in Kids,
         kid'[k] \in {"none", "running"}
  PROVE  kid[k] \in {"none", "running"}
<1>1. CoreInv /\ kid \in [Kids -> {"none", "running", "exited", "reaped"}]
  BY DEF PhaseInv, CoreInv, TypeOK
<1>2. CASE Fork
  <2>1. toFork \in Plans /\ kid' = [kid EXCEPT ![Head(toFork)] = "running"]
    BY <1>1, <1>2 DEF Fork, CoreInv, PlanInv
  <2>2. kid[Head(toFork)] = "none"
    BY <1>1, <2>1, PlanSteps DEF CoreInv, PlanInv
  <2> QED BY <1>1, <2>1, <2>2
<1>3. CASE Unknown \/ Kill \/ Verdict \/ Abort \/ Resume \/ Signal \/ UNCHANGED vars
  BY <1>3 DEF Unknown, Kill, Verdict, Abort, Resume, Signal, vars, children
<1>4. ASSUME NEW l \in Kids, Wait(l) \/ Drain(l)
      PROVE  kid[k] \in {"none", "running"}
  BY <1>1, <1>4 DEF Wait, Drain
<1>5. ASSUME NEW l \in Kids, Ends(l)
      PROVE  kid[k] \in {"none", "running"}
  BY <1>1, <1>5 DEF Ends, End
<1> QED BY <1>2, <1>3, <1>4, <1>5, SupervisorStep DEF ParentStep

(***************************************************************************)
(* What a child that has ended its reading holds.                          *)
(***************************************************************************)
LEMMA SolvingHolds ==
  ASSUME OptionsInv, StdinInv, WorkInv, phase = "run", NEW k \in Kids, Solving(k), Holds(k), ~Misread,
         child[k].formulas \in Seq(Formulas)
  PROVE  Range(child[k].formulas) = Asked
<1> DEFINE F == child[k].formulas
<1>1. child[k].jobs = <<>> /\ F # <<>>
  BY DEF Solving, HasGame
<1>2. Asked \subseteq Formulas
  BY DEF Misread
<1>3. DoneJobs(k) = Len(JobsAsked) /\ DOMAIN JobsAsked = 1 .. Len(JobsAsked)
  <2>1. Len(JobsAsked) \in Nat /\ DOMAIN JobsAsked = 1 .. Len(JobsAsked)
    BY JobsAskedAre
  <2>2. Len(child[k].jobs) = 0
    BY <1>1
  <2> QED BY <2>1, <2>2 DEF DoneJobs
<1>4. CASE Shared
  <2>1. Range(F) \in {{}, Asked \cap Formulas}
    BY <1>4 DEF Holds
  <2>2. Range(F) # {}
    BY <1>1, HeadAndTail
  <2> QED BY <1>2, <2>1, <2>2
<1>5. CASE ~Shared
  <2>1. /\ Range(F) = (AskedOf(k) \cup AskedSoFar) \cap Formulas
        /\ \A m \in 1 .. DoneJobs(k) : FromStdin(JobsAsked[m]) => Taken = Len(world.stdin)
    BY <1>5 DEF Holds
  <2>2. StdinAsked => Taken = Len(world.stdin)
    BY <1>3, <2>1 DEF StdinAsked, Range
  <2>3. AskedOf(k) \cup AskedSoFar = Asked
    BY <1>3, <2>2, AskedIs
  <2> QED BY <1>2, <2>1, <2>3
<1> QED BY <1>4, <1>5

(***************************************************************************)
(* A step that reads nothing changes nothing of what is read.              *)
(***************************************************************************)
LEMMA OthersHold ==
  ASSUME ProgramInv, InputInv, phase = "run", [ProgramNext]_allvars, ~ParseOption, ~Adjust,
         UNCHANGED stdin,
         \A l \in Kids : UNCHANGED <<child[l].jobs, child[l].col, child[l].formulas>>,
         \A l \in Kids : child'[l].at # "read" => child[l].at # "read" \/ Solving(l),
         \A l \in Kids : child[l].at # "read" => child'[l].at # "read"
  PROVE  StdinInv' /\ KeptInv' /\ WorkInv' /\ HeldInv'
<1>1. UNCHANGED <<world, phase, opts>>
  BY OthersKeep
<1>2. /\ JobsAsked' = JobsAsked /\ Asked' = Asked /\ StdinAsked' = StdinAsked
      /\ Misread' = Misread /\ Shared' = Shared /\ Plan(opts)' = Plan(opts)
      /\ \A t : Reads(t)' = Reads(t)
  BY <1>1, AskedSame
<1>3. StdinInv' /\ Taken' = Taken
  BY <1>1 DEF InputInv, StdinInv, Taken
<1>4. KeptInv'
  BY <1>1, <1>3 DEF InputInv, KeptInv
<1>5. ASSUME NEW l \in Kids
      PROVE  /\ DoneJobs(l)' = DoneJobs(l) /\ NextJob(l)' = NextJob(l) /\ Started(l)' = Started(l)
             /\ JobsLeft(l)' = JobsLeft(l) /\ ColumnKept(l)' = ColumnKept(l)
             /\ AskedOf(l)' = AskedOf(l)
  BY <1>1, ChildSame
<1>6. WorkInv'
  BY <1>1, <1>2, <1>3, <1>5 DEF InputInv, WorkInv
<1>7. AskedSoFar' = AskedSoFar
  BY <1>1, <1>2, <1>3 DEF AskedSoFar, FromStdin, Reads
<1>8. ASSUME NEW l \in Kids, Holds(l) PROVE Holds(l)'
  <2>1. child'[l].jobs = child[l].jobs /\ child'[l].formulas = child[l].formulas
    OBVIOUS
  <2> QED BY <1>1, <1>2, <1>3, <1>5, <1>7, <1>8, <2>1 DEF Holds, FromStdin
<1>9. Listed(Plan(opts)) \subseteq Kids
  BY AskedPlan
<1>10. HeldInv'
  <2>1. SUFFICES ASSUME ~Misread, NEW l \in Listed(Plan(opts))
                 PROVE  /\ Reading(l)' => Holds(l)'
                        /\ child'[l].at # "read" => Range(child'[l].formulas) = Asked
    BY <1>2 DEF HeldInv
  <2>2. l \in Kids
    BY <1>9
  <2>3. /\ Reading(l) => Holds(l)
        /\ child[l].at # "read" => Range(child[l].formulas) = Asked
    BY <2>1 DEF InputInv, HeldInv
  <2>4. Reading(l)' => Holds(l)'
    <3>1. Reading(l)' => Reading(l)
      BY <2>2, KidsEnd DEF Reading, ProgramInv
    <3> QED BY <1>8, <2>2, <2>3, <3>1
  <2>5. ASSUME child'[l].at # "read" PROVE Range(child'[l].formulas) = Asked
    <3>1. CASE child[l].at # "read"
      BY <2>2, <2>3, <3>1
    <3>2. CASE Solving(l)
      <4>1. Holds(l)
        BY <2>3, <3>2 DEF Solving, Working, Reading
      <4>2. child[l].formulas \in Seq(Formulas)
        BY <2>2 DEF InputInv, KeptInv
      <4>3. Range(child[l].formulas) = Asked
        BY <2>1, <2>2, <3>2, <4>1, <4>2, SolvingHolds DEF InputInv, ProgramInv
      <4> QED BY <2>2, <4>3
    <3> QED BY <2>2, <2>5, <3>1, <3>2
  <2> QED BY <2>4, <2>5
<1> QED BY <1>3, <1>4, <1>6, <1>10

(***************************************************************************)
(* The children that the options ask for.                                  *)
(***************************************************************************)
LEMMA PlanIs == ProgramInv => Plan(opts) \in Plans
<1> SUFFICES ASSUME ProgramInv PROVE Plan(opts) \in Plans
  OBVIOUS
<1>1. opts.check \in {"real", "unreal", "both"} /\ opts.unreal_x \in {"formula", "automaton", "both"}
  BY DEF ProgramInv, ChoiceInv
<1> QED BY <1>1, PlanOfOptions

(***************************************************************************)
(* The same of a child that stands by while another one reads.             *)
(***************************************************************************)
LEMMA WaiterHolds ==
  ASSUME ProgramInv, InputInv, phase = "run", UNCHANGED <<world, opts>>, ~Misread,
         NEW k \in Listed(Plan(opts)), NEW l \in Listed(Plan(opts)), l # k, child'[l] = child[l],
         \/ stdin' = stdin
         \/ stdin # <<>> /\ stdin' = Tail(stdin) /\ child[k].jobs # <<>> /\ FromStdin(child[k].jobs[1]),
         Holds(l)
  PROVE  Holds(l)'
<1>0. OptionsInv /\ StdinInv /\ l \in Kids /\ k \in Kids
  BY AskedPlan DEF ProgramInv, InputInv
<1>1. /\ JobsAsked' = JobsAsked /\ Asked' = Asked /\ Shared' = Shared
      /\ \A t : Reads(t)' = Reads(t)
  BY AskedSame
<1>2. /\ DoneJobs(l)' = DoneJobs(l) /\ NextJob(l)' = NextJob(l) /\ Started(l)' = Started(l)
      /\ AskedOf(l)' = AskedOf(l)
  BY <1>0, ChildSame
<1>3. CASE stdin' = stdin
  <2>1. Taken' = Taken
    BY <1>3 DEF Taken
  <2>2. AskedSoFar' = AskedSoFar
    BY <1>1, <2>1 DEF AskedSoFar, FromStdin, Reads
  <2> QED BY <1>1, <1>2, <2>1, <2>2 DEF Holds, FromStdin
<1>4. CASE stdin # <<>> /\ stdin' = Tail(stdin) /\ child[k].jobs # <<>> /\ FromStdin(child[k].jobs[1])
  <2>1. Taken' > 0 /\ Len(world.stdin) > 0
    <3>1. Taken \in Nat /\ Taken < Len(world.stdin) /\ Taken' = Taken + 1
      BY <1>0, <1>4, TakeMoves
    <3>2. Len(world.stdin) \in Nat
      BY <1>0, WorldIs
    <3> QED BY <3>1, <3>2
  <2>2. StdinAsked
    <3>1. JobsLeft(k) /\ ColumnKept(k) /\ child[k].col \in Nat
      BY <1>0 DEF InputInv, WorkInv, KeptInv
    <3>2. NextJob(k) \in Range(JobsAsked) /\ FromStdin(NextJob(k))
      BY <1>0, <1>4, <3>1, NextIs
    <3> QED BY <3>2 DEF StdinAsked
  <2>3. Len(Plan(opts)) > 1
    <3>1. PICK m \in 1 .. Len(Plan(opts)), n \in 1 .. Len(Plan(opts)) :
            k = Plan(opts)[m] /\ l = Plan(opts)[n]
      BY DEF Listed
    <3>2. m # n
      BY <3>1
    <3>3. Len(Plan(opts)) \in Nat
      <4>1. Plan(opts) \in Plans
        BY PlanIs
      <4> QED BY <4>1 DEF Plans
    <3> QED BY <3>2, <3>3
  <2>4. Shared
    BY <2>1, <2>2, <2>3 DEF Shared
  <2> QED BY <1>1, <1>2, <2>1, <2>4 DEF Holds
<1> QED BY <1>3, <1>4

(***************************************************************************)
(* A child that reads keeps what is known of all of them.                  *)
(***************************************************************************)
LEMMA ReadStep ==
  ASSUME ProgramInv, InputInv, phase = "run", NEW k \in Kids,
         ReadFormula(k) \/ ReadFile(k) \/ ReadStdin(k)
  PROVE  StdinInv' /\ KeptInv' /\ WorkInv' /\ HeldInv'
<1>1. OptionsInv /\ ChildShape /\ StdinInv /\ KeptInv /\ WorkInv /\ HeldInv
  BY DEF ProgramInv, ChildInv, InputInv
<1>2. /\ \A l \in Kids : JobsLeft(l) /\ ColumnKept(l)
      /\ \A l \in Kids : child[l].col \in Nat /\ child[l].formulas \in Seq(Formulas)
      /\ ~StdinAsked => Taken = 0
  BY <1>1 DEF WorkInv, KeptInv
<1>3. child[k].jobs \in Seq(PartJobs)
  BY <1>2 DEF JobsLeft
<1>4. /\ Working(k, "read") /\ child[k].jobs # <<>>
      /\ \A l \in Kids \ {k} : child'[l] = child[l]
      /\ child'[k].at = child[k].at
      /\ UNCHANGED <<world, phase, args, opts>>
      /\ Failed(k) \/ DidFormula(k) \/ DidFile(k) \/ DidStdin(k) \/ TookPart(k)
  BY <1>1, <1>2, <1>3, ReadEffect
<1> DEFINE h == child[k].jobs[1]
<1>5. \/ stdin' = stdin
      \/ stdin # <<>> /\ stdin' = Tail(stdin) /\ FromStdin(h)
  BY <1>4 DEF Failed, DidFormula, DidFile, DidStdin, TookPart, FinishedJob
<1>6. FromStdin(h) => StdinAsked
  BY <1>1, <1>2, <1>4, NextIs DEF StdinAsked
<1>7. ColumnFor(k, h) \in Int
  BY <1>1, <1>2, <1>4, NextIs
<1> HIDE DEF h
<1>8. /\ JobsAsked' = JobsAsked /\ Asked' = Asked /\ StdinAsked' = StdinAsked
      /\ Misread' = Misread /\ Plan(opts)' = Plan(opts)
  BY <1>4, AskedSame
<1>9. StdinInv' /\ (StdinAsked \/ Taken' = Taken)
  <2>1. CASE stdin' = stdin
    BY <1>1, <1>4, <2>1 DEF StdinInv, Taken
  <2>2. CASE stdin # <<>> /\ stdin' = Tail(stdin) /\ FromStdin(h)
    BY <1>1, <1>4, <1>6, <2>2, TakeMoves
  <2> QED BY <1>5, <2>1, <2>2
<1>10. child'[k].col \in Nat /\ child'[k].formulas \in Seq(Formulas)
  <2>1. CASE Failed(k)
    BY <1>2, <2>1 DEF Failed
  <2>2. ASSUME NEW G \in Seq(Formulas), child'[k].formulas = child[k].formulas \o G,
               child'[k].col \in {child[k].col, AbsVal(ColumnFor(k, h))}
        PROVE  child'[k].col \in Nat /\ child'[k].formulas \in Seq(Formulas)
    BY <1>2, <1>7, <2>2, AbsIs, ConcatHolds
  <2>3. CASE DidFormula(k)
    <3>1. Parsed(<<h.text>>) \in Seq(Formulas)
      <4>1. <<h.text>> \in Seq({h.text})
        BY OneOrNone
      <4> QED BY <4>1, ParsedIs
    <3> QED BY <2>2, <2>3, <3>1 DEF DidFormula, FinishedJob, h
  <2>4. CASE DidFile(k)
    <3>1. h.text \in DOMAIN world.disk
      BY <2>4 DEF DidFile, h
    <3>2. world.disk[h.text] \in Seq(Seq(STRING))
      BY <1>1, <3>1, WorldIs
    <3>3. FormulasOf(ColumnFor(k, h), world.disk[h.text]) \in Seq(Formulas)
      BY <1>7, <3>2, FormulasOfIs
    <3> QED BY <2>2, <2>4, <3>3 DEF DidFile, FinishedJob, h
  <2>5. CASE DidStdin(k)
    <3>1. <<>> \in Seq(Formulas)
      OBVIOUS
    <3> QED BY <2>2, <2>5, <3>1 DEF DidStdin, FinishedJob, h
  <2>6. CASE TookPart(k)
    <3>1. stdin # <<>> /\ stdin' = Tail(stdin)
      BY <2>6 DEF TookPart
    <3>2. Taken \in Nat /\ Taken < Len(world.stdin) /\ Head(stdin) = world.stdin[Taken + 1]
      BY <1>1, <1>4, <3>1, TakeMoves
    <3>3. Head(stdin) \in Seq(Seq(STRING))
      <4>1. world.stdin \in Seq(Seq(Seq(STRING)) \ {<<>>})
        BY <1>1, WorldIs
      <4> QED BY <3>2, <4>1, ReadsAre
    <3>4. FormulasOf(ColumnFor(k, h), Head(stdin)) \in Seq(Formulas)
      BY <1>7, <3>3, FormulasOfIs
    <3> QED BY <2>2, <2>6, <3>4 DEF TookPart, h
  <2> QED BY <1>4, <2>1, <2>3, <2>4, <2>5, <2>6
<1>11. KeptInv'
  BY <1>2, <1>4, <1>10 DEF KeptInv
<1>12. ASSUME NEW l \in Kids PROVE JobsLeft(l)' /\ ColumnKept(l)'
  <2>1. CASE child'[l] = child[l]
    BY <1>2, <1>4, <2>1, ChildSame
  <2>2. CASE l = k /\ (DidFormula(k) \/ DidFile(k) \/ DidStdin(k))
    BY <1>1, <1>2, <1>4, <2>2, DoneMoves
  <2>3. CASE l = k /\ TookPart(k)
    BY <1>1, <1>2, <1>4, <2>3, TookMoves
  <2> QED BY <1>4, <2>1, <2>2, <2>3 DEF Failed
<1>13. WorkInv'
  <2>1. ~StdinAsked => Taken' = 0
    BY <1>2, <1>9
  <2> QED BY <1>1, <1>4, <1>8, <1>12, <2>1 DEF WorkInv
<1>14. HeldInv'
  <2>1. SUFFICES ASSUME ~Misread, NEW l \in Listed(Plan(opts))
                 PROVE  /\ Reading(l)' => Holds(l)'
                        /\ child'[l].at # "read" => Range(child'[l].formulas) = Asked
    BY <1>8 DEF HeldInv
  <2>2. l \in Kids
    BY AskedPlan
  <2>3. /\ Reading(l) => Holds(l)
        /\ child[l].at # "read" => Range(child[l].formulas) = Asked
    BY <1>1, <1>4, <2>1 DEF HeldInv
  <2>4. kid[k] = "running" /\ child[k].at = "read" /\ kid \in [Kids -> {"none", "running", "exited", "reaped"}]
    BY <1>4 DEF Working, ProgramInv, PhaseInv, CoreInv, TypeOK
  <2>5. CASE l = k
    <3>1. CASE Failed(k)
      <4>1. kid'[k] = "exited"
        BY <2>4, <3>1 DEF Failed, End
      <4> QED BY <1>4, <2>4, <2>5, <4>1 DEF Reading
    <3>2. CASE ~Failed(k)
      <4>1. Holds(k)
        BY <2>3, <2>4, <2>5 DEF Reading
      <4>2. Holds(k)'
        BY <1>1, <1>2, <1>4, <2>1, <3>2, <4>1, ReaderHolds
      <4> QED BY <1>4, <2>4, <2>5, <4>2
    <3> QED BY <3>1, <3>2
  <2>6. CASE l # k
    <3>1. child'[l] = child[l]
      BY <1>4, <2>2, <2>6
    <3>2. Reading(l)' => Reading(l)
      <4>1. End(k, 2, FALSE) \/ kid' = kid
        BY ReadingKeeps, <1>1 DEF vars, children
      <4>2. kid'[l] = kid[l]
        BY <2>2, <2>4, <2>6, <4>1 DEF End
      <4> QED BY <3>1, <4>2 DEF Reading
    <3>3. k \in Listed(Plan(opts))
      BY <2>4 DEF ProgramInv, AskedInv
    <3>4. Holds(l) => Holds(l)'
      BY <1>4, <1>5, <2>1, <2>6, <3>1, <3>3, WaiterHolds DEF h
    <3> QED BY <2>3, <3>1, <3>2, <3>4
  <2> QED BY <2>5, <2>6
<1> QED BY <1>9, <1>11, <1>13, <1>14

(***************************************************************************)
(* Every step keeps what is known of what was read.                        *)
(***************************************************************************)
LEMMA InputStep ==
  ASSUME ProgramInv, ProgramInv', InputInv, [ProgramNext]_allvars
  PROVE  InputInv'
<1>1. OptionsInv /\ PhaseInv /\ ChildInv /\ ChildShape
  BY DEF ProgramInv, ChildInv
<1>2. GivenInv'
  BY <1>1, GivenStep DEF InputInv
<1>3. CASE phase # "run" /\ UNCHANGED <<world, stdin, child>> /\ phase' # "run"
  <2>1. StdinInv' /\ Taken' = Taken
    BY <1>3 DEF InputInv, StdinInv, Taken
  <2> QED BY <1>2, <1>3, <2>1 DEF InputInv, KeptInv, WorkInv, HeldInv
<1>4. CASE ParseOption
  BY <1>3, <1>4 DEF ParseOption, Refuse
<1>5. CASE Adjust
  <2>1. CASE phase' = "run"
    BY <1>1, <1>2, <1>5, <2>1, AdjustReads DEF InputInv, ProgramInv
  <2>2. CASE phase' # "run"
    BY <1>3, <1>5, <2>2 DEF Adjust, Refuse
  <2> QED BY <2>1, <2>2
<1>6. CASE ~ParseOption /\ ~Adjust
  <2>1. UNCHANGED <<world, phase, args, opts>>
    BY <1>6, OthersKeep
  <2>2. ASSUME NEW k \in Kids, ReadFormula(k) \/ ReadFile(k) \/ ReadStdin(k) PROVE InputInv'
    <3>1. phase = "run"
      BY <2>2 DEF ReadFormula, ReadFile, ReadStdin, Working
    <3> QED BY <1>2, <2>2, <3>1, ReadStep DEF InputInv
  <2>3. ASSUME ~ \E k \in Kids : ReadFormula(k) \/ ReadFile(k) \/ ReadStdin(k)
        PROVE  UNCHANGED stdin
    <3>1. ASSUME NEW k \in Kids,
                 Unsolvable(k) \/ GiveUp(k) \/ Win(k) \/ OpenOutput(k) \/ CloseOutput(k) \/ Exit(k)
          PROVE  UNCHANGED stdin
      BY <3>1 DEF Unsolvable, GiveUp, Win, OpenOutput, CloseOutput, Exit, program
    <3>2. ASSUME UNCHANGED program \/ UNCHANGED allvars PROVE UNCHANGED stdin
      BY <3>2 DEF program, allvars
    <3> QED BY <1>6, <2>3, <3>1, <3>2 DEF ProgramNext, MainStep, ChildStep
  <2>4. ASSUME UNCHANGED <<child, stdin>> PROVE InputInv'
    <3>1. CASE phase = "run"
      BY <1>2, <1>6, <2>4, <3>1, OthersHold DEF InputInv
    <3> QED BY <1>3, <2>1, <2>4, <3>1
  <2>5. ASSUME NEW k \in Kids, Win(k) \/ OpenOutput(k) \/ CloseOutput(k), UNCHANGED stdin
        PROVE  InputInv'
    <3>1. phase = "run"
      BY <2>5 DEF Win, Solving, OpenOutput, CloseOutput, Working
    <3>2. /\ child'[k].formulas = child[k].formulas
          /\ \A l \in Kids \ {k} : child'[l] = child[l]
          /\ child'[k].at # "read"
          /\ child[k].at # "read" \/ Solving(k)
      BY <1>1, <2>5, WritingKeeps DEF Win
    <3>3. child'[k].jobs = child[k].jobs /\ child'[k].col = child[k].col
      <4>1. child[k] = [f \in ChildFields |-> child[k][f]]
        BY <1>1 DEF ChildShape
      <4>2. ASSUME NEW at, NEW outputs, NEW game,
                   child' = [child EXCEPT ![k] = [child[k] EXCEPT !.at = at, !.outputs = outputs, !.game = game]]
            PROVE  child'[k].jobs = child[k].jobs /\ child'[k].col = child[k].col
        BY <1>1, <4>1, <4>2 DEF ChildShape, ChildFields
      <4>3. CASE Win(k)
        <5>1. PICK outputs, game :
                child' = [child EXCEPT ![k].at = "output", ![k].outputs = outputs, ![k].game = game]
          BY <4>3 DEF Win
        <5> QED BY <1>1, <4>2, <5>1 DEF ChildShape
      <4>4. CASE OpenOutput(k) \/ CloseOutput(k)
        <5>1. PICK at, outputs : child' = [child EXCEPT ![k].at = at, ![k].outputs = outputs]
                                 \/ child' = [child EXCEPT ![k].at = at]
          BY <4>4 DEF OpenOutput, CloseOutput
        <5> DEFINE c == [child[k] EXCEPT !.at = at, !.outputs = outputs]
                   d == [child[k] EXCEPT !.at = at]
        <5>2. child' = [child EXCEPT ![k] = c] \/ child' = [child EXCEPT ![k] = d]
          BY <1>1, <5>1 DEF ChildShape
        <5>3. c.jobs = child[k].jobs /\ c.col = child[k].col /\ d.jobs = child[k].jobs /\ d.col = child[k].col
          BY <4>1 DEF ChildFields
        <5> HIDE DEF c, d
        <5> QED BY <1>1, <5>2, <5>3 DEF ChildShape
      <4> QED BY <2>5, <4>3, <4>4
    <3>4. \A l \in Kids : UNCHANGED <<child[l].jobs, child[l].col, child[l].formulas>>
      BY <3>2, <3>3
    <3>5. /\ \A l \in Kids : child'[l].at # "read" => child[l].at # "read" \/ Solving(l)
          /\ \A l \in Kids : child[l].at # "read" => child'[l].at # "read"
      BY <3>2
    <3> QED BY <1>2, <1>6, <2>5, <3>1, <3>4, <3>5, OthersHold DEF InputInv
  <2> QED BY <1>6, <2>2, <2>3, <2>4, <2>5, ChildSteps
<1> QED BY <1>4, <1>5, <1>6

-----------------------------------------------------------------------------
(***************************************************************************)
(* The inductive invariant, with what is known of the options and of what  *)
(* was read.                                                               *)
(***************************************************************************)
TypesInv ==
  /\ TypeOK
  /\ {opts.K, opts.Kmin, opts.Kinc} \subseteq 0 .. UMax
  /\ phase = "parse" => toFork = <<>>
  /\ phase = "run" => args = <<>>

(***************************************************************************)
(* It holds before the first option is parsed.                             *)
(***************************************************************************)
LEMMA InitInput == ProgramInit => InputInv /\ TypesInv
<1> SUFFICES ASSUME ProgramInit PROVE InputInv /\ TypesInv
  OBVIOUS
<1>1. /\ phase = "parse" /\ stdin = world.stdin /\ OptionsInv
      /\ \A k \in Kids : child[k].col = 0 /\ child[k].formulas = <<>>
  BY InitOptions DEF ProgramInit
<1>2. StdinInv /\ Taken = 0
  <2>1. world.stdin \in Seq(Seq(Seq(STRING)) \ {<<>>})
    BY <1>1, WorldIs
  <2>2. Len(world.stdin) \in Nat
    BY <2>1
  <2> DEFINE s == world.stdin
             N == Len(s)
  <2>3. s = [n \in 1 .. N |-> s[n]]
    <3> DEFINE S == Seq(Seq(STRING)) \ {<<>>}
    <3>1. s \in Seq(S)
      BY <2>1
    <3> HIDE DEF s, S
    <3> QED BY <3>1
  <2> HIDE DEF s
  <2>4. \A n \in 1 .. N : N - N + n = n
    BY <2>2 DEF s
  <2>5. N \in 0 .. N /\ N - N = 0
    BY <2>2 DEF s
  <2>6. s = [n \in 1 .. N |-> s[N - N + n]]
    BY <2>3, <2>4
  <2> QED BY <1>1, <2>5, <2>6 DEF StdinInv, Taken, s
<1>3. KeptInv
  <2>1. <<>> \in Seq(Formulas) /\ 0 \in Nat
    OBVIOUS
  <2>2. \A k \in Kids : child[k].col \in Nat /\ child[k].formulas \in Seq(Formulas)
    BY <1>1, <2>1
  <2> QED BY <1>1, <1>2, <2>2 DEF KeptInv
<1>4. InputInv
  BY <1>1, <1>2, <1>3, InitGiven DEF InputInv, WorkInv, HeldInv
<1>5. TypeOK /\ toFork = <<>>
  <2>1. ret \in 0 .. 3 /\ code \in [Kids -> -1 .. 3]
    <3>1. 3 \in 0 .. 3 /\ 3 \in -1 .. 3
      OBVIOUS
    <3>2. ret = 3 /\ code = [k \in Kids |-> 3]
      BY DEF ProgramInit
    <3> QED BY <3>1, <3>2
  <2> QED BY <2>1 DEF ProgramInit, TypeOK
<1>6. {opts.K, opts.Kmin, opts.Kinc} \subseteq 0 .. UMax
  <2>1. UMax \in Nat /\ UMax >= 11
    BY ProgramAssumption
  <2>2. opts.K = 11 /\ opts.Kmin = UMax /\ opts.Kinc = 0
    BY DEF ProgramInit, Defaults
  <2> QED BY <2>1, <2>2
<1> QED BY <1>1, <1>4, <1>5, <1>6 DEF TypesInv

(***************************************************************************)
(* What is stored of a number is an unsigned.                              *)
(***************************************************************************)
LEMMA StoreNumbers ==
  ASSUME OptionsInv, {opts.K, opts.Kmin, opts.Kinc} \subseteq 0 .. UMax, NEW o \in Range(world.args)
  PROVE  LET s == Store(opts, o) IN {s.K, s.Kmin, s.Kinc} \subseteq 0 .. UMax
<1>1. UMax \in Nat /\ UMax + 1 \in Nat \ {0}
  BY ProgramAssumption
<1>2. /\ o.key \in OptionKeys
      /\ o.key \in {"K", "Kmin", "Kinc"} => o.val \in -(UMax + 1) \div 2 .. UMax \div 2
  BY ProgramAssumption DEF OptionsInv, IsWorld, Range
<1>3. o.key \in {"K", "Kmin", "Kinc"} => Unsigned(o.val) \in 0 .. UMax
  <2>1. o.key \in {"K", "Kmin", "Kinc"} => o.val \in Int
    BY <1>2
  <2>2. \A n \in Int : n % (UMax + 1) \in 0 .. UMax
    BY <1>1
  <2> QED BY <2>1, <2>2 DEF Unsigned
<1>4. opts = [f \in OptionNames |-> opts[f]]
  BY DEF OptionsInv, IsOptions
<1> DEFINE s == Store(opts, o)
<1>5. CASE o.key \in {"K", "Kmin", "Kinc"}
  <2>1. s = [opts EXCEPT ![o.key] = Unsigned(o.val)]
    BY <1>5 DEF Store
  <2> HIDE DEF s
  <2>2. \A f \in {"K", "Kmin", "Kinc"} : s[f] = IF f = o.key THEN Unsigned(o.val) ELSE opts[f]
    BY <1>4, <2>1 DEF OptionNames
  <2> QED BY <1>3, <1>5, <2>2 DEF s
<1>6. CASE o.key \notin {"K", "Kmin", "Kinc"}
  <2>1. \E f \in OptionNames \ {"K", "Kmin", "Kinc"} : \E v : s = [opts EXCEPT ![f] = v]
    <3>1. o.key \in {"f", "F"} => s = [opts EXCEPT !["jobs"] = Append(opts.jobs, Job(o))]
      BY DEF Store
    <3>2. o.key = "unreal-x" => s = [opts EXCEPT !["unreal_x"] = o.val]
      BY DEF Store
    <3>3. o.key = "init" => s = [opts EXCEPT !["init"] = TRUE]
      BY DEF Store
    <3>4. o.key \in {"check", "synth", "winreg"} => s = [opts EXCEPT ![o.key] = o.val]
      BY DEF Store
    <3>5. o.key \in {"ins", "outs"} => s = [opts EXCEPT ![o.key] = opts[o.key] \cup o.val]
      BY DEF Store
    <3> HIDE DEF s
    <3> QED BY <1>2, <1>6, <3>1, <3>2, <3>3, <3>4, <3>5 DEF OptionNames, OptionKeys
  <2> HIDE DEF s
  <2>2. \A f \in {"K", "Kmin", "Kinc"} : s[f] = opts[f]
    BY <1>4, <2>1 DEF OptionNames
  <2> QED BY <2>2 DEF s
<1> QED BY <1>5, <1>6

(***************************************************************************)
(* Every step keeps the types.                                             *)
(***************************************************************************)
LEMMA TypesStep ==
  ASSUME ProgramInv, ProgramInv', TypesInv, [ProgramNext]_allvars
  PROVE  TypesInv'
<1>1. OptionsInv /\ PhaseInv /\ PhaseInv'
  BY DEF ProgramInv
<1>2. ASSUME phase' = "run" PROVE TypeOK'
  BY <1>1, <1>2 DEF PhaseInv, CoreInv
<1>3. ASSUME NEW status \in {2, 3}, phase = "parse", Refuse(status) PROVE TypesInv'
  <2>1. /\ phase' = "refused" /\ mpc' = "done" /\ ret' = status /\ opts' = opts
        /\ UNCHANGED <<realizable, toFork, why, ignoring, signalled, printed, children>>
    BY <1>3 DEF Refuse
  <2>2. TypeOK'
    <3>1. ret' \in 0 .. 3
      BY <2>1
    <3> QED BY <2>1, <3>1 DEF TypesInv, TypeOK, children
  <2> QED BY <2>1, <2>2 DEF TypesInv
<1>4. CASE ParseOption
  <2>1. CASE Refuse(3)
    BY <1>3, <1>4, <2>1 DEF ParseOption
  <2>2. CASE ~Refuse(3)
    <3>1. /\ phase = "parse" /\ args # <<>> /\ opts' = Store(opts, Head(args)) /\ phase' = phase
          /\ UNCHANGED vars
      BY <1>4, <2>2 DEF ParseOption
    <3>2. Head(args) \in Range(world.args)
      BY <1>1, <3>1, HeadAndTail DEF OptionsInv
    <3>3. {opts'.K, opts'.Kmin, opts'.Kinc} \subseteq 0 .. UMax
      BY <1>1, <3>1, <3>2, StoreNumbers DEF TypesInv
    <3>4. TypeOK' /\ toFork' = toFork
      BY <3>1 DEF TypesInv, TypeOK, vars, parent, children
    <3> QED BY <3>1, <3>3, <3>4 DEF TypesInv
  <2> QED BY <2>1, <2>2
<1>5. CASE Adjust
  <2>1. phase = "parse" /\ args = <<>>
    BY <1>5 DEF Adjust
  <2>2. CASE Refuse(2) \/ Refuse(3)
    BY <1>3, <2>1, <2>2
  <2>3. CASE ~Refuse(2) /\ ~Refuse(3)
    <3> DEFINE s == [opts EXCEPT !.jobs = IF @ = <<>> THEN <<StdinJob>> ELSE @,
                                 !.Kmin = IF @ = UMax THEN opts.K ELSE @]
    <3>1. phase' = "run" /\ opts' = s /\ args' = args
      BY <1>5, <2>3 DEF Adjust
    <3>2. s.K = opts.K /\ s.Kinc = opts.Kinc /\ s.Kmin \in {opts.K, opts.Kmin}
      BY <1>1 DEF OptionsInv, IsOptions, OptionNames
    <3> HIDE DEF s
    <3>3. {s.K, s.Kmin, s.Kinc} \subseteq 0 .. UMax
      BY <3>2 DEF TypesInv
    <3> QED BY <1>2, <2>1, <3>1, <3>3 DEF TypesInv
  <2> QED BY <2>2, <2>3
<1>6. CASE ~ParseOption /\ ~Adjust
  <2>1. UNCHANGED <<phase, args, opts>>
    BY <1>6, OthersKeep
  <2>2. CASE phase = "run"
    BY <1>2, <2>1, <2>2 DEF TypesInv
  <2>3. CASE phase # "run"
    <3>1. \A k \in Kids : kid[k] = "none"
      BY <1>1, <2>3 DEF PhaseInv, Fresh
    <3>2. UNCHANGED vars
      BY <1>6, <2>3, <3>1, SupervisorStep
    <3>3. TypeOK' /\ toFork' = toFork
      BY <3>2 DEF TypesInv, TypeOK, vars, parent, children
    <3> QED BY <2>1, <3>3 DEF TypesInv
  <2> QED BY <2>2, <2>3
<1> QED BY <1>4, <1>5, <1>6

(***************************************************************************)
(* What is known of the options and of what was read holds in every        *)
(* reachable state.                                                        *)
(***************************************************************************)
THEOREM ProgramKeepsInput == ProgramSpec => [](ProgramInv /\ InputInv /\ TypesInv)
<1>1. ProgramInit => InputInv /\ TypesInv
  BY InitInput
<1>2. ProgramInv /\ ProgramInv' /\ InputInv /\ TypesInv /\ [ProgramNext]_allvars
        => InputInv' /\ TypesInv'
  BY InputStep, TypesStep
<1> QED BY <1>1, <1>2, ProgramKeepsInvariant, PTL DEF ProgramSpec

(***************************************************************************)
(* The program keeps its types, and a child that runs has its jobs.        *)
(***************************************************************************)
THEOREM ProgramTypes == ProgramSpec => []ProgramTypeOK
<1>1. ProgramInv /\ InputInv /\ TypesInv => ProgramTypeOK
  <2> SUFFICES ASSUME ProgramInv, InputInv, TypesInv PROVE ProgramTypeOK
    OBVIOUS
  <2>1. phase = "run" => opts.jobs # <<>>
    <3>1. JobsAsked # <<>>
      BY JobsAskedAre DEF ProgramInv
    <3> QED BY <3>1 DEF InputInv, WorkInv
  <2>2. ASSUME NEW k \in Kids
        PROVE  /\ child[k].at \in {"read", "output", "writing"}
               /\ child[k].col >= 0 /\ child[k].formulas \in Seq(Formulas)
               /\ child[k].at = "writing" => child[k].outputs # <<>>
    <3>1. child[k].col \in Nat /\ child[k].formulas \in Seq(Formulas)
      BY DEF InputInv, KeptInv
    <3>2. \A n \in Nat : n >= 0
      OBVIOUS
    <3> QED BY <3>1, <3>2 DEF ProgramInv, ChildInv
  <2>3. phase \in {"parse", "run", "refused"}
    BY DEF ProgramInv, PhaseInv
  <2> QED BY <2>1, <2>2, <2>3 DEF ProgramTypeOK, TypesInv
<1> QED BY <1>1, ProgramKeepsInput, PTL

-----------------------------------------------------------------------------
(***************************************************************************)
(* The propositions listed so far, with those of the options that are not  *)
(* parsed yet, are all that the command line lists.                        *)
(***************************************************************************)
ListedIn(as, key, x) == \E n \in DOMAIN as : as[n].key = key /\ x \in as[n].val

PropsInv ==
  \A key \in {"ins", "outs"} : \A x : ListedIn(world.args, key, x) <=> x \in opts[key] \/ ListedIn(args, key, x)

(***************************************************************************)
(* Storing an option adds the propositions that it lists, and no other.    *)
(***************************************************************************)
LEMMA StoreProps ==
  ASSUME NEW s, IsOptions(s), NEW o, o.key \in OptionKeys, NEW key \in {"ins", "outs"}
  PROVE  Store(s, o)[key] = IF o.key = key THEN s[key] \cup o.val ELSE s[key]
<1>1. s = [f \in OptionNames |-> s[f]] /\ key \in OptionNames
  BY DEF IsOptions, OptionNames
<1>2. CASE o.key \in {"ins", "outs"}
  <2>1. Store(s, o) = [s EXCEPT ![o.key] = s[o.key] \cup o.val]
    BY <1>2 DEF Store
  <2> QED BY <1>1, <1>2, <2>1 DEF OptionNames
<1>3. CASE o.key \notin {"ins", "outs"}
  <2>1. \E f \in OptionNames \ {"ins", "outs"} : \E v : Store(s, o) = [s EXCEPT ![f] = v]
    <3>1. o.key \in {"f", "F"} => Store(s, o) = [s EXCEPT !["jobs"] = Append(s.jobs, Job(o))]
      BY DEF Store
    <3>2. o.key \in {"K", "Kmin", "Kinc"} => Store(s, o) = [s EXCEPT ![o.key] = Unsigned(o.val)]
      BY DEF Store
    <3>3. o.key = "unreal-x" => Store(s, o) = [s EXCEPT !["unreal_x"] = o.val]
      BY DEF Store
    <3>4. o.key = "init" => Store(s, o) = [s EXCEPT !["init"] = TRUE]
      BY DEF Store
    <3>5. o.key \in {"check", "synth", "winreg"} => Store(s, o) = [s EXCEPT ![o.key] = o.val]
      BY DEF Store
    <3> QED BY <1>3, <3>1, <3>2, <3>3, <3>4, <3>5 DEF OptionNames, OptionKeys
  <2>2. Store(s, o)[key] = s[key]
    BY <1>1, <2>1
  <2> QED BY <1>3, <2>2
<1> QED BY <1>2, <1>3

(***************************************************************************)
(* Every step keeps what is known of the propositions.                     *)
(***************************************************************************)
LEMMA PropsStep ==
  ASSUME OptionsInv, PropsInv, [ProgramNext]_allvars
  PROVE  PropsInv'
<1>1. CASE UNCHANGED <<world, args>> /\ opts'.ins = opts.ins /\ opts'.outs = opts.outs
  <2>1. \A key \in {"ins", "outs"} : opts'[key] = opts[key]
    BY <1>1
  <2> QED BY <1>1, <2>1 DEF PropsInv, ListedIn
<1>2. CASE ParseOption
  <2>1. CASE Refuse(3)
    BY <1>1, <2>1 DEF Refuse
  <2>2. CASE ~Refuse(3)
    <3> DEFINE o == Head(args)
               S == Range(world.args)
    <3>1. world' = world /\ args # <<>> /\ opts' = Store(opts, o) /\ args' = Tail(args)
      BY <1>2, <2>2 DEF ParseOption
    <3>2. args \in Seq(S) /\ IsOptions(opts) /\ world \in Worlds
      BY DEF OptionsInv
    <3>3. o \in S
      BY <3>1, <3>2
    <3>4. o.key \in OptionKeys
      BY <3>2, <3>3, ProgramAssumption DEF IsWorld, Range
    <3>5. /\ o = args[1] /\ 1 \in DOMAIN args
          /\ \A n \in DOMAIN Tail(args) : Tail(args)[n] = args[n + 1] /\ n + 1 \in DOMAIN args
          /\ \A n \in DOMAIN args : n = 1 \/ (n - 1 \in DOMAIN Tail(args) /\ Tail(args)[n - 1] = args[n])
      <4> HIDE DEF S
      <4> QED BY <3>1, <3>2
    <3> HIDE DEF o, S
    <3>6. ASSUME NEW key \in {"ins", "outs"}, NEW x
          PROVE  ListedIn(args, key, x) <=> (o.key = key /\ x \in o.val) \/ ListedIn(args', key, x)
      BY <3>1, <3>5 DEF ListedIn
    <3>7. ASSUME NEW key \in {"ins", "outs"}, NEW x
          PROVE  x \in opts'[key] <=> x \in opts[key] \/ (o.key = key /\ x \in o.val)
      BY <3>1, <3>2, <3>4, StoreProps
    <3>8. \A key, x : ListedIn(world.args, key, x)' <=> ListedIn(world.args, key, x)
      BY <3>1 DEF ListedIn
    <3>9. \A key, x : ListedIn(args, key, x)' <=> ListedIn(args', key, x)
      BY DEF ListedIn
    <3> QED BY <3>6, <3>7, <3>8, <3>9 DEF PropsInv
  <2> QED BY <2>1, <2>2
<1>3. CASE Adjust
  <2>1. CASE Refuse(2) \/ Refuse(3)
    BY <1>1, <2>1 DEF Refuse
  <2>2. CASE ~(Refuse(2) \/ Refuse(3))
    <3>1. /\ UNCHANGED <<world, args>>
          /\ opts' = [opts EXCEPT !.jobs = IF @ = <<>> THEN <<StdinJob>> ELSE @,
                                  !.Kmin = IF @ = UMax THEN opts.K ELSE @]
      BY <1>3, <2>2 DEF Adjust
    <3>2. opts'.ins = opts.ins /\ opts'.outs = opts.outs
      BY <3>1 DEF OptionsInv, IsOptions, OptionNames
    <3> QED BY <1>1, <3>1, <3>2
  <2> QED BY <2>1, <2>2
<1> QED BY <1>1, <1>2, <1>3, OthersKeep

(***************************************************************************)
(* Once the children run, the options hold the whole partition.            *)
(***************************************************************************)
LEMMA PropsAreAsked ==
  ASSUME PropsInv, args = <<>>
  PROVE  opts.ins = PropsAsked("ins") /\ opts.outs = PropsAsked("outs")
<1>1. ASSUME NEW key \in {"ins", "outs"} PROVE opts[key] = PropsAsked(key)
  <2>1. \A x : ~ListedIn(args, key, x)
    BY DEF ListedIn
  <2>2. \A x : x \in PropsAsked(key) <=> ListedIn(world.args, key, x)
    BY DEF PropsAsked, ListedIn
  <2>3. \A x : x \in opts[key] <=> x \in PropsAsked(key)
    BY <2>1, <2>2 DEF PropsInv
  <2> QED BY <2>3
<1> QED BY <1>1

(***************************************************************************)
(* A printed verdict is the truth about the formulas that the command line *)
(* asked for, all of them, with the inputs and outputs of all its lists,   *)
(* however the children that read them shared the standard input and       *)
(* whatever became of the others; provided that no child ended with an     *)
(* exception, that the command line is not one that the program reads      *)
(* otherwise than it was meant, and that every child that decided did so   *)
(* under the hypotheses of SolverExact and CompositionVerdict (Exact: no   *)
(* --init, no K that overflows), which is where it is taken to be right.   *)
(***************************************************************************)
THEOREM ProgramVerdictAboutInput == ProgramSpec => []VerdictAboutInput
<1> DEFINE AskedFor == <<Asked, PropsAsked("ins"), PropsAsked("outs")>>
<1>1. ASSUME ProgramInv, InputInv, TypesInv, PropsInv, ~Misread, phase = "run",
             NEW k \in Kids, won[k], Exact(k)
      PROVE  (k = "real") = (AskedFor \in world.realizable)
  <2>1. child[k].at # "read" /\ kid[k] # "none" /\ MayDecide(k)
    BY <1>1 DEF ProgramInv, ChildInv, Decides
  <2>2. k \in Listed(Plan(opts))
    BY <1>1, <2>1 DEF ProgramInv, AskedInv
  <2>3. Range(child[k].formulas) = Asked
    BY <1>1, <2>1, <2>2 DEF InputInv, HeldInv
  <2>4. opts.ins = PropsAsked("ins") /\ opts.outs = PropsAsked("outs")
    BY <1>1, PropsAreAsked DEF TypesInv
  <2> QED BY <1>1, <2>1, <2>3, <2>4 DEF MayDecide, SpecificationOf
<1> HIDE DEF AskedFor
<1>2. ASSUME ProgramInv, InputInv, TypesInv, PropsInv, ~Misread, printed \in {"REALIZABLE", "UNREALIZABLE"},
             \A k \in Kids : code[k] # 2, \A k \in Kids : won[k] => Exact(k)
      PROVE  (printed = "REALIZABLE") = (AskedFor \in world.realizable)
  <2>1. phase = "run" /\ StatusInv /\ ReasonInv /\ OutputInv
    BY <1>2 DEF ProgramInv, PhaseInv, Fresh, CoreInv
  <2>2. \/ printed = "REALIZABLE" /\ ret = 0
        \/ printed = "UNREALIZABLE" /\ ret \in {1, 2}
    <3>1. 1 .. 2 = {1, 2}
      OBVIOUS
    <3>2. printed = "REALIZABLE" => ret = 0
      BY <2>1 DEF OutputInv
    <3>3. printed = "UNREALIZABLE" => ret \in 1 .. 2
      BY <2>1 DEF OutputInv
    <3> QED BY <1>2, <3>1, <3>2, <3>3
  <2>3. PICK k \in Kids : kid[k] = "reaped" /\ code[k] = ret
    <3>1. ret # 3
      BY <2>2
    <3> QED BY <2>1, <3>1 DEF ReasonInv
  <2>4. ret = IF printed = "REALIZABLE" THEN 0 ELSE 1
    BY <1>2, <2>3, <2>2
  <2>5. won[k] /\ (k = "real" <=> printed = "REALIZABLE")
    BY <2>1, <2>3, <2>4 DEF StatusInv
  <2>6. (k = "real") = (AskedFor \in world.realizable)
    BY <1>1, <1>2, <2>1, <2>5
  <2>7. (printed = "REALIZABLE") = (k = "real")
    BY <2>5
  <2> QED BY <2>6, <2>7
<1>3. ProgramInv /\ InputInv /\ TypesInv /\ PropsInv => VerdictAboutInput
  BY <1>2 DEF VerdictAboutInput, AskedFor
<1>4. ProgramInit => PropsInv
  <2> SUFFICES ASSUME ProgramInit PROVE PropsInv
    OBVIOUS
  <2>1. args = world.args /\ opts = Defaults
    BY DEF ProgramInit
  <2>2. \A key \in {"ins", "outs"} : opts[key] = {}
    <3>1. opts.ins = {} /\ opts.outs = {}
      BY <2>1 DEF Defaults
    <3> QED BY <3>1
  <2> QED BY <2>1, <2>2 DEF PropsInv
<1>5. PropsInv /\ ProgramInv /\ [ProgramNext]_allvars => PropsInv'
  BY PropsStep DEF ProgramInv
<1> QED BY <1>3, <1>4, <1>5, ProgramKeepsInput, PTL DEF ProgramSpec
=============================================================================
