------------------------ MODULE CoreLifecycleProofs ------------------------
(***************************************************************************)
(* Theorems about CoreLifecycle, for any callers, instances, servers and   *)
(* entry points.                                                           *)
(***************************************************************************)
EXTENDS CoreLifecycle, TLAPS

-----------------------------------------------------------------------------
(***************************************************************************)
(* The operators that move a call along keep the type of its frame.        *)
(***************************************************************************)
LEMMA StepsFacts ==
  /\ {"idle", "startCheck", "startSet", "fail", "restartCheck", "restartFind",
      "restartSet", "convert", "default", "options"} \subseteq Steps
  /\ ServiceSteps \cup StopSteps \cup AlertSteps \cup ReloadSteps \subseteq Steps
BY DEF Steps

LEMMA RequestFacts == NoRequest \in Request /\ ReloadRequest \in Request
BY DEF Request, NoRequest, ReloadRequest

LEMMA ResumeType ==
  ASSUME FrameOK, NEW c \in Caller, NEW step \in Steps, Resume(c, step)
  PROVE  FrameOK'
BY RequestFacts, StepsFacts DEF FrameOK, Resume, Return, Goto, frame

LEMMA GotoType ==
  ASSUME FrameOK, NEW c \in Caller, NEW step \in Steps, Goto(c, step),
         UNCHANGED frame
  PROVE  FrameOK'
BY DEF FrameOK, Goto, frame

LEMMA AlertType ==
  ASSUME FrameOK, NEW c \in Caller,
         NEW step \in {"idle", "startSet", "restartSet"}, Alert(c, step)
  PROVE  FrameOK'
BY StepsFacts DEF FrameOK, Alert, Goto, AlertSteps

LEMMA AfterStopType ==
  ASSUME NEW c \in Caller, NEW ok \in BOOLEAN
  PROVE  AfterStop(c, ok) \in {"idle", "startSet", "restartSet"}
BY DEF AfterStop

-----------------------------------------------------------------------------
(***************************************************************************)
(* Type correctness.                                                       *)
(***************************************************************************)
LEMMA PanicType ==
  ASSUME CoreOK, FrameOK, NEW c \in Caller, Panic(c)
  PROVE  FrameOK' /\ crashed' \in BOOLEAN
<1>1. CASE entry[c] \in Guarded
  BY <1>1, AlertType DEF Panic, CoreOK
<1>2. CASE entry[c] \notin Guarded
  BY <1>2 DEF Panic, FrameOK, frame
<1> QED BY <1>1, <1>2

LEMMA CloseType ==
  ASSUME CoreOK, NEW outcome
  PROVE  /\ \A i \in Instance : CloseInstance(i, outcome) =>
              instance' \in [Instance -> {"off", "running", "faulty"}]
         /\ \A s \in Server : CloseServer(s, outcome) =>
              server' \in [Server -> {"off", "listening", "faulty"}]
BY DEF CoreOK, CloseInstance, CloseServer

\* The steps that several operations share.
LEMMA TestType ==
  ASSUME StateOK, NEW c \in Caller, NEW at, NEW condition,
         NEW yes \in Steps, NEW no \in Steps, Test(c, at, condition, yes, no)
  PROVE  StateOK'
<1>1. FrameOK'
  BY ResumeType DEF Test, StateOK
<1> QED BY <1>1 DEF Test, CoreOK, StateOK, shared, settings, things, ends

LEMMA StatusType ==
  ASSUME StateOK, NEW c \in Caller, NEW at, NEW state \in States,
         NEW next \in Steps, Status(c, at, state, next)
  PROVE  StateOK'
<1>1. FrameOK'
  BY ResumeType DEF Status, StateOK
<1> QED BY <1>1 DEF Status, CoreOK, StateOK, settings, things, ends

LEMMA DeactivateType ==
  ASSUME StateOK, NEW c \in Caller, NEW at, NEW next \in Steps,
         Deactivate(c, at, next)
  PROVE  StateOK'
<1>1. FrameOK'
  BY GotoType DEF Deactivate, StateOK
<1> QED BY <1>1 DEF Deactivate, CoreOK, StateOK, things, ends

LEMMA DetachType ==
  ASSUME StateOK, NEW c \in Caller, NEW at, NEW some \in Steps,
         NEW none \in Steps, Detach(c, at, some, none)
  PROVE  StateOK'
<1>1. FrameOK'
  BY GotoType DEF Detach, StateOK
<1>2. attached' \in [Server -> Instance \cup {Nil}]
  BY DEF Detach, CoreOK, StateOK
<1> QED BY <1>1, <1>2 DEF Detach, CoreOK, StateOK, shared, settings, ends

LEMMA CloseBoxType ==
  ASSUME StateOK, NEW c \in Caller, NEW at, NEW some \in Steps,
         NEW none \in Steps, CloseBox(c, at, some, none)
  PROVE  StateOK'
<1>1. FrameOK'
  BY GotoType DEF CloseBox, StateOK
<1>2. instance' \in [Instance -> {"off", "running", "faulty"}]
  BY CloseType DEF CloseBox, CoreOK, StateOK
<1> QED BY <1>1, <1>2 DEF CloseBox, CoreOK, StateOK, shared, settings, ends

LEMMA ClearBoxType ==
  ASSUME StateOK, NEW c \in Caller, NEW at, NEW next \in Steps,
         ClearBox(c, at, next)
  PROVE  StateOK'
<1>1. FrameOK'
  BY GotoType DEF ClearBox, StateOK
<1> QED BY <1>1 DEF ClearBox, CoreOK, StateOK, settings, things, ends

LEMMA ForgetServerType ==
  ASSUME StateOK, NEW c \in Caller, NEW at, NEW next \in Steps,
         ForgetServer(c, at, next)
  PROVE  StateOK'
<1>1. FrameOK'
  BY GotoType DEF ForgetServer, StateOK
<1> QED BY <1>1 DEF ForgetServer, CoreOK, StateOK, settings, things, ends

\* A call begins.
LEMMA CallType ==
  ASSUME StateOK, NEW c \in Caller, Call(c)
  PROVE  StateOK'
<1>0. PICK e \in EntryPoint : \E r \in RequestsOf(e) :
        /\ Goto(c, FirstStep[e])
        /\ entry' = [entry EXCEPT ![c] = e]
        /\ req' = [req EXCEPT ![c] = r]
  BY DEF Call, Begin
<1>1. PICK r \in RequestsOf(e) :
        /\ Goto(c, FirstStep[e])
        /\ entry' = [entry EXCEPT ![c] = e]
        /\ req' = [req EXCEPT ![c] = r]
  BY <1>0
<1>2. r \in Request
  BY EntryAssumption, RequestFacts DEF RequestsOf
<1>3. FirstStep[e] \in Steps
  BY EntryAssumption, StepsFacts
     DEF EntryPoints, FirstStep, ServiceSteps, StopSteps, ReloadSteps
<1>4. FrameOK'
  BY <1>1, <1>2, <1>3 DEF Call, Begin, FrameOK, StateOK, Goto
<1> QED BY <1>4 DEF Call, Begin, CoreOK, StateOK, shared, settings, things, ends

LEMMA StartStepType ==
  ASSUME StateOK, NEW c \in Caller, StartSteps(c)
  PROVE  StateOK'
<1>1. CASE StartCheck(c)
  BY <1>1, TestType, StepsFacts DEF StartCheck, StopSteps
<1>2. CASE StartSet(c)
  BY <1>2, StatusType, StepsFacts DEF StartSet, ServiceSteps, States
<1> QED BY <1>1, <1>2 DEF StartSteps

LEMMA ServiceStepType ==
  ASSUME StateOK, NEW c \in Caller, ServiceStep(c)
  PROVE  StateOK'
<1> USE StepsFacts DEF ServiceSteps, StateOK
<1>1. CASE Load(c)
  <2>1. FrameOK'
    BY <1>1, GotoType DEF Load
  <2> QED BY <1>1, <2>1 DEF Load, CoreOK, shared, settings, things, ends
<1>2. CASE Build(c)
  <2>1. FrameOK' /\ crashed' \in BOOLEAN
    BY <1>2, GotoType, PanicType DEF Build, CoreOK
  <2>2. tunnelServiceRunning' \in BOOLEAN
    BY <1>2 DEF Build, CoreOK
  <2> QED BY <1>2, <2>1, <2>2 DEF Build, CoreOK, things
<1>3. CASE Serve(c)
  <2>1. FrameOK'
    BY <1>3, GotoType DEF Serve
  <2>2. /\ oldCommandServer' \in Server \cup {Nil}
        /\ server' \in [Server -> {"off", "listening", "faulty"}]
    BY <1>3 DEF Serve, CoreOK
  <2> QED BY <1>3, <2>1, <2>2 DEF Serve, CoreOK, settings, ends
<1>4. CASE Run(c)
  <2>1. FrameOK'
    BY <1>4 DEF Run, FrameOK, Goto
  <2>2. instance' \in [Instance -> {"off", "running", "faulty"}]
    BY <1>4 DEF Run, CoreOK
  <2> QED BY <1>4, <2>1, <2>2 DEF Run, CoreOK, shared, settings, ends
<1>5. CASE Publish(c)
  <2>1. FrameOK'
    BY <1>5 DEF Publish, FrameOK, Goto
  <2> QED BY <1>5, <2>1 DEF Publish, CoreOK, FrameOK, settings, things, ends
<1>6. CASE Attach(c)
  <2>1. FrameOK' /\ crashed' \in BOOLEAN
    BY <1>6, GotoType, PanicType DEF Attach, CoreOK
  <2>2. attached' \in [Server -> Instance \cup {Nil}]
    BY <1>6 DEF Attach, CoreOK
  <2> QED BY <1>6, <2>1, <2>2 DEF Attach, CoreOK, shared, settings
<1>7. CASE Started(c)
  BY <1>7, StatusType DEF Started, States
<1>8. CASE Fail(c)
  <2>1. FrameOK'
    BY <1>8, AlertType DEF Fail
  <2> QED BY <1>8, <2>1 DEF Fail, CoreOK, States, settings, things, ends
<1> QED
  BY <1>1, <1>2, <1>3, <1>4, <1>5, <1>6, <1>7, <1>8 DEF ServiceStep

LEMMA AlertStepType ==
  ASSUME StateOK, NEW c \in Caller, AlertStep(c)
  PROVE  StateOK'
<1> USE StepsFacts DEF AlertSteps
<1>1. CASE AlertStatus(c)
  BY <1>1, StatusType DEF AlertStatus, States
<1>2. CASE AlertDeactivate(c)
  BY <1>2, DeactivateType DEF AlertDeactivate
<1>3. CASE AlertDetach(c)
  BY <1>3, DetachType DEF AlertDetach
<1>4. CASE AlertClose(c)
  BY <1>4, CloseBoxType DEF AlertClose
<1>5. CASE AlertClear(c)
  BY <1>5, ClearBoxType DEF AlertClear
<1>6. CASE AlertServer(c)
  <2>1. FrameOK'
    BY <1>6, ResumeType DEF AlertServer, StateOK, FrameOK
  <2>2. server' \in [Server -> {"off", "listening", "faulty"}]
    BY <1>6, CloseType DEF AlertServer, StateOK, CoreOK
  <2> QED BY <1>6, <2>1, <2>2
          DEF AlertServer, StateOK, CoreOK, shared, settings, ends
<1> QED BY <1>1, <1>2, <1>3, <1>4, <1>5, <1>6 DEF AlertStep

LEMMA StopStepType ==
  ASSUME StateOK, NEW c \in Caller, StopStep(c)
  PROVE  StateOK'
<1> USE StepsFacts, AfterStopType DEF StopSteps
<1>1. CASE StopCheck(c)
  BY <1>1, TestType DEF StopCheck
<1>2. CASE StopFind(c)
  BY <1>2, TestType DEF StopFind
<1>3. CASE StopSet(c)
  BY <1>3, StatusType DEF StopSet, States
<1>4. CASE StopDeactivate(c)
  BY <1>4, DeactivateType DEF StopDeactivate
<1>5. CASE StopDetach(c)
  BY <1>5, DetachType DEF StopDetach
<1>6. CASE StopClose(c)
  <2>1. FrameOK'
    BY <1>6, GotoType, AlertType, ResumeType DEF StopClose, StateOK
  <2>2. /\ instance' \in [Instance -> {"off", "running", "faulty"}]
        /\ closeFailed' \in BOOLEAN
    BY <1>6, CloseType DEF StopClose, StateOK, CoreOK
  <2> QED BY <1>6, <2>1, <2>2 DEF StopClose, StateOK, CoreOK, shared, settings
<1>7. CASE StopClear(c)
  BY <1>7, ClearBoxType DEF StopClear
<1>8. CASE StopServer(c)
  <2>1. FrameOK'
    BY <1>8, GotoType, ResumeType DEF StopServer, StateOK
  <2>2. /\ server' \in [Server -> {"off", "listening", "faulty"}]
        /\ closeFailed' \in BOOLEAN
    BY <1>8, CloseType DEF StopServer, StateOK, CoreOK
  <2> QED BY <1>8, <2>1, <2>2 DEF StopServer, StateOK, CoreOK, shared, settings
<1>9. CASE StopForget(c)
  BY <1>9, ForgetServerType DEF StopForget
<1>10. CASE StopDone(c)
  BY <1>10, StatusType DEF StopDone, States
<1> QED BY <1>1, <1>2, <1>3, <1>4, <1>5, <1>6, <1>7, <1>8, <1>9, <1>10
        DEF StopStep

LEMMA OtherStepType ==
  ASSUME StateOK, NEW c \in Caller,
         RestartStep(c) \/ ReloadStep(c) \/ ConfigStep(c)
  PROVE  StateOK'
<1> USE StepsFacts DEF ServiceSteps, StopSteps, ReloadSteps
<1>1. CASE RestartCheck(c)
  BY <1>1, TestType DEF RestartCheck
<1>2. CASE RestartFind(c)
  BY <1>2, TestType DEF RestartFind
<1>3. CASE RestartSet(c)
  BY <1>3, StatusType DEF RestartSet, States
<1>4. CASE ReloadSet(c)
  BY <1>4, StatusType DEF ReloadSet, States
<1>5. CASE ReloadDetach(c)
  BY <1>5, DetachType DEF ReloadDetach
<1>6. CASE ReloadForget(c)
  BY <1>6, ForgetServerType DEF ReloadForget
<1>7. CASE ReloadClose(c)
  BY <1>7, CloseBoxType DEF ReloadClose
<1>8. CASE ReloadClear(c)
  BY <1>8, ClearBoxType DEF ReloadClear
<1>9. CASE SetOptions(c)
  <2>1. FrameOK'
    <3>1. Resume(c, "idle") \/ (Goto(c, "convert") /\ UNCHANGED frame)
      BY <1>9 DEF SetOptions, Resume
    <3> QED BY <3>1, ResumeType, GotoType DEF StateOK
  <2> QED BY <1>9, <2>1 DEF SetOptions, StateOK, CoreOK, things, ends
<1>10. CASE Convert(c)
  <2>1. FrameOK' /\ crashed' \in BOOLEAN
    <3>1. (Resume(c, "idle") /\ UNCHANGED crashed) \/ Panic(c)
      BY <1>10 DEF Convert, Resume
    <3> QED BY <3>1, ResumeType, PanicType DEF StateOK, CoreOK
  <2>2. tunnelServiceRunning' \in BOOLEAN
    BY <1>10 DEF Convert, StateOK, CoreOK
  <2> QED BY <1>10, <2>1, <2>2 DEF Convert, StateOK, CoreOK, things
<1> QED BY <1>1, <1>2, <1>3, <1>4, <1>5, <1>6, <1>7, <1>8, <1>9, <1>10
        DEF RestartStep, ReloadStep, ConfigStep

\* Every variable keeps its type, whatever the callers do.
THEOREM TypeCorrect == Spec => []TypeOK
<1>1. Init => TypeOK
  <2>1. Init => CoreOK
    <3>1. Init => /\ configOptions \in BOOLEAN
                  /\ tunnelServiceRunning \in BOOLEAN
                  /\ closeFailed \in BOOLEAN
                  /\ crashed \in BOOLEAN
      BY Zenon DEF Init
    <3> QED BY <3>1, SMT DEF Init, CoreOK, States
  <2>2. Init => FrameOK
    BY RequestFacts, StepsFacts DEF Init, FrameOK
  <2>3. Init => faults \in BOOLEAN
    BY FlagAssumption DEF Init
  <2> QED BY <2>1, <2>2, <2>3 DEF TypeOK, StateOK
<1>2. TypeOK /\ [Next]_vars => TypeOK'
  <2>1. ASSUME StateOK, NEW c \in Caller, Call(c) \/ Step(c)
        PROVE  StateOK'
    BY <2>1, CallType, StartStepType, ServiceStepType, AlertStepType,
       StopStepType, OtherStepType DEF Step
  <2>2. ASSUME StateOK, UNCHANGED vars
        PROVE  StateOK'
    BY <2>2 DEF StateOK, CoreOK, FrameOK, vars, shared, settings, things,
                frame, ends
  <2>3. ASSUME TypeOK, BuildOutside
        PROVE  StateOK'
    BY <2>3 DEF BuildOutside, TypeOK, StateOK, CoreOK, FrameOK, things, frame
  <2>4. ASSUME NEW c \in Caller, Call(c) \/ Step(c)
        PROVE  UNCHANGED faults
    BY <2>4 DEF Call, Begin, Step
  <2>5. BuildOutside => UNCHANGED faults
    BY DEF BuildOutside
  <2> QED BY <2>1, <2>2, <2>3, <2>4, <2>5 DEF Next, TypeOK, vars
<1> QED BY <1>1, <1>2, PTL DEF Spec

\* What a build outside of the core leaves alone.
Same == UNCHANGED <<coreState, box, oldCommandServer, things, pc, frame, closeFailed>>

LEMMA OutsideIsSame == BuildOutside \/ UNCHANGED vars => Same
BY DEF BuildOutside, Same, vars, shared, things, frame, ends

-----------------------------------------------------------------------------
(***************************************************************************)
(* The status never outlives the call that set it.                         *)
(*                                                                         *)
(* Both invariants are inductive as they stand: a call that leaves the     *)
(* steps between STARTING (STOPPING) and the next status sets that status, *)
(* fails to close something, or ends the process.                          *)
(***************************************************************************)

\* A step of c moves c alone.
MovesTo(c, step) == pc' = [pc EXCEPT ![c] = step]

LEMMA Moves ==
  ASSUME NEW c \in Caller, NEW step
  PROVE  /\ Resume(c, step) => MovesTo(c, step)
         /\ Goto(c, step)   => MovesTo(c, step)
         /\ Alert(c, step)  => MovesTo(c, "saStatus")
         /\ Return(c)       => MovesTo(c, "idle")
         /\ Panic(c)        => MovesTo(c, "saStatus") \/ UNCHANGED pc
BY DEF Resume, Return, Goto, Alert, Panic, MovesTo

\* The steps at which a status is pending: where c may be before and after.
KeepsPending(c, state, pending) ==
  coreState' = state =>
    \/ closeFailed' /\ state = "STOPPING"
    \/ \E step \in pending : MovesTo(c, step)
    \/ /\ coreState = state
       /\ pc[c] \notin pending
       /\ \E step \in Steps : MovesTo(c, step)
    \/ UNCHANGED pc /\ coreState = state

LEMMA PendingBringing ==
  ASSUME TypeOK, NEW c \in Caller, Call(c) \/ Step(c)
  PROVE  KeepsPending(c, "STARTING", Bringing)
<1> USE Moves, StepsFacts
    DEF KeepsPending, Bringing, ServiceSteps, StopSteps,
        AlertSteps, ReloadSteps, At, shared, settings, ends
<1>1. CASE Call(c)
  <2>1. \E step \in Steps : MovesTo(c, step)
    <3>1. PICK e \in EntryPoint : Goto(c, FirstStep[e])
      BY <1>1 DEF Call, Begin
    <3>2. FirstStep[e] \in Steps
      BY EntryAssumption
         DEF EntryPoints, FirstStep, ServiceSteps, StopSteps, ReloadSteps
    <3> QED BY <3>1, <3>2
  <2> QED BY <1>1, <2>1 DEF Call, Begin
<1>2. CASE StartSteps(c)
  BY <1>2
     DEF StartSteps, StartCheck, StartSet, Test, Status
<1>3. CASE ServiceStep(c)
  BY <1>3
     DEF ServiceStep, Load, Build, Serve, Run, Publish, Attach, Started,
         Fail, Status
<1>4. CASE AlertStep(c)
  BY <1>4
     DEF AlertStep, AlertStatus, AlertDeactivate, AlertDetach, AlertClose,
         AlertClear, AlertServer, Status, Deactivate, Detach, CloseBox, ClearBox, TypeOK,
         StateOK, FrameOK
<1>5. CASE StopStep(c)
  BY <1>5, AfterStopType
     DEF StopStep, StopCheck, StopFind, StopSet, StopDeactivate, StopDetach,
         StopClose, StopClear, StopServer, StopForget, StopDone, Test, Status,
         Deactivate, Detach, ClearBox, ForgetServer
<1>6. CASE RestartStep(c)
  BY <1>6
     DEF RestartStep, RestartCheck, RestartFind, RestartSet, Test, Status
<1>7. CASE ReloadStep(c)
  BY <1>7
     DEF ReloadStep, ReloadSet, ReloadDetach, ReloadForget, ReloadClose,
         ReloadClear, Status, Detach, CloseBox, ClearBox, ForgetServer
<1>8. CASE ConfigStep(c)
  BY <1>8
     DEF ConfigStep, SetOptions, Convert
<1> QED BY <1>1, <1>2, <1>3, <1>4, <1>5, <1>6, <1>7, <1>8 DEF Step

LEMMA PendingEnding ==
  ASSUME TypeOK, NEW c \in Caller, Call(c) \/ Step(c)
  PROVE  KeepsPending(c, "STOPPING", Ending)
<1> USE Moves, StepsFacts
    DEF KeepsPending, Ending, ServiceSteps, StopSteps,
        AlertSteps, ReloadSteps, At, shared, settings, ends
<1>1. CASE Call(c)
  <2>1. \E step \in Steps : MovesTo(c, step)
    <3>1. PICK e \in EntryPoint : Goto(c, FirstStep[e])
      BY <1>1 DEF Call, Begin
    <3>2. FirstStep[e] \in Steps
      BY EntryAssumption
         DEF EntryPoints, FirstStep, ServiceSteps, StopSteps, ReloadSteps
    <3> QED BY <3>1, <3>2
  <2> QED BY <1>1, <2>1 DEF Call, Begin
<1>2. CASE StartSteps(c)
  BY <1>2
     DEF StartSteps, StartCheck, StartSet, Test, Status
<1>3. CASE ServiceStep(c)
  BY <1>3
     DEF ServiceStep, Load, Build, Serve, Run, Publish, Attach, Started,
         Fail, Status
<1>4. CASE AlertStep(c)
  BY <1>4
     DEF AlertStep, AlertStatus, AlertDeactivate, AlertDetach, AlertClose,
         AlertClear, AlertServer, Status, Deactivate, Detach, CloseBox, ClearBox, TypeOK,
         StateOK, FrameOK
<1>5. CASE StopStep(c)
  BY <1>5, AfterStopType
     DEF StopStep, StopCheck, StopFind, StopSet, StopDeactivate, StopDetach,
         StopClose, StopClear, StopServer, StopForget, StopDone, Test, Status,
         Deactivate, Detach, ClearBox, ForgetServer
<1>6. CASE RestartStep(c)
  BY <1>6
     DEF RestartStep, RestartCheck, RestartFind, RestartSet, Test, Status
<1>7. CASE ReloadStep(c)
  BY <1>7
     DEF ReloadStep, ReloadSet, ReloadDetach, ReloadForget, ReloadClose,
         ReloadClear, Status, Detach, CloseBox, ClearBox, ForgetServer
<1>8. CASE ConfigStep(c)
  BY <1>8
     DEF ConfigStep, SetOptions, Convert
<1> QED BY <1>1, <1>2, <1>3, <1>4, <1>5, <1>6, <1>7, <1>8 DEF Step

LEMMA CloseFailedStays ==
  ASSUME TypeOK, NEW c \in Caller, Call(c) \/ Step(c), closeFailed
  PROVE  closeFailed'
BY DEF Call, Begin, Step, StartSteps, StartCheck, StartSet, ServiceStep, Load, Build,
       Serve, Run, Publish, Attach, Started, Fail, AlertStep, AlertStatus,
       AlertDeactivate, AlertDetach, AlertClose, AlertClear, AlertServer,
       StopStep, StopCheck, StopFind, StopSet, StopDeactivate, StopDetach,
       StopClose, StopClear, StopServer, StopForget, StopDone, RestartStep,
       RestartCheck, RestartFind, RestartSet, ReloadStep, ReloadSet,
       ReloadDetach, ReloadForget, ReloadClose, ReloadClear, ConfigStep,
       SetOptions, Convert, Test, Status, Deactivate, Detach, CloseBox,
       ClearBox, ForgetServer, ends

\* A pending status stays pending.
LEMMA StillPending ==
  ASSUME TypeOK, NEW c \in Caller, NEW state, NEW pending \in SUBSET Steps,
         KeepsPending(c, state, pending), coreState' = state,
         ~(closeFailed' /\ state = "STOPPING"),
         coreState = state => \E d \in Caller : pc[d] \in pending
  PROVE  \E d \in Caller : pc'[d] \in pending
BY DEF KeepsPending, MovesTo, TypeOK, StateOK, FrameOK

\* CoreState is STARTING only while some call is bringing the core up.
THEOREM StartingIsPending == Spec => []NoStrandedStarting
<1>1. Init => NoStrandedStarting
  BY DEF Init, NoStrandedStarting
<1>2. TypeOK /\ NoStrandedStarting /\ [Next]_vars => NoStrandedStarting'
  <2>1. ASSUME TypeOK, NoStrandedStarting, NEW c \in Caller, Call(c) \/ Step(c)
        PROVE  NoStrandedStarting'
    <3>1. Bringing \in SUBSET Steps
      BY StepsFacts DEF Bringing, AlertSteps
    <3> QED BY <2>1, <3>1, PendingBringing, StillPending DEF NoStrandedStarting
  <2>2. ASSUME NoStrandedStarting, Same
        PROVE  NoStrandedStarting'
    BY <2>2 DEF Same, NoStrandedStarting
  <2> QED BY <2>1, <2>2, OutsideIsSame DEF Next
<1> QED BY <1>1, <1>2, TypeCorrect, PTL DEF Spec

\* CoreState is STOPPING only while some Stop is in progress, or after a Close
\* inside Stop has failed.
THEOREM StoppingIsPending == Spec => []NoStrandedStopping
<1>1. Init => NoStrandedStopping
  BY DEF Init, NoStrandedStopping
<1>2. TypeOK /\ NoStrandedStopping /\ [Next]_vars => NoStrandedStopping'
  <2>1. ASSUME TypeOK, NoStrandedStopping, NEW c \in Caller, Call(c) \/ Step(c)
        PROVE  NoStrandedStopping'
    <3>1. Ending \in SUBSET Steps
      BY StepsFacts DEF Ending, StopSteps, AlertSteps
    <3> QED BY <2>1, <3>1, PendingEnding, StillPending, CloseFailedStays
            DEF NoStrandedStopping
  <2>2. ASSUME NoStrandedStopping, Same
        PROVE  NoStrandedStopping'
    BY <2>2 DEF Same, NoStrandedStopping
  <2> QED BY <2>1, <2>2, OutsideIsSame DEF Next
<1> QED BY <1>1, <1>2, TypeCorrect, PTL DEF Spec

-----------------------------------------------------------------------------
(***************************************************************************)
(* What Box refers to.  BoxRuns is not inductive: it needs that the        *)
(* instance a call has started, and is about to publish, is running, is    *)
(* not Box and belongs to no other call, so that nobody can close it.      *)
(***************************************************************************)
OwnInv ==
  /\ \A c \in Caller : own[c] # Nil =>
       /\ instance[own[c]] = "running"
       /\ box # own[c]
       /\ \A d \in Caller \ {c} : own[d] # own[c]
  /\ \A c \in Caller : pc[c] = "publish" => own[c] # Nil

BoxInv == OwnInv /\ BoxRuns

\* A step that leaves Box and the instances alone.
Quiet(c) ==
  /\ UNCHANGED <<box, instance>>
  /\ own' \in {own, [own EXCEPT ![c] = Nil]}
  /\ \/ UNCHANGED <<pc, own>>
     \/ \E step \in Steps \ {"publish"} : MovesTo(c, step)
  /\ pc[c] \notin Clearing
  /\ closeFailed => closeFailed'

\* A step that closes Box, if there is one.
Closes(c) ==
  /\ UNCHANGED box
  /\ \E outcome \in CloseOutcomes : CloseInstance(box, outcome)
  /\ own' \in {own, [own EXCEPT ![c] = Nil]}
  /\ box # Nil
  /\ \E step \in Steps \ {"publish"} :
       MovesTo(c, step) /\ (step \in Clearing \/ closeFailed')
  /\ closeFailed => closeFailed'

\* A step that clears Box.
Clears(c) ==
  /\ box' = Nil
  /\ UNCHANGED <<instance, own, closeFailed>>
  /\ \E step \in Steps \ {"publish"} : MovesTo(c, step)

LEMMA QuietKeeps ==
  ASSUME TypeOK, BoxInv, NEW c \in Caller, Quiet(c)
  PROVE  BoxInv'
<1>1. OwnInv'
  BY DEF Quiet, BoxInv, OwnInv, MovesTo, TypeOK, StateOK, FrameOK
<1>2. BoxRuns'
  BY DEF Quiet, BoxInv, BoxRuns, MovesTo, TypeOK, StateOK, FrameOK
<1> QED BY <1>1, <1>2 DEF BoxInv

LEMMA ClosesKeeps ==
  ASSUME TypeOK, BoxInv, NEW c \in Caller, Closes(c)
  PROVE  BoxInv'
<1>1. OwnInv'
  BY DEF Closes, CloseInstance, BoxInv, OwnInv, MovesTo, TypeOK, StateOK, CoreOK, FrameOK
<1>2. BoxRuns'
  BY DEF Closes, BoxInv, BoxRuns, MovesTo, TypeOK, StateOK, FrameOK
<1> QED BY <1>1, <1>2 DEF BoxInv

LEMMA ClearsKeeps ==
  ASSUME TypeOK, BoxInv, NEW c \in Caller, Clears(c)
  PROVE  BoxInv'
BY NilAssumption
   DEF Clears, BoxInv, OwnInv, BoxRuns, MovesTo, TypeOK, StateOK, CoreOK, FrameOK

LEMMA FrameMoves ==
  ASSUME NEW c \in Caller, NEW step \in Steps \ {"publish"}, TypeOK
  PROVE  /\ Resume(c, step) => MovesTo(c, step) /\ own' \in {own, [own EXCEPT ![c] = Nil]}
         /\ Goto(c, step) /\ UNCHANGED frame => MovesTo(c, step) /\ own' = own
         /\ Alert(c, step) => MovesTo(c, "saStatus") /\ own' = own
         /\ Return(c) => MovesTo(c, "idle") /\ own' = [own EXCEPT ![c] = Nil]
         /\ Panic(c) => /\ own' = own
                        /\ MovesTo(c, "saStatus") \/ UNCHANGED pc
BY DEF Resume, Return, Goto, Alert, Panic, MovesTo, frame

LEMMA BoxStart ==
  ASSUME TypeOK, NEW c \in Caller, StartSteps(c) \/ RestartStep(c) \/ ConfigStep(c)
  PROVE  Quiet(c)
<1> USE FrameMoves, StepsFacts DEF Quiet, Clearing, At, shared, things, ends
<1>1. CASE StartSteps(c)
  BY <1>1 DEF StartSteps, StartCheck, StartSet, Test, Status, StopSteps,
     ServiceSteps
<1>2. CASE RestartStep(c)
  BY <1>2 DEF RestartStep, RestartCheck, RestartFind, RestartSet, Test, Status,
     StopSteps, ServiceSteps
<1>3. CASE ConfigStep(c)
  BY <1>3 DEF ConfigStep, SetOptions, Convert, AlertSteps
<1> QED BY <1>1, <1>2, <1>3

LEMMA BoxAlert ==
  ASSUME TypeOK, NEW c \in Caller, AlertStep(c)
  PROVE  Quiet(c) \/ Closes(c) \/ Clears(c)
<1> USE FrameMoves, StepsFacts
    DEF Quiet, Clearing, At, shared, things, ends, AlertSteps
<1>1. CASE AlertStatus(c)
  BY <1>1 DEF AlertStatus, Status
<1>2. CASE AlertDeactivate(c)
  BY <1>2 DEF AlertDeactivate, Deactivate
<1>3. CASE AlertDetach(c)
  BY <1>3 DEF AlertDetach, Detach
<1>4. CASE AlertClose(c)
  BY <1>4 DEF AlertClose, CloseBox, Closes, frame
<1>5. CASE AlertClear(c)
  BY <1>5 DEF AlertClear, ClearBox, Clears, frame
<1>6. CASE AlertServer(c)
  BY <1>6 DEF AlertServer, TypeOK, StateOK, FrameOK
<1> QED BY <1>1, <1>2, <1>3, <1>4, <1>5, <1>6 DEF AlertStep

LEMMA BoxStop ==
  ASSUME TypeOK, NEW c \in Caller, StopStep(c)
  PROVE  Quiet(c) \/ Closes(c) \/ Clears(c)
<1> USE FrameMoves, StepsFacts, AfterStopType
    DEF Quiet, Clearing, At, shared, things, ends, StopSteps
<1>1. CASE StopCheck(c) \/ StopFind(c)
  BY <1>1 DEF StopCheck, StopFind, Test
<1>2. CASE StopSet(c) \/ StopDone(c)
  BY <1>2 DEF StopSet, StopDone, Status
<1>3. CASE StopDeactivate(c)
  BY <1>3 DEF StopDeactivate, Deactivate
<1>4. CASE StopDetach(c)
  BY <1>4 DEF StopDetach, Detach
<1>5. CASE StopClose(c)
  BY <1>5 DEF StopClose, Closes, CloseOutcomes, frame, AlertSteps
<1>6. CASE StopClear(c)
  BY <1>6 DEF StopClear, ClearBox, Clears, frame
<1>7. CASE StopServer(c)
  BY <1>7 DEF StopServer
<1>8. CASE StopForget(c)
  BY <1>8 DEF StopForget, ForgetServer
<1> QED BY <1>1, <1>2, <1>3, <1>4, <1>5, <1>6, <1>7, <1>8 DEF StopStep

LEMMA BoxReload ==
  ASSUME TypeOK, NEW c \in Caller, ReloadStep(c)
  PROVE  Quiet(c) \/ Closes(c) \/ Clears(c)
<1> USE FrameMoves, StepsFacts
    DEF Quiet, Clearing, At, shared, things, ends, ReloadSteps, ServiceSteps
<1>1. CASE ReloadSet(c)
  BY <1>1 DEF ReloadSet, Status
<1>2. CASE ReloadDetach(c)
  BY <1>2 DEF ReloadDetach, Detach
<1>3. CASE ReloadForget(c)
  BY <1>3 DEF ReloadForget, ForgetServer
<1>4. CASE ReloadClose(c)
  BY <1>4 DEF ReloadClose, CloseBox, Closes, frame
<1>5. CASE ReloadClear(c)
  BY <1>5 DEF ReloadClear, ClearBox, Clears, frame
<1> QED BY <1>1, <1>2, <1>3, <1>4, <1>5 DEF ReloadStep

LEMMA BoxService ==
  ASSUME TypeOK, BoxInv, NEW c \in Caller, ServiceStep(c)
  PROVE  BoxInv'
<1> USE FrameMoves, StepsFacts
    DEF Clearing, At, shared, things, ends, ServiceSteps, AlertSteps
<1>1. CASE Load(c) \/ Build(c) \/ Serve(c) \/ Attach(c) \/ Started(c) \/ Fail(c)
  <2>1. CASE Load(c)
    BY <1>1, <2>1, QuietKeeps DEF Load, Quiet
  <2>2. CASE Build(c)
    BY <1>1, <2>2, QuietKeeps DEF Build, Quiet, frame
  <2>3. CASE Serve(c)
    BY <1>1, <2>3, QuietKeeps DEF Serve, Quiet
  <2>4. CASE Attach(c)
    BY <1>1, <2>4, QuietKeeps DEF Attach, Quiet, frame
  <2>5. CASE Started(c)
    BY <1>1, <2>5, QuietKeeps DEF Started, Status, Quiet
  <2>6. CASE Fail(c)
    BY <1>1, <2>6, QuietKeeps DEF Fail, Quiet
  <2> QED BY <1>1, <2>1, <2>2, <2>3, <2>4, <2>5, <2>6
<1>2. CASE Run(c)
  <2>1. CASE Goto(c, "fail") /\ UNCHANGED <<instance, own>>
    BY <1>2, <2>1, QuietKeeps DEF Run, Quiet, Goto, MovesTo, TypeOK, StateOK, FrameOK
  <2>2. CASE \E i \in Instance :
               /\ FreshInstance(i)
               /\ instance' = [instance EXCEPT ![i] = "running"]
               /\ own' = [own EXCEPT ![c] = i]
               /\ Goto(c, "publish")
    <3>1. OwnInv'
      BY <1>2, <2>2, NilAssumption
         DEF Run, FreshInstance, Goto, BoxInv, OwnInv, TypeOK, StateOK, CoreOK, FrameOK
    <3>2. BoxRuns'
      BY <1>2, <2>2
         DEF Run, Goto, BoxInv, BoxRuns, TypeOK, StateOK, CoreOK, FrameOK
    <3> QED BY <3>1, <3>2 DEF BoxInv
  <2> QED BY <1>2, <2>1, <2>2 DEF Run
<1>3. CASE Publish(c)
  <2>1. OwnInv'
    BY <1>3 DEF Publish, Goto, BoxInv, OwnInv, TypeOK, StateOK, FrameOK
  <2>2. BoxRuns'
    BY <1>3 DEF Publish, BoxInv, OwnInv, BoxRuns, TypeOK, StateOK, FrameOK
  <2> QED BY <2>1, <2>2 DEF BoxInv
<1> QED BY <1>1, <1>2, <1>3 DEF ServiceStep

LEMMA BoxCall ==
  ASSUME TypeOK, BoxInv, NEW c \in Caller, Call(c)
  PROVE  BoxInv'
<1>1. PICK e \in EntryPoint : Goto(c, FirstStep[e])
  BY DEF Call, Begin
<1>2. FirstStep[e] \in Steps \ {"publish"}
  BY EntryAssumption, StepsFacts
     DEF EntryPoints, FirstStep, ServiceSteps, StopSteps, ReloadSteps
<1>3. pc[c] = "idle" /\ UNCHANGED <<shared, things, own, ends>>
  BY DEF Call, Begin, At
<1>4. Quiet(c)
  BY <1>1, <1>2, <1>3 DEF Quiet, Clearing, shared, things, ends, Goto, MovesTo
<1> QED BY <1>4, QuietKeeps

LEMMA BoxInvariant == Spec => []BoxInv
<1>1. Init => BoxInv
  BY DEF Init, BoxInv, OwnInv, BoxRuns
<1>2. TypeOK /\ BoxInv /\ [Next]_vars => BoxInv'
  <2>1. ASSUME TypeOK, BoxInv, NEW c \in Caller, Call(c) \/ Step(c)
        PROVE  BoxInv'
    BY <2>1, BoxCall, BoxService, BoxStart, BoxAlert, BoxStop, BoxReload,
       QuietKeeps, ClosesKeeps, ClearsKeeps DEF Step
  <2>2. ASSUME BoxInv, Same
        PROVE  BoxInv'
    BY <2>2 DEF Same, BoxInv, OwnInv, BoxRuns, things, frame
  <2> QED BY <2>1, <2>2, OutsideIsSame DEF Next
<1> QED BY <1>1, <1>2, TypeCorrect, PTL DEF Spec

\* Box is never left referring to an instance that was closed, however the
\* calls interleave: no call publishes an instance that is not running.
THEOREM BoxStaysUp == Spec => []BoxRuns
<1>1. BoxInv => BoxRuns
  BY DEF BoxInv
<1> QED BY <1>1, BoxInvariant, PTL

-----------------------------------------------------------------------------
(***************************************************************************)
(* A client that awaits each call.  The step at which the one call in      *)
(* progress is determines the status, so nothing closes or clears Box      *)
(* while the status is STARTED.                                            *)
(***************************************************************************)
StatusAt(c) ==
  /\ pc[c] \in ServiceSteps \cup (ReloadSteps \ {"reloadSet"}) \cup {"fail"} =>
       coreState = "STARTING"
  /\ pc[c] \in Ending \ {"saStatus"} => coreState = "STOPPING"
  /\ pc[c] \in AlertSteps \ {"saStatus"} => coreState = "STOPPED"
  /\ pc[c] \in {"attach", "started"} => Serving

SerialInv ==
  /\ \A c, d \in Caller : c # d => pc[c] = "idle" \/ pc[d] = "idle"
  /\ \A c \in Caller : StatusAt(c)
  /\ coreState = "STARTED" => Serving

\* What a step of the one active call has to establish.
Keeps(c) ==
  /\ (UNCHANGED pc /\ UNCHANGED <<coreState, box, instance>>)
       \/ \E step \in Steps : MovesTo(c, step) /\ StatusAt(c)'
  /\ (coreState = "STARTED" => Serving)'

LEMMA Busy ==
  ASSUME NEW c \in Caller, Step(c)
  PROVE  pc[c] # "idle"
BY DEF Step, StartSteps, StartCheck, StartSet, ServiceStep, Load, Build,
       Serve, Run, Publish, Attach, Started, Fail, AlertStep, AlertStatus,
       AlertDeactivate, AlertDetach, AlertClose, AlertClear, AlertServer,
       StopStep, StopCheck, StopFind, StopSet, StopDeactivate, StopDetach,
       StopClose, StopClear, StopServer, StopForget, StopDone, RestartStep,
       RestartCheck, RestartFind, RestartSet, ReloadStep, ReloadSet,
       ReloadDetach, ReloadForget, ReloadClose, ReloadClear, ConfigStep,
       SetOptions, Convert, Test, Status, Deactivate, Detach, CloseBox,
       ClearBox, ForgetServer, At

LEMMA KeepsSerial ==
  ASSUME TypeOK, SerialInv, NEW c \in Caller,
         pc[c] # "idle" \/ \A d \in Caller : pc[d] = "idle", Keeps(c)
  PROVE  SerialInv'
<1>1. \A d \in Caller \ {c} : pc[d] = "idle"
  BY DEF SerialInv
<1>2. \A d \in Caller \ {c} : pc'[d] = "idle"
  BY <1>1 DEF Keeps, MovesTo, TypeOK, StateOK, FrameOK
<1>3. \A d \in Caller \ {c} : StatusAt(d)'
  BY <1>2 DEF StatusAt, ServiceSteps, ReloadSteps, Ending, AlertSteps
<1>4. StatusAt(c)'
  BY DEF Keeps, SerialInv, StatusAt, Serving
<1> QED BY <1>2, <1>3, <1>4 DEF Keeps, SerialInv

LEMMA SerialStart ==
  ASSUME TypeOK, SerialInv, NEW c \in Caller,
         StartSteps(c) \/ RestartStep(c) \/ ConfigStep(c)
  PROVE  Keeps(c)
<1> USE Moves, StepsFacts
    DEF Keeps, SerialInv, StatusAt, Serving, At, shared, settings, things,
        MovesTo, TypeOK, StateOK, FrameOK, ServiceSteps, ReloadSteps, StopSteps, Ending,
        AlertSteps
<1>1. CASE StartSteps(c)
  BY <1>1 DEF StartSteps, StartCheck, StartSet, Test, Status
<1>2. CASE RestartStep(c)
  BY <1>2 DEF RestartStep, RestartCheck, RestartFind, RestartSet, Test, Status
<1>3. CASE ConfigStep(c)
  BY <1>3 DEF ConfigStep, SetOptions, Convert
<1> QED BY <1>1, <1>2, <1>3

LEMMA SerialAlert ==
  ASSUME TypeOK, SerialInv, NEW c \in Caller, AlertStep(c)
  PROVE  Keeps(c)
<1> USE Moves, StepsFacts
    DEF Keeps, SerialInv, StatusAt, Serving, At, shared, settings, things,
        MovesTo, TypeOK, StateOK, FrameOK, ServiceSteps, ReloadSteps, StopSteps, Ending,
        AlertSteps
<1>1. CASE AlertStatus(c)
  BY <1>1 DEF AlertStatus, Status
<1>2. CASE AlertDeactivate(c)
  BY <1>2 DEF AlertDeactivate, Deactivate
<1>3. CASE AlertDetach(c)
  BY <1>3 DEF AlertDetach, Detach
<1>4. CASE AlertClose(c)
  BY <1>4 DEF AlertClose, CloseBox
<1>5. CASE AlertClear(c)
  BY <1>5 DEF AlertClear, ClearBox
<1>6. CASE AlertServer(c)
  BY <1>6 DEF AlertServer
<1> QED BY <1>1, <1>2, <1>3, <1>4, <1>5, <1>6 DEF AlertStep

\* The steps at which the status and Box may be anything.
Free == {"idle", "startSet", "restartSet", "stopFind", "stopSet", "saStatus"}

\* A step that goes to one of them and does not disturb a box that serves.
LEMMA FreeMove ==
  ASSUME TypeOK, SerialInv, NEW c \in Caller, NEW step \in Free,
         MovesTo(c, step),
         \/ UNCHANGED <<coreState, box, instance>>
         \/ coreState' # "STARTED"
  PROVE  Keeps(c)
<1>1. step \in Steps
  BY DEF Free, Steps, StopSteps, AlertSteps
<1>2. pc'[c] = step
  BY DEF MovesTo, TypeOK, StateOK, FrameOK
<1>3. StatusAt(c)'
  BY <1>2
     DEF StatusAt, Free, ServiceSteps, ReloadSteps, Ending, AlertSteps
<1>4. (coreState = "STARTED" => Serving)'
  BY DEF SerialInv, Serving
<1> QED BY <1>1, <1>3, <1>4 DEF Keeps

LEMMA FreeAfterStop ==
  ASSUME NEW c \in Caller, NEW ok \in BOOLEAN
  PROVE  AfterStop(c, ok) \in Free
BY AfterStopType DEF Free

LEMMA SerialStop ==
  ASSUME TypeOK, SerialInv, NEW c \in Caller, StopStep(c)
  PROVE  Keeps(c)
<1>1. CASE StopCheck(c)
  <2>1. \E step \in Free : MovesTo(c, step)
    BY <1>1, FreeAfterStop, Moves DEF StopCheck, Test, Free
  <2> QED BY <1>1, <2>1, FreeMove DEF StopCheck, Test, shared, things
<1>2. CASE StopFind(c)
  <2>1. \E step \in Free : MovesTo(c, step)
    BY <1>2, FreeAfterStop, Moves DEF StopFind, Test, Free
  <2> QED BY <1>2, <2>1, FreeMove DEF StopFind, Test, shared, things
<1>3. CASE StopDone(c)
  <2>1. \E step \in Free : MovesTo(c, step)
    BY <1>3, FreeAfterStop, Moves DEF StopDone, Status
  <2> QED BY <1>3, <2>1, FreeMove DEF StopDone, Status
<1>4. CASE StopClose(c)
  <2>1. coreState' = "STOPPING"
    BY <1>4 DEF StopClose, SerialInv, StatusAt, Ending, At, shared
  <2>2. (\E step \in Free : MovesTo(c, step)) \/ MovesTo(c, "stopClear")
    BY <1>4, FreeAfterStop, Moves DEF StopClose, Free
  <2>3. ASSUME MovesTo(c, "stopClear") PROVE Keeps(c)
    BY <2>1, <2>3, StepsFacts
       DEF Keeps, StatusAt, MovesTo, TypeOK, StateOK, FrameOK, StopSteps, ServiceSteps,
           ReloadSteps, Ending, AlertSteps
  <2> QED BY <2>1, <2>2, <2>3, FreeMove
<1>5. CASE StopServer(c)
  <2>1. coreState' = "STOPPING"
    BY <1>5 DEF StopServer, SerialInv, StatusAt, Ending, At, shared
  <2>2. \/ \E step \in Free : MovesTo(c, step)
        \/ \E step \in {"stopForget", "stopDone"} : MovesTo(c, step)
    BY <1>5, FreeAfterStop, Moves DEF StopServer
  <2>3. ASSUME NEW step \in {"stopForget", "stopDone"}, MovesTo(c, step)
        PROVE  Keeps(c)
    BY <2>1, <2>3, StepsFacts
       DEF Keeps, StatusAt, MovesTo, TypeOK, StateOK, FrameOK, StopSteps, ServiceSteps,
           ReloadSteps, Ending, AlertSteps
  <2> QED BY <2>1, <2>2, <2>3, FreeMove
<1> USE Moves, StepsFacts
    DEF Keeps, SerialInv, StatusAt, Serving, At, shared, settings, things,
        MovesTo, TypeOK, StateOK, FrameOK, ServiceSteps, ReloadSteps, StopSteps, Ending,
        AlertSteps
<1>6. CASE StopSet(c)
  BY <1>6 DEF StopSet, Status
<1>7. CASE StopDeactivate(c)
  BY <1>7 DEF StopDeactivate, Deactivate
<1>8. CASE StopDetach(c)
  BY <1>8 DEF StopDetach, Detach
<1>9. CASE StopClear(c)
  BY <1>9 DEF StopClear, ClearBox
<1>10. CASE StopForget(c)
  BY <1>10 DEF StopForget, ForgetServer
<1> QED BY <1>1, <1>2, <1>3, <1>4, <1>5, <1>6, <1>7, <1>8, <1>9, <1>10
        DEF StopStep

LEMMA SerialReload ==
  ASSUME TypeOK, SerialInv, NEW c \in Caller, ReloadStep(c)
  PROVE  Keeps(c)
<1> USE Moves, StepsFacts
    DEF Keeps, SerialInv, StatusAt, Serving, At, shared, settings, things,
        MovesTo, TypeOK, StateOK, FrameOK, ServiceSteps, ReloadSteps, StopSteps, Ending,
        AlertSteps
<1>1. CASE ReloadSet(c)
  BY <1>1 DEF ReloadSet, Status
<1>2. CASE ReloadDetach(c)
  BY <1>2 DEF ReloadDetach, Detach
<1>3. CASE ReloadForget(c)
  BY <1>3 DEF ReloadForget, ForgetServer
<1>4. CASE ReloadClose(c)
  BY <1>4 DEF ReloadClose, CloseBox
<1>5. CASE ReloadClear(c)
  BY <1>5 DEF ReloadClear, ClearBox
<1> QED BY <1>1, <1>2, <1>3, <1>4, <1>5 DEF ReloadStep

LEMMA SerialService ==
  ASSUME TypeOK, BoxInv, SerialInv, NEW c \in Caller, ServiceStep(c)
  PROVE  Keeps(c)
<1> USE Moves, StepsFacts
    DEF Keeps, SerialInv, StatusAt, Serving, At, shared, settings, things,
        MovesTo, TypeOK, StateOK, FrameOK, ServiceSteps, ReloadSteps, StopSteps, Ending,
        AlertSteps
<1>1. CASE Load(c)
  BY <1>1 DEF Load
<1>2. CASE Build(c)
  <2>1. \/ UNCHANGED pc
        \/ \E step \in {"serve", "fail", "saStatus"} : MovesTo(c, step)
    BY <1>2 DEF Build
  <2>2. UNCHANGED <<coreState, box, instance>>
    BY <1>2 DEF Build
  <2> QED BY <1>2, <2>1, <2>2 DEF Build
<1>3. CASE Serve(c)
  BY <1>3 DEF Serve
<1>4. CASE Run(c)
  BY <1>4 DEF Run
<1>5. CASE Publish(c)
  BY <1>5, NilAssumption DEF Publish, BoxInv, OwnInv
<1>6. CASE Attach(c)
  BY <1>6 DEF Attach
<1>7. CASE Started(c)
  BY <1>7 DEF Started, Status
<1>8. CASE Fail(c)
  BY <1>8 DEF Fail
<1> QED BY <1>1, <1>2, <1>3, <1>4, <1>5, <1>6, <1>7, <1>8 DEF ServiceStep

LEMMA SerialCall ==
  ASSUME TypeOK, SerialInv, Disciplined, NEW c \in Caller, Call(c)
  PROVE  Keeps(c) /\ \A d \in Caller : pc[d] = "idle"
<1>1. PICK e \in EntryPoint : Goto(c, FirstStep[e])
  BY DEF Call, Begin
<1>2. FirstStep[e] \in {"startCheck", "stopCheck", "restartCheck", "reloadSet",
                        "convert", "default", "options"}
  BY EntryAssumption DEF Disciplined, EntryPoints, FirstStep
<1>3. MovesTo(c, FirstStep[e])
  BY <1>1, Moves
<1>4. FirstStep[e] \in Steps
  BY <1>2 DEF Steps, StopSteps, ReloadSteps
<1>5. StatusAt(c)'
  BY <1>2, <1>3
     DEF StatusAt, MovesTo, TypeOK, StateOK, FrameOK, ServiceSteps, ReloadSteps, Ending,
         AlertSteps
<1>6. (coreState = "STARTED" => Serving)'
  BY DEF Call, Begin, SerialInv, Serving, shared, things
<1> QED BY <1>3, <1>4, <1>5, <1>6 DEF Call, Begin, Keeps, Disciplined

LEMMA SerialInvariant == Disciplined /\ Spec => []SerialInv
<1> SUFFICES ASSUME Disciplined PROVE Spec => []SerialInv
  OBVIOUS
<1>1. Init => SerialInv
  BY DEF Init, SerialInv, StatusAt, ServiceSteps, ReloadSteps, Ending, AlertSteps
<1>2. TypeOK /\ BoxInv /\ SerialInv /\ [Next]_vars => SerialInv'
  <2>1. ASSUME TypeOK, BoxInv, SerialInv, NEW c \in Caller, Call(c)
        PROVE  SerialInv'
    BY <2>1, SerialCall, KeepsSerial
  <2>2. ASSUME TypeOK, BoxInv, SerialInv, NEW c \in Caller, Step(c)
        PROVE  SerialInv'
    <3>1. Keeps(c)
      BY <2>2, SerialStart, SerialAlert, SerialStop, SerialReload, SerialService
         DEF Step
    <3>2. pc[c] # "idle"
      BY <2>2, Busy
    <3> QED BY <2>2, <3>1, <3>2, KeepsSerial
  <2>3. ASSUME SerialInv, Same
        PROVE  SerialInv'
    BY <2>3 DEF Same, SerialInv, StatusAt, Serving, things
  <2> QED BY <2>1, <2>2, <2>3, OutsideIsSame DEF Next
<1> QED BY <1>1, <1>2, TypeCorrect, BoxInvariant, PTL DEF Spec

\* With a client that awaits each call and does not call StartService itself,
\* the core reports STARTED only while Box is an instance that runs.
THEOREM StartedServes == Spec => []StartedMeansServing
<1>1. ASSUME Disciplined PROVE Spec => []StartedMeansServing
  <2>1. SerialInv => StartedMeansServing
    BY DEF SerialInv, StartedMeansServing, Serving
  <2> QED BY <1>1, <2>1, SerialInvariant, PTL
<1>2. ASSUME ~Disciplined PROVE Spec => []StartedMeansServing
  <2>1. StartedMeansServing
    BY <1>2 DEF StartedMeansServing
  <2> QED BY <2>1, PTL
<1> QED BY <1>1, <1>2

=============================================================================
