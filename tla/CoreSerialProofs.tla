-------------------------- MODULE CoreSerialProofs --------------------------
(***************************************************************************)
(* More theorems about CoreLifecycle for a client that awaits each call    *)
(* and does not call StartService itself: what the core reports, Box, the  *)
(* command server, the service it has and the instances agree.             *)
(***************************************************************************)
EXTENDS CoreLifecycleProofs

(***************************************************************************)
(* The inductive invariant.  SerialInv ties the status to the step of the  *)
(* one call in progress; this one adds what that step says of Box, of the  *)
(* command server and of the service attached to it.                       *)
(***************************************************************************)
Listens == oldCommandServer # Nil /\ server[oldCommandServer] = "listening"

\* The steps at which no call, or one that has not touched anything, is.
Rest == {"idle", "startCheck", "stopCheck", "restartCheck", "reloadSet", "convert",
         "default", "options"}

\* No Box that runs: before an instance is made, and once Box was closed.
DownSteps == {"startSet", "restartSet", "load", "build", "serve", "run", "publish",
              "fail", "stopClear", "stopServer", "stopForget", "stopDone",
              "saClear", "saServer", "reloadClear"}

HeldBox(c) ==
  /\ pc[c] \in DownSteps => ~Serving
  /\ pc[c] \in {"stopServer", "stopForget", "stopDone", "saServer"} => box = Nil
  /\ pc[c] \in {"restartFind", "stopFind", "stopSet"} => coreState = "STARTED"
  /\ pc[c] \in {"stopDeact", "stopDetach", "stopClose"} => Serving
  /\ pc[c] = "saStatus" /\ coreState = "STOPPING" => ~Serving

HeldServer(c) ==
  /\ pc[c] \in {"startSet", "restartSet", "load", "build", "serve", "stopForget"} =>
       ~Listens \/ closeFailed
  /\ pc[c] \in {"stopDone", "reloadClose", "reloadClear"} => oldCommandServer = Nil
  /\ pc[c] \in {"run", "publish", "attach", "started"} /\ req[c].cmd => Listens
  /\ pc[c] = "started" /\ req[c].cmd => attached[oldCommandServer] = box

HeldService(c) ==
  pc[c] \in {"stopClose", "saClose", "reloadForget", "reloadClose"} =>
    \A s \in Server : attached[s] = Nil

Held(c) == HeldBox(c) /\ HeldServer(c) /\ HeldService(c)

\* What is left when no call has begun to change anything.
Calm ==
  /\ coreState # "STARTED" => ~Serving
  /\ coreState # "STARTING"
  /\ coreState = "STOPPED" => box = Nil /\ (~Listens \/ closeFailed)
  /\ coreState = "STOPPING" => closeFailed

\* A service is attached to the command server of the core alone, and it is Box.
Attachment ==
  \A s \in Server : attached[s] # Nil =>
    s = oldCommandServer /\ attached[s] = box /\ Serving

\* An instance that runs is Box, or belongs to a call that is about to publish it.
Kept == \A i \in Instance : instance[i] = "running" => box = i \/ \E c \in Caller : own[c] = i

OwnsToPublish == \A c \in Caller : own[c] # Nil => pc[c] = "publish"

Resting == (\A c \in Caller : pc[c] \in Rest) => Calm

CoreInv ==
  /\ \A c \in Caller : Held(c)
  /\ Attachment /\ Kept /\ OwnsToPublish /\ Resting

-----------------------------------------------------------------------------
(***************************************************************************)
(* A step of the one call in progress.                                     *)
(***************************************************************************)
Solo(c) == \A d \in Caller \ {c} : pc[d] = "idle" /\ own[d] = Nil

\* What the invariant says when only c may be in a call.
Good(c) ==
  /\ Held(c) /\ Attachment
  /\ \A i \in Instance : instance[i] = "running" => box = i \/ own[c] = i
  /\ own[c] # Nil => pc[c] = "publish"
  /\ pc[c] \in Rest => Calm

\* What a step of c never does to the others.
Alone(c) ==
  /\ \E step \in Steps : MovesTo(c, step)
  /\ \A d \in Caller \ {c} : own'[d] = own[d]

LEMMA GoodStart ==
  ASSUME TypeOK, SerialInv, NEW c \in Caller, Good(c), Solo(c),
         StartSteps(c) \/ RestartStep(c)
  PROVE  Good(c)'
<1> USE StepsFacts, RequestFacts, NilAssumption
    DEF At, shared, settings, things, ends, frame, Resume, Return, Goto, Alert, Panic, Rest,
        DownSteps, Good, Held, HeldBox, HeldServer, HeldService, Listens, Serving, Attachment,
        Calm, TypeOK, StateOK, CoreOK, FrameOK
<1>1. CASE StartCheck(c)
  BY <1>1 DEF StartCheck, Test
<1>2. CASE StartSet(c)
  BY <1>2 DEF StartSet, Status
<1>3. CASE RestartCheck(c)
  BY <1>3 DEF RestartCheck, Test
<1>4. CASE RestartFind(c)
  BY <1>4 DEF RestartFind, Test, SerialInv
<1>5. CASE RestartSet(c)
  BY <1>5 DEF RestartSet, Status
<1> QED BY <1>1, <1>2, <1>3, <1>4, <1>5 DEF StartSteps, RestartStep

LEMMA GoodConfig ==
  ASSUME TypeOK, SerialInv, NEW c \in Caller, Good(c), Solo(c), ConfigStep(c)
  PROVE  Good(c)'
<1> USE StepsFacts, RequestFacts, NilAssumption
    DEF At, shared, settings, things, ends, frame, Resume, Return, Goto, Alert, Panic, Rest,
        DownSteps, Good, Held, HeldBox, HeldServer, HeldService, Listens, Serving, Attachment,
        Calm, TypeOK, StateOK, CoreOK, FrameOK
<1>1. CASE SetOptions(c)
  BY <1>1 DEF SetOptions
<1>2. CASE Convert(c)
  BY <1>2 DEF Convert
<1> QED BY <1>1, <1>2 DEF ConfigStep

LEMMA GoodAlert ==
  ASSUME TypeOK, SerialInv, NEW c \in Caller, Good(c), Solo(c), AlertStep(c)
  PROVE  Good(c)'
<1> USE StepsFacts, RequestFacts, NilAssumption
    DEF At, shared, settings, things, ends, frame, Resume, Return, Goto, Alert, Panic, Rest,
        DownSteps, Good, Held, HeldBox, HeldServer, HeldService, Listens, Serving, Attachment,
        Calm, TypeOK, StateOK, CoreOK, FrameOK
<1>1. CASE AlertStatus(c)
  BY <1>1 DEF AlertStatus, Status
<1>2. CASE AlertDeactivate(c)
  BY <1>2 DEF AlertDeactivate, Deactivate
<1>3. CASE AlertDetach(c)
  BY <1>3 DEF AlertDetach, Detach
<1>4. CASE AlertClose(c)
  BY <1>4 DEF AlertClose, CloseBox, CloseInstance
<1>5. CASE AlertClear(c)
  BY <1>5 DEF AlertClear, ClearBox
<1>6. CASE AlertServer(c)
  <2>1. ~Listens' /\ box = Nil /\ coreState = "STOPPED"
    BY <1>6, NilAssumption DEF AlertServer, CloseServer, SerialInv, StatusAt, AlertSteps
  <2>2. UNCHANGED <<box, coreState, oldCommandServer, instance, attached, closeFailed>>
    BY <1>6 DEF AlertServer
  <2>3. PICK next \in {"idle", "startSet", "restartSet"} : Resume(c, next)
    BY <1>6 DEF AlertServer
  <2>4. pc'[c] = next /\ own'[c] \in {own[c], Nil} /\ own[c] = Nil
    BY <1>6, <2>3 DEF AlertServer
  <2> QED BY <2>1, <2>2, <2>3, <2>4
<1> QED BY <1>1, <1>2, <1>3, <1>4, <1>5, <1>6 DEF AlertStep

LEMMA GoodStop ==
  ASSUME TypeOK, SerialInv, NEW c \in Caller, Good(c), Solo(c), StopStep(c)
  PROVE  Good(c)'
<1> USE StepsFacts, RequestFacts, NilAssumption
    DEF At, shared, settings, things, ends, frame, Resume, Return, Goto, Alert, Panic, Rest,
        DownSteps, Good, Held, HeldBox, HeldServer, HeldService, Listens, Serving, Attachment,
        Calm, TypeOK, StateOK, CoreOK, FrameOK
<1>1. CASE StopCheck(c)
  <2>1. PICK next \in {"stopFind", "idle", "startSet", "restartSet"} :
          /\ Resume(c, next)
          /\ next = "stopFind" <=> coreState = "STARTED"
    BY <1>1, AfterStopType DEF StopCheck, Test
  <2>2. pc[c] = "stopCheck" /\ Calm /\ UNCHANGED <<shared, things, ends>>
    BY <1>1 DEF StopCheck, Test
  <2> QED BY <2>1, <2>2 DEF States
<1>2. CASE StopFind(c)
  <2>1. coreState = "STARTED" /\ Serving
    BY <1>2 DEF StopFind, Test, SerialInv
  <2>2. Resume(c, "stopSet") /\ UNCHANGED <<shared, things, ends>>
    BY <1>2, <2>1 DEF StopFind, Test
  <2> QED BY <2>1, <2>2
<1>3. CASE StopSet(c)
  BY <1>3 DEF StopSet, Status, SerialInv
<1>4. CASE StopDeactivate(c)
  BY <1>4 DEF StopDeactivate, Deactivate
<1>5. CASE StopDetach(c)
  BY <1>5 DEF StopDetach, Detach
<1>6. CASE StopClose(c)
  BY <1>6 DEF StopClose, CloseInstance, AfterStop, SerialInv, StatusAt, Ending
<1>7. CASE StopClear(c)
  BY <1>7 DEF StopClear, ClearBox
<1>8. CASE StopServer(c)
  BY <1>8 DEF StopServer, CloseServer, AfterStop, SerialInv, StatusAt, Ending
<1>9. CASE StopForget(c)
  BY <1>9 DEF StopForget, ForgetServer
<1>10. CASE StopDone(c)
  BY <1>10 DEF StopDone, Status, AfterStop
<1> QED BY <1>1, <1>2, <1>3, <1>4, <1>5, <1>6, <1>7, <1>8, <1>9, <1>10 DEF StopStep

LEMMA GoodReload ==
  ASSUME TypeOK, SerialInv, NEW c \in Caller, Good(c), Solo(c), ReloadStep(c)
  PROVE  Good(c)'
<1> USE StepsFacts, RequestFacts, NilAssumption
    DEF At, shared, settings, things, ends, frame, Resume, Return, Goto, Alert, Panic, Rest,
        DownSteps, Good, Held, HeldBox, HeldServer, HeldService, Listens, Serving, Attachment,
        Calm, TypeOK, StateOK, CoreOK, FrameOK
<1>1. CASE ReloadSet(c)
  BY <1>1 DEF ReloadSet, Status
<1>2. CASE ReloadDetach(c)
  BY <1>2 DEF ReloadDetach, Detach
<1>3. CASE ReloadForget(c)
  BY <1>3 DEF ReloadForget, ForgetServer
<1>4. CASE ReloadClose(c)
  BY <1>4 DEF ReloadClose, CloseBox, CloseInstance
<1>5. CASE ReloadClear(c)
  BY <1>5 DEF ReloadClear, ClearBox
<1> QED BY <1>1, <1>2, <1>3, <1>4, <1>5 DEF ReloadStep

LEMMA GoodService ==
  ASSUME TypeOK, SerialInv, NEW c \in Caller, Good(c), Solo(c), BoxInv, ServiceStep(c)
  PROVE  Good(c)'
<1> USE StepsFacts, RequestFacts, NilAssumption
    DEF At, shared, settings, things, ends, frame, Resume, Return, Goto, Alert, Panic, Rest,
        DownSteps, Good, Held, HeldBox, HeldServer, HeldService, Listens, Serving, Attachment,
        Calm, TypeOK, StateOK, CoreOK, FrameOK
<1>1. CASE Load(c)
  BY <1>1 DEF Load
<1>2. CASE Build(c)
  <2>1. UNCHANGED <<coreState, box, oldCommandServer, things, closeFailed>>
    BY <1>2 DEF Build
  <2>2. \/ \E step \in {"serve", "fail"} : Goto(c, step) /\ UNCHANGED frame
        \/ Alert(c, "idle")
        \/ UNCHANGED <<pc, frame>>
    BY <1>2 DEF Build
  <2>3. pc[c] = "build"
    BY <1>2 DEF Build
  <2> QED BY <2>1, <2>2, <2>3
<1>3. CASE Serve(c)
  BY <1>3 DEF Serve, FreshServer
<1>4. CASE Run(c)
  BY <1>4 DEF Run, FreshInstance
<1>5. CASE Publish(c)
  BY <1>5 DEF Publish, BoxInv, OwnInv
<1>6. CASE Attach(c)
  <2>1. pc[c] = "attach" /\ coreState = "STARTING" /\ Serving
    BY <1>6 DEF Attach, SerialInv, StatusAt, ServiceSteps
  <2>2. CASE oldCommandServer # Nil
    BY <1>6, <2>1, <2>2 DEF Attach
  <2>3. CASE oldCommandServer = Nil
    <3>1. Alert(c, "idle") \/ UNCHANGED <<pc, frame>>
      BY <1>6, <2>3 DEF Attach
    <3>2. UNCHANGED <<shared, things, closeFailed>>
      BY <1>6, <2>3 DEF Attach
    <3> QED BY <2>1, <3>1, <3>2
  <2> QED BY <2>2, <2>3
<1>7. CASE Started(c)
  BY <1>7 DEF Started, Status, SerialInv, StatusAt
<1>8. CASE Fail(c)
  BY <1>8 DEF Fail
<1> QED BY <1>1, <1>2, <1>3, <1>4, <1>5, <1>6, <1>7, <1>8 DEF ServiceStep

LEMMA GoodStep ==
  ASSUME TypeOK, SerialInv, BoxInv, NEW c \in Caller, Good(c), Solo(c), Step(c)
  PROVE  Good(c)'
BY GoodStart, GoodConfig, GoodAlert, GoodStop, GoodReload, GoodService DEF Step

\* A step of c leaves the others where they are.
LEMMA StepIsAlone ==
  ASSUME TypeOK, NEW c \in Caller, Step(c), NEW d \in Caller \ {c}
  PROVE  pc'[d] = pc[d] /\ own'[d] = own[d]
<1> USE DEF TypeOK, StateOK, FrameOK, Resume, Return, Goto, Alert, Panic, frame
<1>1. CASE StartSteps(c) \/ RestartStep(c) \/ ConfigStep(c)
  BY <1>1
     DEF StartSteps, StartCheck, StartSet, RestartStep, RestartCheck, RestartFind, RestartSet,
         ConfigStep, SetOptions, Convert, Test, Status
<1>2. CASE ServiceStep(c)
  BY <1>2
     DEF ServiceStep, Load, Build, Serve, Run, Publish, Attach, Started, Fail, Status
<1>3. CASE AlertStep(c)
  BY <1>3
     DEF AlertStep, AlertStatus, AlertDeactivate, AlertDetach, AlertClose, AlertClear,
         AlertServer, Status, Deactivate, Detach, CloseBox, ClearBox
<1>4. CASE StopStep(c)
  BY <1>4
     DEF StopStep, StopCheck, StopFind, StopSet, StopDeactivate, StopDetach, StopClose,
         StopClear, StopServer, StopForget, StopDone, Test, Status, Deactivate, Detach,
         ClearBox, ForgetServer
<1>5. CASE ReloadStep(c)
  BY <1>5
     DEF ReloadStep, ReloadSet, ReloadDetach, ReloadForget, ReloadClose, ReloadClear,
         Status, Detach, CloseBox, ClearBox, ForgetServer
<1> QED BY <1>1, <1>2, <1>3, <1>4, <1>5 DEF Step

\* The invariant is Good(c) for the one caller that may be in a call.
LEMMA CoreInvGood ==
  ASSUME CoreInv, NEW c \in Caller, \A d \in Caller \ {c} : pc[d] = "idle"
  PROVE  Good(c) /\ Solo(c)
<1>1. \A d \in Caller \ {c} : own[d] = Nil
  BY DEF CoreInv, OwnsToPublish
<1>2. pc[c] \in Rest => Calm
  BY DEF CoreInv, Resting, Rest
<1>3. \A i \in Instance : instance[i] = "running" => box = i \/ own[c] = i
  BY <1>1, NilAssumption DEF CoreInv, Kept
<1> QED BY <1>1, <1>2, <1>3 DEF CoreInv, Good, Solo, OwnsToPublish

LEMMA GoodCoreInv ==
  ASSUME NEW c \in Caller, Good(c)', Solo(c)'
  PROVE  CoreInv'
<1>1. \A d \in Caller \ {c} : Held(d)'
  BY DEF Solo, Held, HeldBox, HeldServer, HeldService, DownSteps
<1>2. Kept' /\ OwnsToPublish'
  BY DEF Good, Solo, Kept, OwnsToPublish
<1>3. Resting'
  BY DEF Good, Resting
<1> QED BY <1>1, <1>2, <1>3 DEF CoreInv, Good

LEMMA CoreCall ==
  ASSUME TypeOK, SerialInv, CoreInv, Disciplined, NEW c \in Caller, Call(c)
  PROVE  CoreInv'
<1>1. PICK e \in EntryPoint : Goto(c, FirstStep[e])
  BY DEF Call, Begin
<1>2. \A d \in Caller : pc[d] = "idle"
  BY DEF Call, Disciplined
<1>3. FirstStep[e] \in Rest
  BY EntryAssumption DEF Disciplined, EntryPoints, FirstStep, Rest
<1>4. \A d \in Caller : pc'[d] \in Rest /\ own'[d] = Nil
  BY <1>1, <1>2, <1>3 DEF Call, Begin, Goto, Rest, CoreInv, OwnsToPublish,
     TypeOK, StateOK, FrameOK
<1>5. UNCHANGED <<shared, things, ends>>
  BY DEF Call, Begin
<1>6. Calm /\ Calm'
  BY <1>2, <1>5 DEF CoreInv, Resting, Rest, Calm, Serving, Listens, shared, things, ends
<1>7. \A d \in Caller : Held(d)'
  BY <1>4 DEF Held, HeldBox, HeldServer, HeldService, DownSteps, Rest
<1>8. Attachment' /\ Kept' /\ OwnsToPublish'
  BY <1>2, <1>4, <1>5 DEF CoreInv, Attachment, Kept, OwnsToPublish, Serving, shared, things
<1> QED BY <1>6, <1>7, <1>8 DEF CoreInv, Resting

LEMMA CoreInvariant == Disciplined /\ Spec => []CoreInv
<1> SUFFICES ASSUME Disciplined PROVE Spec => []CoreInv
  OBVIOUS
<1>1. Init => CoreInv
  <2>1. Init => \A c \in Caller : Held(c)
    BY DEF Init, Held, HeldBox, HeldServer, HeldService, DownSteps
  <2>2. Init => Attachment /\ Kept /\ OwnsToPublish
    BY DEF Init, Attachment, Kept, OwnsToPublish
  <2>3. Init => Resting
    BY NilAssumption DEF Init, Resting, Calm, Serving, Listens
  <2> QED BY <2>1, <2>2, <2>3 DEF CoreInv
<1>2. TypeOK /\ BoxInv /\ SerialInv /\ CoreInv /\ [Next]_vars => CoreInv'
  <2>1. ASSUME TypeOK, SerialInv, CoreInv, NEW c \in Caller, Call(c)
        PROVE  CoreInv'
    BY <2>1, CoreCall
  <2>2. ASSUME TypeOK, BoxInv, SerialInv, CoreInv, NEW c \in Caller, Step(c)
        PROVE  CoreInv'
    <3>1. \A d \in Caller \ {c} : pc[d] = "idle" /\ pc'[d] = "idle" /\ own'[d] = own[d]
      BY <2>2, Busy, StepIsAlone DEF SerialInv
    <3>2. Good(c) /\ Solo(c)
      BY <2>2, <3>1, CoreInvGood
    <3>3. Good(c)' /\ Solo(c)'
      BY <2>2, <3>1, <3>2, GoodStep DEF Solo
    <3> QED BY <3>3, GoodCoreInv
  <2>3. ASSUME CoreInv, Same
        PROVE  CoreInv'
    BY <2>3 DEF Same, CoreInv, Held, HeldBox, HeldServer, HeldService, Attachment, Kept,
       OwnsToPublish, Resting, Calm, Serving, Listens, things, frame
  <2> QED BY <2>1, <2>2, <2>3, OutsideIsSame DEF Next
<1> QED BY <1>1, <1>2, TypeCorrect, BoxInvariant, SerialInvariant, PTL DEF Spec

-----------------------------------------------------------------------------
(***************************************************************************)
(* The properties.                                                         *)
(***************************************************************************)
LEMMA WhenDisciplined ==
  /\ CoreInv => StoppedMeansNoBox /\ NoLostInstance /\ NoDanglingService
  /\ ~Disciplined => StoppedMeansNoBox /\ NoLostInstance /\ NoDanglingService
<1>1. CoreInv => StoppedMeansNoBox
  BY DEF CoreInv, Resting, Calm, Rest, Idle, StoppedMeansNoBox
<1>2. CoreInv => NoLostInstance
  BY DEF CoreInv, Kept, NoLostInstance
<1>3. CoreInv => NoDanglingService
  BY DEF CoreInv, Attachment, Serving, NoDanglingService
<1>4. ~Disciplined => StoppedMeansNoBox /\ NoLostInstance /\ NoDanglingService
  BY DEF StoppedMeansNoBox, NoLostInstance, NoDanglingService
<1> QED BY <1>1, <1>2, <1>3, <1>4

\* With such a client a core that reports STOPPED between two calls has no Box,
\* whatever failed or panicked before.
THEOREM StoppedIsEmpty == Spec => []StoppedMeansNoBox
<1>1. CASE Disciplined
  BY <1>1, CoreInvariant, WhenDisciplined, PTL
<1>2. CASE ~Disciplined
  BY <1>2, WhenDisciplined, PTL
<1> QED BY <1>1, <1>2

\* No instance that runs is out of the core's reach: it is Box, or belongs to the
\* call that has started it.
THEOREM InstancesAreKept == Spec => []NoLostInstance
<1>1. CASE Disciplined
  BY <1>1, CoreInvariant, WhenDisciplined, PTL
<1>2. CASE ~Disciplined
  BY <1>2, WhenDisciplined, PTL
<1> QED BY <1>1, <1>2

\* No command server serves an instance that was closed.
THEOREM ServicesRun == Spec => []NoDanglingService
<1>1. CASE Disciplined
  BY <1>1, CoreInvariant, WhenDisciplined, PTL
<1>2. CASE ~Disciplined
  BY <1>2, WhenDisciplined, PTL
<1> QED BY <1>1, <1>2

\* The steps that change Box: it does not run then.
LEMMA BoxChanges ==
  ASSUME NEW c \in Caller, Step(c), box' # box
  PROVE  pc[c] \in {"publish", "stopClear", "saClear", "reloadClear"}
BY DEF Step, StartSteps, StartCheck, StartSet, ServiceStep, Load, Build, Serve, Run, Publish,
       Attach, Started, Fail, AlertStep, AlertStatus, AlertDeactivate, AlertDetach,
       AlertClose, AlertClear, AlertServer, StopStep, StopCheck, StopFind, StopSet,
       StopDeactivate, StopDetach, StopClose, StopClear, StopServer, StopForget, StopDone,
       RestartStep, RestartCheck, RestartFind, RestartSet, ReloadStep, ReloadSet,
       ReloadDetach, ReloadForget, ReloadClose, ReloadClear, ConfigStep, SetOptions, Convert,
       Test, Status, Deactivate, Detach, CloseBox, ClearBox, ForgetServer, At, shared

LEMMA ServerChanges ==
  ASSUME NEW c \in Caller, Step(c), oldCommandServer' # oldCommandServer
  PROVE  pc[c] \in {"serve", "stopForget", "reloadForget"}
BY DEF Step, StartSteps, StartCheck, StartSet, ServiceStep, Load, Build, Serve, Run, Publish,
       Attach, Started, Fail, AlertStep, AlertStatus, AlertDeactivate, AlertDetach,
       AlertClose, AlertClear, AlertServer, StopStep, StopCheck, StopFind, StopSet,
       StopDeactivate, StopDetach, StopClose, StopClear, StopServer, StopForget, StopDone,
       RestartStep, RestartCheck, RestartFind, RestartSet, ReloadStep, ReloadSet,
       ReloadDetach, ReloadForget, ReloadClose, ReloadClear, ConfigStep, SetOptions, Convert,
       Test, Status, Deactivate, Detach, CloseBox, ClearBox, ForgetServer, At, shared

LEMMA CallChangesNothing ==
  ASSUME NEW c \in Caller, Call(c)
  PROVE  UNCHANGED <<box, oldCommandServer>>
BY DEF Call, Begin, shared

\* A Box that runs is never overwritten or forgotten.
THEOREM RunningBoxStays == Spec => NoOverwrittenBox
<1>1. CoreInv /\ [Next]_vars =>
        [Disciplined /\ box # Nil /\ box' # box => instance[box] # "running"]_vars
  <2>1. ASSUME CoreInv, NEW c \in Caller, Step(c), box # Nil, box' # box
        PROVE  instance[box] # "running"
    BY <2>1, BoxChanges DEF CoreInv, Held, HeldBox, DownSteps, Serving
  <2>2. BuildOutside => UNCHANGED box
    BY DEF BuildOutside
  <2> QED BY <2>1, <2>2, CallChangesNothing DEF Next, vars
<1>2. CASE Disciplined
  BY <1>1, <1>2, CoreInvariant, PTL DEF Spec, NoOverwrittenBox
<1>3. CASE ~Disciplined
  <2>1. [Next]_vars =>
          [Disciplined /\ box # Nil /\ box' # box => instance[box] # "running"]_vars
    BY <1>3
  <2> QED BY <2>1, PTL DEF Spec, NoOverwrittenBox
<1> QED BY <1>2, <1>3

\* Until a Close inside Stop has failed, only ServiceReload gives up a command
\* server that listens.
THEOREM ListeningServerStays == Spec => NoOverwrittenServer
<1> DEFINE Stays == Disciplined /\ ~closeFailed /\ oldCommandServer # Nil
                      /\ oldCommandServer' # oldCommandServer
                    => \/ server[oldCommandServer] # "listening"
                       \/ \E c \in Caller : pc[c] = "reloadForget"
<1>1. CoreInv /\ [Next]_vars => [Stays]_vars
  <2>1. ASSUME CoreInv, NEW c \in Caller, Step(c), ~closeFailed, oldCommandServer # Nil,
               oldCommandServer' # oldCommandServer
        PROVE  server[oldCommandServer] # "listening" \/ pc[c] = "reloadForget"
    BY <2>1, ServerChanges DEF CoreInv, Held, HeldServer, Listens
  <2>2. BuildOutside => UNCHANGED oldCommandServer
    BY DEF BuildOutside
  <2> QED BY <2>1, <2>2, CallChangesNothing DEF Next, vars
<1>2. CASE Disciplined
  BY <1>1, <1>2, CoreInvariant, PTL DEF Spec, NoOverwrittenServer
<1>3. CASE ~Disciplined
  <2>1. [Next]_vars => [Stays]_vars
    BY <1>3
  <2> QED BY <2>1, PTL DEF Spec, NoOverwrittenServer
<1> QED BY <1>2, <1>3

-----------------------------------------------------------------------------
(***************************************************************************)
(* The promise: a step of the core is a step of AbstractCore or leaves     *)
(* status and service alone.  The invariant says where the service is at   *)
(* each step that changes one of the two.                                  *)
(***************************************************************************)
Promised ==
  \/ coreState' = coreState /\ (Serving' <=> Serving)
  \/ /\ coreState' = "STARTING" /\ (Serving' <=> Serving)
     /\ Serving => coreState = "STARTED"
  \/ coreState = "STARTING" /\ coreState' = "STARTING" /\ ~Serving /\ Serving'
  \/ coreState = "STARTING" /\ coreState' = "STARTED" /\ Serving /\ Serving'
  \/ coreState = "STARTED" /\ coreState' = "STOPPING" /\ Serving /\ Serving'
  \/ coreState # "STARTED" /\ coreState' = coreState /\ Serving /\ ~Serving'
  \/ /\ coreState' = "STOPPED" /\ (Serving' <=> Serving)
     /\ coreState = "STOPPING" => ~Serving

LEMMA PromisedStart ==
  ASSUME TypeOK, SerialInv, NEW c \in Caller, Good(c),
         StartSteps(c) \/ RestartStep(c) \/ ConfigStep(c)
  PROVE  Promised
<1> USE DEF At, shared, settings, things, Good, Held, HeldBox, DownSteps, Serving, Promised
<1>1. CASE StartSteps(c)
  BY <1>1 DEF StartSteps, StartCheck, StartSet, Test, Status
<1>2. CASE RestartStep(c)
  BY <1>2 DEF RestartStep, RestartCheck, RestartFind, RestartSet, Test, Status
<1>3. CASE ConfigStep(c)
  BY <1>3 DEF ConfigStep, SetOptions, Convert
<1> QED BY <1>1, <1>2, <1>3

LEMMA PromisedAlert ==
  ASSUME TypeOK, SerialInv, NEW c \in Caller, Good(c), AlertStep(c)
  PROVE  Promised
<1> USE DEF At, shared, settings, things, Good, Held, HeldBox, DownSteps, Serving, Promised,
        SerialInv, StatusAt, AlertSteps, TypeOK, StateOK, CoreOK
<1>1. CASE AlertStatus(c)
  BY <1>1 DEF AlertStatus, Status
<1>2. CASE AlertDeactivate(c) \/ AlertDetach(c) \/ AlertServer(c)
  BY <1>2 DEF AlertDeactivate, AlertDetach, AlertServer, Deactivate, Detach
<1>3. CASE AlertClose(c)
  BY <1>3 DEF AlertClose, CloseBox, CloseInstance
<1>4. CASE AlertClear(c)
  BY <1>4 DEF AlertClear, ClearBox
<1> QED BY <1>1, <1>2, <1>3, <1>4 DEF AlertStep

LEMMA PromisedStop ==
  ASSUME TypeOK, SerialInv, NEW c \in Caller, Good(c), StopStep(c)
  PROVE  Promised
<1> USE DEF At, shared, settings, things, Good, Held, HeldBox, DownSteps, Serving, Promised,
        SerialInv, StatusAt, Ending, TypeOK, StateOK, CoreOK
<1>1. CASE StopCheck(c) \/ StopFind(c)
  BY <1>1 DEF StopCheck, StopFind, Test
<1>2. CASE StopSet(c)
  BY <1>2 DEF StopSet, Status
<1>3. CASE StopDeactivate(c) \/ StopDetach(c) \/ StopServer(c) \/ StopForget(c)
  BY <1>3 DEF StopDeactivate, StopDetach, StopServer, StopForget, Deactivate, Detach,
     ForgetServer
<1>4. CASE StopClose(c)
  BY <1>4 DEF StopClose, CloseInstance
<1>5. CASE StopClear(c)
  BY <1>5 DEF StopClear, ClearBox
<1>6. CASE StopDone(c)
  BY <1>6 DEF StopDone, Status
<1> QED BY <1>1, <1>2, <1>3, <1>4, <1>5, <1>6 DEF StopStep

LEMMA PromisedReload ==
  ASSUME TypeOK, SerialInv, NEW c \in Caller, Good(c), ReloadStep(c)
  PROVE  Promised
<1> USE DEF At, shared, settings, things, Good, Held, HeldBox, DownSteps, Serving, Promised,
        SerialInv, StatusAt, ReloadSteps, TypeOK, StateOK, CoreOK
<1>1. CASE ReloadSet(c)
  BY <1>1 DEF ReloadSet, Status, Rest, Calm
<1>2. CASE ReloadDetach(c) \/ ReloadForget(c)
  BY <1>2 DEF ReloadDetach, ReloadForget, Detach, ForgetServer
<1>3. CASE ReloadClose(c)
  BY <1>3 DEF ReloadClose, CloseBox, CloseInstance
<1>4. CASE ReloadClear(c)
  BY <1>4 DEF ReloadClear, ClearBox
<1> QED BY <1>1, <1>2, <1>3, <1>4 DEF ReloadStep

LEMMA PromisedService ==
  ASSUME TypeOK, SerialInv, NEW c \in Caller, Good(c), ServiceStep(c)
  PROVE  Promised
<1> USE DEF At, shared, settings, things, Good, Held, HeldBox, DownSteps, Serving, Promised,
        SerialInv, StatusAt, ServiceSteps, TypeOK, StateOK, CoreOK
<1>1. CASE Load(c) \/ Build(c) \/ Serve(c) \/ Attach(c)
  BY <1>1 DEF Load, Build, Serve, Attach
<1>2. CASE Run(c)
  BY <1>2 DEF Run, FreshInstance
<1>3. CASE Publish(c)
  BY <1>3 DEF Publish
<1>4. CASE Started(c)
  BY <1>4 DEF Started, Status
<1>5. CASE Fail(c)
  BY <1>5 DEF Fail
<1> QED BY <1>1, <1>2, <1>3, <1>4, <1>5 DEF ServiceStep

LEMMA PromisedStep ==
  ASSUME TypeOK, SerialInv, CoreInv, NEW c \in Caller, Step(c)
  PROVE  Promised
<1>1. Good(c)
  BY Busy, CoreInvGood DEF SerialInv
<1> QED BY <1>1, PromisedStart, PromisedAlert, PromisedStop, PromisedReload,
           PromisedService DEF Step

\* The promise itself makes STARTED mean a service that runs.
LEMMA PromiseIsTruthful == Protocol!Spec => []Protocol!Truthful
<1> DEFINE status == IF Disciplined THEN coreState ELSE "STOPPED"
           up     == Disciplined /\ Serving
<1>1. Protocol!Init => Protocol!Truthful
  BY DEF Protocol!Init, Protocol!Truthful
<1>2. Protocol!Truthful /\ [Protocol!Next]_<<status, up>> => Protocol!Truthful'
  BY DEF Protocol!Truthful, Protocol!Next, Protocol!Begin, Protocol!ComeUp, Protocol!Report,
         Protocol!Stop, Protocol!GoDown, Protocol!Stopped
<1> QED BY <1>1, <1>2, PTL DEF Protocol!Spec

\* To a client that awaits each call and does not call StartService itself the core
\* is what AbstractCore says, whatever fails or panics.
THEOREM StatusIsTrue == Spec => KeepsProtocol
<1> DEFINE status == IF Disciplined THEN coreState ELSE "STOPPED"
           up     == Disciplined /\ Serving
<1>1. Init => Protocol!Init
  BY DEF Init, Serving, Protocol!Init
<1>2. CASE Disciplined
  <2>1. TypeOK /\ SerialInv /\ CoreInv /\ [Next]_vars => [Protocol!Next]_<<status, up>>
    <3>1. SUFFICES ASSUME TypeOK, SerialInv, CoreInv, [Next]_vars
                   PROVE  [Protocol!Next]_<<status, up>>
      OBVIOUS
    <3>2. Promised
      <4>1. ASSUME NEW c \in Caller, Call(c)
            PROVE  Promised
        BY <4>1 DEF Call, Begin, Promised, Serving, shared, things
      <4>2. CASE BuildOutside \/ UNCHANGED vars
        BY <4>2 DEF BuildOutside, vars, shared, things, Promised, Serving
      <4> QED BY <3>1, <4>1, <4>2, PromisedStep DEF Next
    <3>3. coreState \in States
      BY <3>1 DEF TypeOK, StateOK, CoreOK
    <3> QED BY <1>2, <3>2, <3>3
            DEF Promised, States, Protocol!Next, Protocol!Begin, Protocol!ComeUp,
                Protocol!Report, Protocol!Stop, Protocol!GoDown, Protocol!Stopped
  <2> QED BY <1>1, <1>2, <2>1, TypeCorrect, SerialInvariant, CoreInvariant, PTL
          DEF Spec, KeepsProtocol, Protocol!Spec
<1>3. CASE ~Disciplined
  <2>1. [Next]_vars => [Protocol!Next]_<<status, up>>
    BY <1>3
  <2> QED BY <1>1, <2>1, PTL DEF Spec, KeepsProtocol, Protocol!Spec
<1> QED BY <1>2, <1>3
=============================================================================
