-------------------------- MODULE StandaloneProofs --------------------------
(***************************************************************************)
(* The standalone mode implements the core: what is proved of the core for *)
(* any calls holds for the calls of this mode.                             *)
(*                                                                         *)
(* What it promises on top of that needs RunInv: which calls the mode may  *)
(* have spawned at each place of main and of the update loop, and what each *)
(* of them may still do to Box.  The Stop and the StartService of an update *)
(* run in any order, so a Box of another content is there only while a call *)
(* is on its way that will replace it or clear it.                         *)
(***************************************************************************)
EXTENDS Standalone, CoreLifecycleProofs

LEMMA SpawnIsCall ==
  ASSUME NEW e, Spawn(e)
  PROVE  Next
<1> DEFINE c == CHOOSE c \in Idles : TRUE
<1>1. c \in Caller
  BY DEF Spawn, Idles, Spawned
<1>2. Call(c)
  BY DEF Spawn
<1> QED BY <1>1, <1>2 DEF Next

LEMMA MainImplements ==
  ASSUME MainStep \/ Signal
  PROVE  [Next]_vars
<1>1. CASE FirstRead
  BY <1>1 DEF FirstRead, ReadAndBuild, Next
<1>2. CASE FirstStart
  BY <1>2, SpawnIsCall DEF FirstStart, SpawnStart
<1>3. CASE Exit
  BY <1>3 DEF Exit
<1>4. CASE Signal
  BY <1>4, StandaloneAssumption DEF Signal, Next
<1> QED BY <1>1, <1>2, <1>3, <1>4 DEF MainStep

LEMMA LoopImplements ==
  ASSUME Refresh \/ LoopStep
  PROVE  [Next]_vars
<1>1. CASE Refresh
  BY <1>1 DEF Refresh, ReadAndBuild, Next
<1>2. CASE UpdateStop
  BY <1>2, SpawnIsCall DEF UpdateStop, SpawnStop
<1>3. CASE UpdateStart
  BY <1>3, SpawnIsCall DEF UpdateStart, SpawnStart
<1>4. CASE KeepRunning
  BY <1>4 DEF KeepRunning
<1> QED BY <1>1, <1>2, <1>3, <1>4 DEF LoopStep

\* Every step of the standalone mode is a call of the core, a step of a call, a
\* build outside of it, or none of its business: its behaviours are behaviours
\* of CoreLifecycle.
THEOREM ImplementsCore == RunSpec => Spec
<1>1. RunInit => Init
  BY DEF RunInit
<1>2. [RunNext]_allVars => [Next]_vars
  <2>1. ASSUME NEW c \in Caller, CoreStep(c)
        PROVE  Next
    BY <2>1 DEF CoreStep, Next
  <2>2. UNCHANGED allVars => UNCHANGED vars
    BY DEF allVars
  <2> QED BY <2>1, <2>2, MainImplements, LoopImplements DEF RunNext
<1> QED BY <1>1, <1>2, PTL DEF RunSpec, Spec

\* In the standalone mode too, Box is never left referring to a closed instance,
\* however the Stop and the StartService of an update interleave.
THEOREM UpdatesKeepBoxUp == RunSpec => []BoxRuns
BY ImplementsCore, BoxStaysUp, PTL

\* Nor is STARTING ever left behind by an update.
THEOREM UpdatesStrandNoStart == RunSpec => []NoStrandedStarting
BY ImplementsCore, StartingIsPending, PTL

-----------------------------------------------------------------------------
(***************************************************************************)
(* The calls of this mode: a StartService with the raw configuration and   *)
(* no command server, or a Stop, on a goroutine that is spawned for it;    *)
(* main only calls Stop.                                                   *)
(***************************************************************************)
StartCalls == {"load", "serve", "run", "publish", "started", "fail"} \cup AlertSteps
StopCalls  == (StopSteps \ {"stopForget"}) \cup AlertSteps

InCall(c) ==
  /\ \/ pc[c] = "idle" /\ entry[c] = "none"
     \/ /\ pc[c] \in StartCalls /\ entry[c] = "StartService"
        /\ req[c] = StartRequest /\ c # Main
     \/ pc[c] \in StopCalls /\ entry[c] = "Stop"
  /\ after[c] = "idle"
  /\ own[c] # Nil => pc[c] = "publish"

CallInv == oldCommandServer = Nil /\ \A c \in Caller : InCall(c)

\* Where main is, where the loop is, and what they have spawned.
MainInv ==
  /\ main = "read" => current = Nothing
  /\ main \in {"read", "start"} =>
       /\ loop = "off" /\ ~updated
       /\ coreState = "STOPPED" /\ box = Nil
       /\ \A c \in Caller : pc[c] = "idle"
  /\ main # "stop" => pc[Main] = "idle"
  /\ loop = "start" => updated
  /\ orderly => main \in {"stop", "exited"}

\* Until an update is spawned there is one StartService, and nothing after it.
FirstInv ==
  ~updated /\ main = "wait" =>
    /\ \A c, d \in Caller : c # d => pc[c] = "idle" \/ pc[d] = "idle"
    /\ \A c \in Caller : pc[c] # "idle" => entry[c] = "StartService" /\ coreState # "STARTED"

\* After a signal that found the core running, the Stop of main is alone with it until
\* it has passed its tests, and then it deactivates, whatever the loop does.
BeforeDeactivate == {"stopCheck", "stopFind", "stopSet", "stopDeact"}

OrderlyInv ==
  orderly /\ main \in {"stop", "exited"} /\ ~raced =>
    /\ pc[Main] \in {"stopCheck", "stopFind"} => AtRest /\ coreState = "STARTED" /\ box # Nil
    /\ pc[Main] \notin BeforeDeactivate => ~tunnel

\* While the loop waits for its calls, a StartService has the content that is current,
\* and what it has started was made of it.
FreshCalls ==
  /\ loop \in {"off", "wait"} =>
       \A c \in Caller : entry[c] = "StartService" =>
         /\ carries[c] = current.config
         /\ own[c] # Nil => runs[own[c]] = current.config
  /\ loop = "compare" => AtRest
  /\ loop = "start" => \A c \in Caller : entry[c] # "StartService"

\* A Box of another content is about to be replaced or cleared.
Replacing == {"load", "serve", "run", "publish", "fail", "saStatus", "saDeact", "saDetach",
              "saClose", "saClear", "stopClear"}

BoxOfCurrent ==
  box # Nil /\ loop # "start" =>
    runs[box] = current.config \/ \E c \in Caller : pc[c] \in Replacing

\* An instance that is off has no content.
RunsInv == \A i \in Instance : instance[i] = "off" => runs[i] = NoConfig

UpdateInv == ~hurried /\ main = "wait" => FreshCalls /\ BoxOfCurrent

RunInv ==
  RunTypeOK /\ CallInv /\ MainInv /\ FirstInv /\ OrderlyInv /\ RunsInv /\ UpdateInv

\* The steps of the core that the calls of this mode are made of.
StartAction(c) == Load(c) \/ Serve(c) \/ Run(c) \/ Publish(c) \/ Started(c) \/ Fail(c)

StopAction(c) ==
  StopCheck(c) \/ StopFind(c) \/ StopSet(c) \/ StopDeactivate(c) \/ StopDetach(c)
    \/ StopClose(c) \/ StopClear(c) \/ StopServer(c) \/ StopDone(c)

LEMMA OwnActions ==
  ASSUME CallInv, NEW c \in Caller, CoreStep(c)
  PROVE  StartAction(c) \/ StopAction(c) \/ AlertStep(c)
<1>1. Step(c) /\ InCall(c)
  BY DEF CoreStep, CallInv
<1>2. pc[c] \in {"idle"} \cup StartCalls \cup StopCalls
  BY <1>1 DEF InCall
<1> USE <1>2 DEF StartCalls, StopCalls, StopSteps, AlertSteps, At, Test, Status, Detach,
      CloseBox, ClearBox, ForgetServer
<1>3. ~StartSteps(c)
  BY DEF StartSteps, StartCheck, StartSet
<1>4. ~RestartStep(c)
  BY DEF RestartStep, RestartCheck, RestartFind, RestartSet
<1>5. ~ReloadStep(c)
  BY DEF ReloadStep, ReloadSet, ReloadDetach, ReloadForget, ReloadClose, ReloadClear
<1>6. ~ConfigStep(c) /\ ~Build(c) /\ ~Attach(c) /\ ~StopForget(c)
  BY DEF ConfigStep, SetOptions, Convert, Build, Attach, StopForget
<1> QED
  BY <1>1, <1>3, <1>4, <1>5, <1>6 DEF Step, ServiceStep, StopStep, StartAction, StopAction

\* A step of a call moves the call alone, and leaves it in the form of a call.
CallMoves(c) ==
  /\ pc[c] # "idle" /\ ~crashed
  /\ \E step \in Steps : MovesTo(c, step)
  /\ \A d \in Caller \ {c} :
       entry'[d] = entry[d] /\ own'[d] = own[d] /\ req'[d] = req[d] /\ after'[d] = after[d]
  /\ entry'[c] \in {entry[c], "none"}
  /\ InCall(c)'
  /\ oldCommandServer' = Nil

LEMMA CallStartMoves ==
  ASSUME TypeOK, BoxInv, CallInv, NEW c \in Caller, StartAction(c)
  PROVE  CallMoves(c) /\ UNCHANGED crashed
<1> USE FrameMoves, StepsFacts, NilAssumption
    DEF CallMoves, CallInv, InCall, StartCalls, StopCalls, StopSteps, AlertSteps, StartRequest,
        At, Goto, Resume, Return, Alert, MovesTo, frame, shared, things, ends, ServiceSteps,
        TypeOK, StateOK, CoreOK, FrameOK
<1>1. CASE Load(c)
  BY <1>1 DEF Load
<1>2. CASE Serve(c)
  BY <1>2 DEF Serve
<1>3. CASE Run(c)
  BY <1>3 DEF Run
<1>4. CASE Publish(c)
  <2>1. pc[c] = "publish" /\ entry[c] = "StartService" /\ req[c] = StartRequest /\ c # Main
    BY <1>4 DEF Publish
  <2>2. MovesTo(c, "started") /\ own' = [own EXCEPT ![c] = Nil] /\ UNCHANGED <<entry, req, after>>
    BY <1>4, <2>1 DEF Publish
  <2>3. UNCHANGED <<crashed, oldCommandServer>> /\ ~crashed
    BY <1>4 DEF Publish
  <2> QED
    BY <2>1, <2>2, <2>3
<1>5. CASE Started(c)
  BY <1>5 DEF Started, Status
<1>6. CASE Fail(c)
  <2>1. pc[c] = "fail" /\ entry[c] = "StartService" /\ req[c] = StartRequest /\ c # Main
    BY <1>6 DEF Fail
  <2>2. MovesTo(c, "saStatus") /\ after' = [after EXCEPT ![c] = "idle"]
        /\ UNCHANGED <<entry, req, own>>
    BY <1>6 DEF Fail
  <2>3. UNCHANGED <<crashed, oldCommandServer>> /\ ~crashed
    BY <1>6 DEF Fail
  <2>4. pc'[c] = "saStatus" /\ after'[c] = "idle" /\ own[c] = Nil
    BY <2>1, <2>2
  <2>5. InCall(c)'
    BY <2>1, <2>2, <2>4
  <2>6. \E step \in Steps : MovesTo(c, step)
    BY <2>2
  <2>7. \A d \in Caller \ {c} :
          entry'[d] = entry[d] /\ own'[d] = own[d] /\ req'[d] = req[d] /\ after'[d] = after[d]
    BY <2>2
  <2> QED
    BY <2>1, <2>2, <2>3, <2>5, <2>6, <2>7
<1> QED
  BY <1>1, <1>2, <1>3, <1>4, <1>5, <1>6 DEF StartAction

LEMMA CallStopMoves ==
  ASSUME TypeOK, BoxInv, CallInv, NEW c \in Caller, StopAction(c)
  PROVE  CallMoves(c) /\ UNCHANGED crashed
<1> USE FrameMoves, StepsFacts, NilAssumption
    DEF CallMoves, CallInv, InCall, StartCalls, StopCalls, StopSteps, AlertSteps, AfterStop,
        At, Goto, Resume, Return, Alert, MovesTo, frame, shared, things, ends, ServiceSteps,
        Test, Status, TypeOK, StateOK, CoreOK, FrameOK
<1>1. CASE StopCheck(c)
  BY <1>1 DEF StopCheck
<1>2. CASE StopFind(c)
  BY <1>2 DEF StopFind
<1>3. CASE StopSet(c)
  BY <1>3 DEF StopSet
<1>4. CASE StopDeactivate(c)
  BY <1>4 DEF StopDeactivate, Deactivate
<1>5. CASE StopDetach(c)
  BY <1>5 DEF StopDetach, Detach
<1>6. CASE StopClose(c)
  BY <1>6 DEF StopClose
<1>7. CASE StopClear(c)
  BY <1>7 DEF StopClear, ClearBox
<1>8. CASE StopServer(c)
  BY <1>8 DEF StopServer
<1>9. CASE StopDone(c)
  BY <1>9 DEF StopDone
<1> QED
  BY <1>1, <1>2, <1>3, <1>4, <1>5, <1>6, <1>7, <1>8, <1>9 DEF StopAction

LEMMA CallAlertMoves ==
  ASSUME TypeOK, BoxInv, CallInv, NEW c \in Caller, AlertStep(c)
  PROVE  CallMoves(c) /\ UNCHANGED crashed
<1> USE FrameMoves, StepsFacts, NilAssumption
    DEF CallMoves, CallInv, InCall, StartCalls, StopCalls, StopSteps, AlertSteps,
        At, Goto, Resume, Return, Alert, MovesTo, frame, shared, things, ends, ServiceSteps,
        Status, TypeOK, StateOK, CoreOK, FrameOK
<1>1. CASE AlertStatus(c)
  BY <1>1 DEF AlertStatus
<1>2. CASE AlertDeactivate(c)
  BY <1>2 DEF AlertDeactivate, Deactivate
<1>3. CASE AlertDetach(c)
  BY <1>3 DEF AlertDetach, Detach
<1>4. CASE AlertClose(c)
  BY <1>4 DEF AlertClose, CloseBox
<1>5. CASE AlertClear(c)
  BY <1>5 DEF AlertClear, ClearBox
<1>6. CASE AlertServer(c)
  BY <1>6 DEF AlertServer
<1> QED
  BY <1>1, <1>2, <1>3, <1>4, <1>5, <1>6 DEF AlertStep
-----------------------------------------------------------------------------
(***************************************************************************)
(* A step of a call keeps the invariant.                                   *)
(***************************************************************************)
LEMMA CoreStepMoves ==
  ASSUME TypeOK, BoxInv, CallInv, NEW c \in Caller, CoreStep(c)
  PROVE  /\ CallMoves(c) /\ UNCHANGED crashed
         /\ UNCHANGED <<main, loop, current, new, hurried, updated, orderly, raced>>
         /\ tunnel' \in {tunnel, FALSE}
         /\ carries' = IF pc'[c] = "idle" THEN [carries EXCEPT ![c] = NoConfig] ELSE carries
         /\ runs' = [i \in Instance |->
                       IF instance'[i] = "off" THEN NoConfig
                       ELSE IF i # own[c] /\ i = own'[c] THEN carries[c] ELSE runs[i]]
<1>1. CallMoves(c) /\ UNCHANGED crashed
  BY OwnActions, CallStartMoves, CallStopMoves, CallAlertMoves
<1>2. tunnel' = (tunnel /\ pc[c] \notin {"stopDeact", "saDeact"})
  BY DEF CoreStep
<1> QED
  BY <1>1, <1>2 DEF CoreStep, standalone

LEMMA CallsKept ==
  ASSUME TypeOK, CallInv, NEW c \in Caller, CallMoves(c)
  PROVE  CallInv'
BY DEF CallInv, InCall, CallMoves, MovesTo, TypeOK, StateOK, FrameOK

LEMMA CoreStepTypes ==
  ASSUME TypeOK, BoxInv, CallInv, RunTypeOK, NEW c \in Caller, CoreStep(c)
  PROVE  RunTypeOK' /\ RunsInv'
<1>1. /\ UNCHANGED <<main, loop, current, new, hurried, updated, orderly, raced>>
      /\ tunnel' \in {tunnel, FALSE}
      /\ carries' = IF pc'[c] = "idle" THEN [carries EXCEPT ![c] = NoConfig] ELSE carries
      /\ runs' = [i \in Instance |->
                    IF instance'[i] = "off" THEN NoConfig
                    ELSE IF i # own[c] /\ i = own'[c] THEN carries[c] ELSE runs[i]]
  BY CoreStepMoves
<1>2. carries' \in [Caller -> Config \cup {NoConfig}]
  BY <1>1 DEF RunTypeOK
<1>3. runs' \in [Instance -> Config \cup {NoConfig}]
  BY <1>1 DEF RunTypeOK
<1> QED
  BY <1>1, <1>2, <1>3 DEF RunTypeOK, RunsInv

LEMMA CoreStepMain ==
  ASSUME TypeOK, BoxInv, CallInv, MainInv, NEW c \in Caller, CoreStep(c)
  PROVE  MainInv'
BY CoreStepMoves, StandaloneAssumption
   DEF MainInv, CoreStep, Alive, CallMoves, MovesTo, TypeOK, StateOK, FrameOK

\* Only a StartService reports STARTED, and it is over then.
LEMMA OnlyStartReports ==
  ASSUME CallInv, NEW c \in Caller, CoreStep(c), TypeOK
  PROVE  coreState' = "STARTED" => coreState = "STARTED" \/ pc'[c] = "idle"
<1> USE DEF At, shared, Status, Test, MovesTo, TypeOK, StateOK, FrameOK
<1>1. CASE StartAction(c)
  BY <1>1 DEF StartAction, Load, Serve, Run, Publish, Started, Fail, Resume, Return, Goto
<1>2. CASE StopAction(c)
  BY <1>2 DEF StopAction, StopCheck, StopFind, StopSet, StopDeactivate, Deactivate, StopDetach,
     Detach, StopClose, StopClear, ClearBox, StopServer, StopDone
<1>3. CASE AlertStep(c)
  BY <1>3 DEF AlertStep, AlertStatus, AlertDeactivate, Deactivate, AlertDetach, Detach,
     AlertClose, CloseBox, AlertClear, ClearBox, AlertServer
<1> QED
  BY <1>1, <1>2, <1>3, OwnActions

LEMMA CoreStepFirst ==
  ASSUME TypeOK, BoxInv, CallInv, FirstInv, NEW c \in Caller, CoreStep(c)
  PROVE  FirstInv'
<1> SUFFICES ASSUME ~updated, main = "wait" PROVE FirstInv'
  BY CoreStepMoves DEF FirstInv
<1>1. /\ pc[c] # "idle" /\ entry[c] = "StartService" /\ coreState # "STARTED"
      /\ \A d \in Caller \ {c} : pc[d] = "idle"
  BY CoreStepMoves DEF FirstInv, CallMoves
<1>2. /\ \A d \in Caller \ {c} : pc'[d] = "idle"
      /\ pc'[c] # "idle" => entry'[c] = "StartService"
  <2>1. CallMoves(c)
    BY CoreStepMoves
  <2>2. \A d \in Caller \ {c} : pc'[d] = pc[d]
    BY <2>1 DEF CallMoves, MovesTo, TypeOK, StateOK, FrameOK
  <2>3. pc'[c] # "idle" => entry'[c] = "StartService"
    BY <1>1, <2>1 DEF CallMoves, InCall
  <2> QED
    BY <1>1, <2>2, <2>3
<1>3. pc'[c] # "idle" => coreState' # "STARTED"
  BY <1>1, OnlyStartReports
<1> QED
  BY <1>2, <1>3 DEF FirstInv

\* A step of another call does not bring the tunnel back, and there is none while main
\* is at its tests.
LEMMA OthersOrderly ==
  ASSUME TypeOK, BoxInv, CallInv, OrderlyInv, NEW c \in Caller, CoreStep(c), c # Main
  PROVE  OrderlyInv'
<1>1. /\ pc[c] # "idle" /\ pc'[Main] = pc[Main] /\ tunnel' \in {tunnel, FALSE}
      /\ UNCHANGED <<main, orderly, raced>>
  BY CoreStepMoves, StandaloneAssumption DEF CallMoves, MovesTo, TypeOK, StateOK, FrameOK
<1>2. SUFFICES ASSUME orderly, main \in {"stop", "exited"}, ~raced
                PROVE  /\ pc[Main] \notin {"stopCheck", "stopFind"}
                       /\ pc[Main] \notin BeforeDeactivate => ~tunnel'
  BY <1>1 DEF OrderlyInv
<1>3. pc[Main] \notin {"stopCheck", "stopFind"}
  BY <1>1, <1>2 DEF OrderlyInv, AtRest, Spawned
<1>4. pc[Main] \notin BeforeDeactivate => ~tunnel'
  BY <1>1, <1>2 DEF OrderlyInv
<1> QED
  BY <1>3, <1>4

LEMMA CoreStepOrderly ==
  ASSUME TypeOK, BoxInv, CallInv, OrderlyInv, NEW c \in Caller, CoreStep(c)
  PROVE  OrderlyInv'
<1> SUFFICES ASSUME orderly, main \in {"stop", "exited"}, ~raced, c = Main
             PROVE  OrderlyInv'
  BY OthersOrderly, CoreStepMoves DEF OrderlyInv
<1>1. entry[c] = "Stop" /\ pc[c] # "idle"
  BY CoreStepMoves DEF CallMoves, CallInv, InCall
<1>2. AtRest' <=> AtRest
  <2>1. \A d \in Caller \ {c} : pc'[d] = pc[d]
    BY CoreStepMoves DEF CallMoves, MovesTo, TypeOK, StateOK, FrameOK
  <2> QED
    BY <2>1 DEF AtRest, Spawned
<1>3. tunnel' = (tunnel /\ pc[c] \notin {"stopDeact", "saDeact"})
  BY DEF CoreStep
<1>4. StopAction(c) \/ AlertStep(c)
  <2>1. ~StartAction(c)
    BY <1>1
       DEF CallInv, InCall, StopCalls, StopSteps, AlertSteps, StartAction, Load, Serve, Run,
       Publish, Started, Fail, Status, At
  <2> QED
    BY <2>1, OwnActions
<1> USE <1>1, <1>2, <1>3
    DEF OrderlyInv, BeforeDeactivate, At, shared, Resume, Return, Goto, Alert,
      AfterStop, Test, Status, TypeOK, StateOK, FrameOK
<1>5. CASE StopCheck(c)
  BY <1>5 DEF StopCheck
<1>6. CASE StopFind(c)
  BY <1>6 DEF StopFind
<1>7. CASE StopSet(c)
  BY <1>7 DEF StopSet
<1>8. CASE StopDeactivate(c)
  BY <1>8 DEF StopDeactivate, Deactivate
<1>9. CASE StopDetach(c)
  BY <1>9 DEF StopDetach, Detach
<1>10. CASE StopClose(c)
  BY <1>10 DEF StopClose
<1>11. CASE StopClear(c)
  BY <1>11 DEF StopClear, ClearBox
<1>12. CASE StopServer(c)
  BY <1>12 DEF StopServer
<1>13. CASE StopDone(c)
  BY <1>13 DEF StopDone
<1>14. CASE AlertStep(c)
  <2>1. pc[c] \in AlertSteps
    BY <1>14 DEF AlertStep, AlertStatus, AlertDeactivate, Deactivate, AlertDetach, Detach,
       AlertClose, CloseBox, AlertClear, ClearBox, AlertServer, AlertSteps
  <2>2. pc'[c] \in AlertSteps \cup {"idle"}
    BY <1>14 DEF AlertStep, AlertStatus, AlertDeactivate, Deactivate, AlertDetach, Detach,
       AlertClose, CloseBox, AlertClear, ClearBox, AlertServer, AlertSteps, CallInv, InCall
  <2> QED
    BY <2>1, <2>2 DEF AlertSteps
<1> QED
  BY <1>4, <1>5, <1>6, <1>7, <1>8, <1>9, <1>10, <1>11, <1>12, <1>13, <1>14 DEF StopAction
\* What a step of a call does to Box: it clears it, publishes what the call has
\* started, or leaves it; a call that closes it goes on to clear it.
BoxMoves(c) ==
  \/ box' = Nil
  \/ box' = own[c] /\ UNCHANGED instance
  \/ /\ box' = box
     /\ pc[c] \in Replacing => pc'[c] \in Replacing
     /\ instance[box] # "off" /\ instance'[box] = "off" => pc'[c] \in Replacing

LEMMA StartMovesBox ==
  ASSUME TypeOK, CallInv, NEW c \in Caller, StartAction(c)
  PROVE  BoxMoves(c)
<1> USE NilAssumption
    DEF BoxMoves, Replacing, CallInv, InCall, StartRequest, At, Goto, Alert, shared, things,
        StopCalls, StopSteps, AlertSteps, TypeOK, StateOK, CoreOK, FrameOK
<1>1. CASE Load(c)
  BY <1>1 DEF Load
<1>2. CASE Serve(c)
  BY <1>2 DEF Serve
<1>3. CASE Run(c)
  BY <1>3 DEF Run
<1>4. CASE Publish(c)
  BY <1>4 DEF Publish
<1>5. CASE Started(c)
  BY <1>5 DEF Started, Status
<1>6. CASE Fail(c)
  BY <1>6 DEF Fail
<1> QED
  BY <1>1, <1>2, <1>3, <1>4, <1>5, <1>6 DEF StartAction

LEMMA StopMovesBox ==
  ASSUME TypeOK, NEW c \in Caller, StopAction(c)
  PROVE  BoxMoves(c)
<1> USE
    DEF BoxMoves, Replacing, At, Goto, Test, Status, shared, things, TypeOK, StateOK, CoreOK,
            FrameOK
<1>1. CASE StopClose(c)
  BY <1>1 DEF StopClose, CloseInstance
<1>2. CASE StopClear(c)
  BY <1>2 DEF StopClear, ClearBox
<1>3. CASE StopCheck(c) \/ StopFind(c) \/ StopSet(c) \/ StopDone(c)
  BY <1>3 DEF StopCheck, StopFind, StopSet, StopDone
<1>4. CASE StopDeactivate(c) \/ StopDetach(c) \/ StopServer(c)
  BY <1>4 DEF StopDeactivate, Deactivate, StopDetach, Detach, StopServer
<1> QED
  BY <1>1, <1>2, <1>3, <1>4 DEF StopAction

LEMMA AlertMovesBox ==
  ASSUME TypeOK, NEW c \in Caller, AlertStep(c)
  PROVE  BoxMoves(c)
<1> USE
    DEF BoxMoves, Replacing, At, Goto, Status, Resume, shared, things, frame, TypeOK, StateOK,
            CoreOK, FrameOK
<1>1. CASE AlertStatus(c) \/ AlertDeactivate(c) \/ AlertDetach(c)
  BY <1>1 DEF AlertStatus, AlertDeactivate, Deactivate, AlertDetach, Detach
<1>2. CASE AlertClose(c)
  BY <1>2 DEF AlertClose, CloseBox, CloseInstance
<1>3. CASE AlertClear(c)
  BY <1>3 DEF AlertClear, ClearBox
<1>4. CASE AlertServer(c)
  BY <1>4 DEF AlertServer
<1> QED
  BY <1>1, <1>2, <1>3, <1>4 DEF AlertStep

LEMMA CoreStepUpdate ==
  ASSUME TypeOK, TypeOK', BoxInv, BoxInv', CallInv, RunTypeOK, RunsInv, MainInv, UpdateInv,
         NEW c \in Caller, CoreStep(c)
  PROVE  UpdateInv'
<1> SUFFICES ASSUME ~hurried, main = "wait" PROVE (FreshCalls /\ BoxOfCurrent)'
  BY CoreStepMoves DEF UpdateInv
<1>1. FreshCalls /\ BoxOfCurrent
  BY DEF UpdateInv
<1>2. /\ UNCHANGED <<loop, current>>
      /\ carries' = IF pc'[c] = "idle" THEN [carries EXCEPT ![c] = NoConfig] ELSE carries
      /\ \A i \in Instance :
           runs'[i] = IF instance'[i] = "off" THEN NoConfig
                      ELSE IF i # own[c] /\ i = own'[c] THEN carries[c] ELSE runs[i]
  BY CoreStepMoves
<1>3. /\ pc[c] # "idle" /\ c # Main /\ loop # "compare"
      /\ entry'[c] \in {entry[c], "none"}
      /\ entry'[c] = "StartService" => pc'[c] # "idle"
      /\ own[c] # Nil \/ own'[c] # Nil => entry[c] = "StartService"
      /\ \A d \in Caller \ {c} : pc'[d] = pc[d] /\ entry'[d] = entry[d] /\ own'[d] = own[d]
  <2>1. CallMoves(c)
    BY CoreStepMoves
  <2>2. pc[c] # "idle" /\ c # Main
    BY <2>1 DEF CallMoves, MainInv
  <2>3. loop # "compare"
    BY <1>1, <2>2 DEF FreshCalls, AtRest, Spawned
  <2>4. /\ entry'[c] \in {entry[c], "none"}
        /\ entry'[c] = "StartService" => pc'[c] # "idle"
        /\ own'[c] # Nil => entry[c] = "StartService"
    BY <2>1 DEF CallMoves, InCall, StartCalls, StopCalls, StopSteps, AlertSteps
  <2>5. own[c] # Nil => entry[c] = "StartService"
    BY DEF CallInv, InCall, StopCalls, StopSteps, AlertSteps
  <2> QED
    BY <2>1, <2>2, <2>3, <2>4, <2>5 DEF CallMoves, MovesTo, TypeOK, StateOK, FrameOK
<1>4. \A d \in Caller : own'[d] # Nil =>
        /\ own'[d] \in Instance /\ instance'[own'[d]] = "running" /\ box' # own'[d]
        /\ \A e \in Caller \ {d} : own'[e] # own'[d]
  <2>1. \A d \in Caller : own'[d] # Nil => own'[d] \in Instance
    BY DEF TypeOK, StateOK, FrameOK
  <2> QED
    BY <2>1 DEF BoxInv, OwnInv
<1>5. FreshCalls'
  <2>1. ASSUME loop \in {"off", "wait"}, NEW d \in Caller, entry'[d] = "StartService"
        PROVE  carries'[d] = current.config /\ (own'[d] # Nil => runs'[own'[d]] = current.config)
    <3>1. entry[d] = "StartService"
      BY <1>3, <2>1
    <3>2. carries[d] = current.config /\ (own[d] # Nil => runs[own[d]] = current.config)
      BY <1>1, <2>1, <3>1 DEF FreshCalls
    <3>3. carries'[d] = carries[d]
      BY <1>2, <1>3, <2>1
    <3>4. own'[d] # Nil => runs'[own'[d]] = current.config
      BY <1>2, <1>3, <1>4, <3>2
    <3> QED
      BY <3>2, <3>3, <3>4
  <2>2. loop = "start" => \A d \in Caller : entry'[d] # "StartService"
    BY <1>1, <1>3 DEF FreshCalls
  <2> QED
    BY <1>2, <1>3, <2>1, <2>2 DEF FreshCalls
<1>6. BoxOfCurrent'
  <2> SUFFICES ASSUME box' # Nil, loop # "start"
               PROVE  runs'[box'] = current.config \/ \E d \in Caller : pc'[d] \in Replacing
    BY <1>2 DEF BoxOfCurrent
  <2>1. BoxMoves(c)
    BY OwnActions, StartMovesBox, StopMovesBox, AlertMovesBox
  <2>2. CASE box' = own[c] /\ UNCHANGED instance
    <3>1. own[c] \in Instance /\ instance[own[c]] = "running" /\ own'[c] # own[c]
      BY <1>4, <2>2 DEF BoxInv, OwnInv, TypeOK, StateOK, FrameOK
    <3>2. runs[own[c]] = current.config
      BY <1>1, <1>3, <2>2, <3>1, NilAssumption DEF FreshCalls, RunTypeOK
    <3> QED
      BY <1>2, <2>2, <3>1, <3>2
  <2>3. CASE /\ box' = box
             /\ pc[c] \in Replacing => pc'[c] \in Replacing
             /\ instance[box] # "off" /\ instance'[box] = "off" => pc'[c] \in Replacing
    <3>1. CASE \E d \in Caller : pc[d] \in Replacing
      BY <1>3, <2>3, <3>1
    <3>2. CASE runs[box] = current.config /\ pc'[c] \notin Replacing
      <4>1. box \in Instance /\ box # own'[c]
        BY <1>4, <2>3 DEF TypeOK, StateOK, CoreOK
      <4>2. instance'[box] = "off" => instance[box] = "off" /\ runs[box] = NoConfig
        BY <2>3, <3>2, <4>1 DEF RunsInv
      <4> QED
        BY <1>2, <2>3, <3>2, <4>1, <4>2
    <3> QED
      BY <1>1, <2>3, <3>1, <3>2 DEF BoxOfCurrent
  <2> QED
    BY <2>1, <2>2, <2>3 DEF BoxMoves
<1> QED
  BY <1>5, <1>6
-----------------------------------------------------------------------------
(***************************************************************************)
(* So do the steps of main and of the loop.                                *)
(***************************************************************************)
Begins(c, e) ==
  /\ pc[c] = "idle" /\ c \in Caller
  /\ pc' = [pc EXCEPT ![c] = IF e = "Stop" THEN "stopCheck" ELSE "load"]
  /\ entry' = [entry EXCEPT ![c] = e]
  /\ \E r \in Request : req' = [req EXCEPT ![c] = r] /\ (e = "StartService" => r = StartRequest)
  /\ UNCHANGED <<shared, things, own, after, ends>>

LEMMA CallBegins ==
  ASSUME TypeOK, NEW c \in Caller, NEW e \in {"StartService", "Stop"}, Call(c), entry'[c] = e
  PROVE  Begins(c, e)
<1>1. PICK f \in EntryPoint : \E r \in RequestsOf(f) : Begin(c, f, r)
  BY DEF Call
<1>2. f = e
  BY <1>1 DEF Begin, TypeOK, StateOK, FrameOK
<1>3. PICK r \in RequestsOf(e) : Begin(c, e, r)
  BY <1>1, <1>2
<1>4. r \in Request /\ (e = "StartService" => r = StartRequest)
  BY <1>1, <1>2, StandaloneAssumption, EntryAssumption, RequestFacts DEF RequestsOf
<1> QED
  <2>1. FirstStep[e] = IF e = "Stop" THEN "stopCheck" ELSE "load"
    BY DEF FirstStep
  <2> QED
    BY <1>3, <1>4, <2>1 DEF Begin, Begins, At, Goto

LEMMA BeginsCall ==
  ASSUME TypeOK, CallInv, NEW c \in Caller, NEW e \in {"StartService", "Stop"}, Begins(c, e),
         e = "StartService" => c # Main
  PROVE  CallInv'
<1> USE DEF Begins, CallInv, InCall, StartCalls, StopCalls, StopSteps, TypeOK, StateOK, FrameOK,
            shared
<1>1. InCall(c)'
  OBVIOUS
<1>2. \A d \in Caller \ {c} : InCall(d)'
  OBVIOUS
<1> QED
  BY <1>1, <1>2

CoreKept == TypeOK /\ TypeOK' /\ BoxInv /\ BoxInv'

\* What a call that begins changes.
Spawns(c, e) ==
  /\ c \in Caller /\ pc[c] = "idle" /\ own[c] = Nil
  /\ pc'[c] = (IF e = "Stop" THEN "stopCheck" ELSE "load") /\ entry'[c] = e
  /\ \A d \in Caller \ {c} : pc'[d] = pc[d] /\ entry'[d] = entry[d]
  /\ UNCHANGED <<coreState, box, instance, own>>
  /\ CallInv'

LEMMA BeginsSpawns ==
  ASSUME CoreKept, CallInv, NEW c \in Caller, NEW e \in {"StartService", "Stop"}, Begins(c, e),
         e = "StartService" => c # Main
  PROVE  Spawns(c, e)
<1>1. CallInv'
  BY BeginsCall DEF CoreKept
<1>2. own[c] = Nil
  BY DEF Begins, CallInv, InCall
<1> QED
  BY <1>1, <1>2
     DEF Begins, Spawns, CoreKept, TypeOK, StateOK, FrameOK, shared, things

LEMMA SpawnSpawns ==
  ASSUME CoreKept, CallInv, NEW e \in {"StartService", "Stop"}, Spawn(e)
  PROVE  \E c \in Spawned : c = (CHOOSE d \in Idles : TRUE) /\ Spawns(c, e)
<1> DEFINE c == CHOOSE d \in Idles : TRUE
<1>1. c \in Spawned /\ Call(c) /\ entry'[c] = e
  BY DEF Spawn, Idles
<1>2. Begins(c, e)
  BY <1>1, CallBegins DEF Spawned, CoreKept
<1>3. Spawns(c, e)
  BY <1>1, <1>2, BeginsSpawns DEF Spawned
<1> QED
  BY <1>1, <1>3

LEMMA IdleFacts ==
  ASSUME CallInv, MainInv
  PROVE  /\ \A c \in Caller : pc[c] = "idle" => entry[c] = "none" /\ own[c] = Nil
         /\ AtRest /\ main = "wait" => \A c \in Caller : pc[c] = "idle"
         /\ Main \in Caller
BY StandaloneAssumption
   DEF CallInv, InCall, StartCalls, StopCalls, StopSteps, AlertSteps, MainInv, AtRest, Spawned

\* A read leaves the calls alone.
LEMMA ReadKeeps ==
  ASSUME CoreKept, RunTypeOK, ReadAndBuild
  PROVE  /\ UNCHANGED <<coreState, box, oldCommandServer, instance, pc, entry, req, own, after>>
         /\ tunnel' \in BOOLEAN /\ raced' \in BOOLEAN /\ orderly' = orderly
         /\ \/ UNCHANGED <<tunnel, raced>>
            \/ raced' = (raced \/ ActivatesLate)
<1>1. orderly' = orderly
  BY DEF ReadAndBuild
<1>2. \/ UNCHANGED <<tunnel, raced>>
      \/ tunnel' = TRUE /\ raced' = (raced \/ ActivatesLate)
  BY DEF ReadAndBuild
<1>3. tunnel' \in BOOLEAN /\ raced' \in BOOLEAN
  BY <1>2 DEF RunTypeOK
<1> QED
  BY <1>1, <1>2, <1>3 DEF ReadAndBuild, BuildOutside, things, frame

LEMMA RunFirstRead ==
  ASSUME CoreKept, RunInv, FirstRead
  PROVE  RunInv'
<1> USE DEF RunInv
<1>1. /\ UNCHANGED <<coreState, box, oldCommandServer, instance, pc, entry, req, own, after>>
      /\ tunnel' \in BOOLEAN /\ raced' \in BOOLEAN /\ orderly' = orderly
      /\ UNCHANGED <<tunnel, raced>> \/ raced' = (raced \/ ActivatesLate)
  BY ReadKeeps DEF FirstRead
<1>2. /\ main = "read" /\ UNCHANGED <<loop, new, carries, runs, hurried, updated>>
      /\ \/ main' = "start" /\ current' \in ConfigResult
         \/ main' = "exited" /\ current' = current
  BY DEF FirstRead
<1>3. RunTypeOK' /\ RunsInv'
  BY <1>1, <1>2 DEF RunTypeOK, RunsInv
<1>4. CallInv'
  BY <1>1, <1>2 DEF CallInv, InCall
<1>5. MainInv'
  BY <1>1, <1>2 DEF MainInv
<1>6. FirstInv'
  BY <1>1, <1>2 DEF FirstInv, MainInv
<1>7. OrderlyInv'
  BY <1>1, <1>2 DEF OrderlyInv, AtRest, Spawned, BeforeDeactivate, MainInv
<1>8. UpdateInv'
  BY <1>1, <1>2
     DEF UpdateInv, FreshCalls, BoxOfCurrent, Replacing, AtRest, Spawned, MainInv, CallInv,
         InCall
<1> QED
  BY <1>3, <1>4, <1>5, <1>6, <1>7, <1>8

LEMMA RunFirstStart ==
  ASSUME CoreKept, RunInv, FirstStart
  PROVE  RunInv'
<1> USE DEF RunInv
<1>1. main = "start" /\ Spawn("StartService")
  BY DEF FirstStart, SpawnStart
<1>2. PICK c \in Spawned : c = (CHOOSE d \in Idles : TRUE) /\ Spawns(c, "StartService")
  BY <1>1, SpawnSpawns
<1>3. /\ main' = "wait" /\ loop' \in {"off", "wait"}
      /\ UNCHANGED <<current, new, runs, hurried, updated, tunnel, orderly, raced>>
      /\ carries' = [carries EXCEPT ![c] = current.config]
  BY <1>2 DEF FirstStart, SpawnStart, Overtakes, RunTypeOK
<1>4. carries' \in [Caller -> Config \cup {NoConfig}] /\ carries'[c] = current.config
  BY <1>1, <1>2, <1>3 DEF RunTypeOK, Config, Spawns
<1>5. RunTypeOK' /\ RunsInv'
  BY <1>1, <1>2, <1>3, <1>4 DEF RunTypeOK, Spawns, RunsInv, MainInv
<1>6. CallInv'
  BY <1>1, <1>2, <1>3, <1>4 DEF Spawns
<1>7. MainInv'
  BY IdleFacts, <1>1, <1>2, <1>3, <1>4 DEF MainInv, Spawns, Spawned
<1>8. FirstInv'
  BY <1>1, <1>2, <1>3, <1>4 DEF FirstInv, Spawns, MainInv
<1>9. OrderlyInv'
  BY <1>1, <1>2, <1>3, <1>4 DEF OrderlyInv, Spawns, AtRest, Spawned, BeforeDeactivate, MainInv
<1>10. UpdateInv'
  BY IdleFacts, <1>1, <1>2, <1>3, <1>4
     DEF UpdateInv, Spawns, FreshCalls, BoxOfCurrent, Replacing, AtRest, Spawned, MainInv
<1> QED
  BY <1>5, <1>6, <1>7, <1>8, <1>9, <1>10

LEMMA RunExit ==
  ASSUME CoreKept, RunInv, Exit
  PROVE  RunInv'
<1> USE DEF RunInv
<1>1. UNCHANGED <<coreState, box, oldCommandServer, instance, pc, entry, req, own, after>>
  BY DEF Exit, vars, shared, things, frame
<1>2. /\ main = "stop" /\ main' = "exited" /\ pc[Main] = "idle"
      /\ UNCHANGED <<loop, current, new, carries, runs, hurried, updated, tunnel, orderly, raced>>
  BY DEF Exit, histories
<1>3. RunTypeOK' /\ RunsInv'
  BY <1>1, <1>2 DEF RunTypeOK, RunsInv
<1>4. CallInv'
  BY <1>1, <1>2 DEF CallInv, InCall
<1>5. MainInv'
  BY <1>1, <1>2 DEF MainInv
<1>6. FirstInv'
  BY <1>1, <1>2 DEF FirstInv, MainInv
<1>7. OrderlyInv'
  BY <1>1, <1>2 DEF OrderlyInv, AtRest, Spawned, BeforeDeactivate, MainInv
<1>8. UpdateInv'
  BY <1>1, <1>2
     DEF UpdateInv, FreshCalls, BoxOfCurrent, Replacing, AtRest, Spawned, MainInv, CallInv,
         InCall
<1> QED
  BY <1>3, <1>4, <1>5, <1>6, <1>7, <1>8

LEMMA RunSignal ==
  ASSUME CoreKept, RunInv, Signal
  PROVE  RunInv'
<1> USE DEF RunInv
<1>1. main = "wait" /\ Main \in Caller /\ Call(Main) /\ entry'[Main] = "Stop"
  BY StandaloneAssumption DEF Signal
<1>2. Spawns(Main, "Stop")
  BY <1>1, CallBegins, BeginsSpawns DEF CoreKept
<1>3. /\ main' = "stop"
      /\ orderly' = (AtRest /\ coreState = "STARTED" /\ box # Nil)
      /\ UNCHANGED <<loop, current, new, carries, runs, hurried, updated, tunnel, raced>>
  BY DEF Signal
<1>4. RunTypeOK' /\ RunsInv'
  BY <1>1, <1>2, <1>3 DEF RunTypeOK, Spawns, RunsInv
<1>5. CallInv'
  BY <1>1, <1>2, <1>3 DEF Spawns
<1>6. MainInv'
  BY <1>1, <1>2, <1>3 DEF MainInv, Spawns
<1>7. FirstInv'
  BY <1>1, <1>2, <1>3 DEF FirstInv, Spawns, MainInv
<1>8. OrderlyInv'
  BY <1>1, <1>2, <1>3 DEF OrderlyInv, Spawns, AtRest, Spawned, BeforeDeactivate, MainInv
<1>9. UpdateInv'
  BY <1>1, <1>2, <1>3
     DEF UpdateInv, Spawns, FreshCalls, BoxOfCurrent, Replacing, AtRest, Spawned, MainInv,
         CallInv, InCall
<1> QED
  BY <1>4, <1>5, <1>6, <1>7, <1>8, <1>9

LEMMA RunRefresh ==
  ASSUME CoreKept, RunInv, Refresh
  PROVE  RunInv'
<1> USE DEF RunInv
<1>1. /\ UNCHANGED <<coreState, box, oldCommandServer, instance, pc, entry, req, own, after>>
      /\ tunnel' \in BOOLEAN /\ raced' \in BOOLEAN /\ orderly' = orderly
      /\ UNCHANGED <<tunnel, raced>> \/ raced' = (raced \/ ActivatesLate)
  BY ReadKeeps DEF Refresh
<1>2. /\ main # "exited" /\ loop = "wait"
      /\ UNCHANGED <<main, current, carries, runs, updated>>
      /\ \/ loop' = "compare" /\ new' \in ConfigResult
         \/ UNCHANGED <<loop, new>>
      /\ hurried' = (hurried \/ ~AtRest)
  BY DEF Refresh, Alive
<1>3. RunTypeOK' /\ RunsInv'
  BY <1>1, <1>2 DEF RunTypeOK, RunsInv
<1>4. CallInv'
  BY <1>1, <1>2 DEF CallInv, InCall
<1>5. MainInv'
  BY <1>1, <1>2 DEF MainInv
<1>6. FirstInv'
  BY <1>1, <1>2 DEF FirstInv, MainInv
<1>7. OrderlyInv'
  BY <1>1, <1>2 DEF OrderlyInv, AtRest, Spawned, BeforeDeactivate, ActivatesLate
<1>8. UpdateInv'
  BY <1>1, <1>2
     DEF UpdateInv, FreshCalls, BoxOfCurrent, Replacing, AtRest, Spawned, MainInv, CallInv,
         InCall
<1> QED
  BY <1>3, <1>4, <1>5, <1>6, <1>7, <1>8

LEMMA RunUpdateStop ==
  ASSUME CoreKept, RunInv, UpdateStop
  PROVE  RunInv'
<1> USE DEF RunInv
<1>1. loop = "compare" /\ Spawn("Stop")
  BY DEF UpdateStop, SpawnStop
<1>2. PICK c \in Spawned : Spawns(c, "Stop")
  BY <1>1, SpawnSpawns
<1>3. /\ loop' = "start" /\ updated' = TRUE
      /\ UNCHANGED <<main, current, new, carries, runs, hurried, tunnel, orderly>>
      /\ raced' = (raced \/ Overtakes) /\ raced' \in BOOLEAN /\ main # "exited"
  BY DEF UpdateStop, SpawnStop, Changed, Alive, RunTypeOK
<1>4. RunTypeOK' /\ RunsInv'
  BY <1>1, <1>2, <1>3 DEF RunTypeOK, Spawns, RunsInv
<1>5. CallInv'
  BY <1>1, <1>2, <1>3 DEF Spawns
<1>6. MainInv'
  BY IdleFacts, <1>1, <1>2, <1>3 DEF MainInv, Spawns, Spawned
<1>7. FirstInv'
  BY <1>1, <1>2, <1>3 DEF FirstInv, Spawns, MainInv
<1>8. OrderlyInv'
  BY <1>1, <1>2, <1>3, IdleFacts DEF OrderlyInv, Spawns, Spawned, Overtakes
<1>9. UpdateInv'
  BY IdleFacts, <1>1, <1>2, <1>3
     DEF UpdateInv, Spawns, FreshCalls, BoxOfCurrent, Replacing, AtRest, Spawned, MainInv
<1> QED
  BY <1>4, <1>5, <1>6, <1>7, <1>8, <1>9

LEMMA RunUpdateStart ==
  ASSUME CoreKept, RunInv, UpdateStart
  PROVE  RunInv'
<1> USE DEF RunInv
<1>1. loop = "start" /\ Spawn("StartService")
  BY DEF UpdateStart, SpawnStart
<1>2. PICK c \in Spawned : c = (CHOOSE d \in Idles : TRUE) /\ Spawns(c, "StartService")
  BY <1>1, SpawnSpawns
<1>3. /\ loop' = "wait" /\ current' = new /\ new' = Nothing
      /\ UNCHANGED <<main, runs, hurried, updated, tunnel, orderly>>
      /\ raced' = (raced \/ Overtakes) /\ raced' \in BOOLEAN /\ main # "exited"
      /\ carries' = [carries EXCEPT ![c] = new.config]
  BY <1>2 DEF UpdateStart, SpawnStart, Alive, RunTypeOK
<1>4. carries' \in [Caller -> Config \cup {NoConfig}] /\ carries'[c] = new.config
  BY <1>1, <1>2, <1>3 DEF RunTypeOK, Config, Spawns
<1>5. RunTypeOK' /\ RunsInv'
  BY <1>1, <1>2, <1>3, <1>4 DEF RunTypeOK, Spawns, RunsInv
<1>6. CallInv'
  BY <1>1, <1>2, <1>3, <1>4 DEF Spawns
<1>7. MainInv'
  BY IdleFacts, <1>1, <1>2, <1>3, <1>4 DEF MainInv, Spawns, Spawned
<1>8. FirstInv'
  BY <1>1, <1>2, <1>3, <1>4 DEF FirstInv, Spawns, MainInv
<1>9. OrderlyInv'
  BY <1>1, <1>2, <1>3, IdleFacts DEF OrderlyInv, Spawns, Spawned, Overtakes
<1>10. UpdateInv'
  BY IdleFacts, <1>1, <1>2, <1>3, <1>4
     DEF UpdateInv, Spawns, FreshCalls, BoxOfCurrent, Replacing, AtRest, Spawned, MainInv
<1> QED
  BY <1>5, <1>6, <1>7, <1>8, <1>9, <1>10

LEMMA RunKeepRunning ==
  ASSUME CoreKept, RunInv, KeepRunning
  PROVE  RunInv'
<1> USE DEF RunInv
<1>1. UNCHANGED <<coreState, box, oldCommandServer, instance, pc, entry, req, own, after>>
  BY DEF KeepRunning, vars, shared, things, frame
<1>2. /\ loop = "compare" /\ loop' = "wait" /\ new.config = current.config
      /\ current' = new /\ new' = Nothing
      /\ UNCHANGED <<main, carries, runs, hurried, updated, tunnel, orderly, raced>>
  BY DEF KeepRunning, Changed, histories
<1>3. RunTypeOK' /\ RunsInv'
  BY <1>1, <1>2 DEF RunTypeOK, RunsInv
<1>4. CallInv'
  BY <1>1, <1>2 DEF CallInv, InCall
<1>5. MainInv'
  BY IdleFacts, <1>1, <1>2 DEF MainInv
<1>6. FirstInv'
  BY <1>1, <1>2 DEF FirstInv, MainInv
<1>7. OrderlyInv'
  BY <1>1, <1>2 DEF OrderlyInv, AtRest, Spawned, BeforeDeactivate, MainInv
<1>8. UpdateInv'
  BY IdleFacts, <1>1, <1>2
     DEF UpdateInv, FreshCalls, BoxOfCurrent, Replacing, AtRest, Spawned, MainInv
<1> QED
  BY <1>3, <1>4, <1>5, <1>6, <1>7, <1>8

LEMMA RunCoreStep ==
  ASSUME CoreKept, RunInv, NEW c \in Caller, CoreStep(c)
  PROVE  RunInv'
<1> USE DEF CoreKept, RunInv
<1>1. RunTypeOK' /\ RunsInv' /\ MainInv'
  BY CoreStepTypes, CoreStepMain
<1>2. CallInv'
  BY CoreStepMoves, CallsKept
<1>3. FirstInv' /\ OrderlyInv' /\ UpdateInv'
  BY CoreStepFirst, CoreStepOrderly, CoreStepUpdate
<1> QED
  BY <1>1, <1>2, <1>3
LEMMA RunInitially == RunInit => RunInv
<1> SUFFICES ASSUME RunInit PROVE RunInv
  OBVIOUS
<1> USE DEF RunInit, Init, RunInv
<1>1. RunTypeOK /\ RunsInv
  BY DEF RunTypeOK, RunsInv
<1>2. CallInv
  BY DEF CallInv, InCall
<1>3. MainInv
  BY StandaloneAssumption DEF MainInv
<1>4. FirstInv /\ OrderlyInv /\ UpdateInv
  BY DEF FirstInv, OrderlyInv, UpdateInv
<1> QED
  BY <1>1, <1>2, <1>3, <1>4

LEMMA RunStep ==
  ASSUME CoreKept, RunInv, [RunNext]_allVars
  PROVE  RunInv'
<1>1. CASE UNCHANGED allVars
  <2> USE <1>1
      DEF allVars, vars, shared, settings, things, frame, ends, standalone, histories, RunInv
  <2>1. RunTypeOK' /\ RunsInv'
    BY DEF RunTypeOK, RunsInv
  <2>2. CallInv'
    BY DEF CallInv, InCall
  <2>3. MainInv' /\ FirstInv'
    BY DEF MainInv, FirstInv
  <2>4. OrderlyInv'
    BY DEF OrderlyInv, AtRest
  <2>5. UpdateInv'
    BY DEF UpdateInv, FreshCalls, BoxOfCurrent, AtRest
  <2> QED
    BY <2>1, <2>2, <2>3, <2>4, <2>5
<1>2. CASE RunNext
  BY <1>2, RunFirstRead, RunFirstStart, RunExit, RunSignal, RunRefresh, RunUpdateStop,
     RunUpdateStart, RunKeepRunning, RunCoreStep DEF RunNext, MainStep, LoopStep
<1> QED
  BY <1>1, <1>2

LEMMA RunInvariant == RunSpec => [](TypeOK /\ BoxInv /\ RunInv)
<1>1. TypeOK /\ TypeOK' /\ BoxInv /\ BoxInv' /\ RunInv /\ [RunNext]_allVars => RunInv'
  BY RunStep DEF CoreKept
<1> QED
  BY <1>1, RunInitially, ImplementsCore, TypeCorrect, BoxInvariant, PTL DEF RunSpec

-----------------------------------------------------------------------------
\* The types of the standalone mode: the loop holds a configuration it has read from
\* its comparison to the start that makes it current, and no other.
THEOREM RunTypes == RunSpec => []RunTypeOK
<1>1. RunInv => RunTypeOK
  BY DEF RunInv
<1> QED
  BY <1>1, RunInvariant, PTL

\* Once the calls of an update have ended Box was made of the current configuration, in
\* whatever order they ran, for any number of goroutines, contents and instances: a Box of
\* another content is never there without a call that will replace or clear it.
THEOREM UpdatesReachBox == RunSpec => []BoxIsCurrent
<1>1. RunInv => BoxIsCurrent
  <2> SUFFICES ASSUME RunInv, AtRest, loop \in {"off", "wait"}, main = "wait", ~hurried, box # Nil
               PROVE  runs[box] = current.config
    BY DEF BoxIsCurrent
  <2>1. \A c \in Caller : pc[c] = "idle"
    BY IdleFacts DEF RunInv
  <2> QED
    BY <2>1 DEF RunInv, UpdateInv, BoxOfCurrent, Replacing
<1> QED
  BY <1>1, RunInvariant, PTL

\* After a signal that found the core running with no call in flight, the process ends
\* with the tunnel asked to stop, whatever the loop did meanwhile, but for a call it
\* spawned before the Stop of main had passed its tests, and an activation after that
\* Stop had deactivated.
THEOREM ShutdownStopsTunnel == RunSpec => []NoTunnelLeft
<1>1. RunInv => NoTunnelLeft
  <2> SUFFICES ASSUME RunInv, main = "exited", orderly, ~raced PROVE ~tunnel
    BY DEF NoTunnelLeft
  <2>1. pc[Main] \notin BeforeDeactivate
    BY DEF RunInv, MainInv, BeforeDeactivate
  <2> QED
    BY <2>1 DEF RunInv, OrderlyInv
<1> QED
  BY <1>1, RunInvariant, PTL

\* Until an update is spawned nothing touches a core that has reported STARTED: it keeps
\* its status, its Box and its tunnel.
THEOREM RefreshesDoNotDisturb == RunSpec => Undisturbed
<1>1. TypeOK /\ BoxInv /\ RunInv /\ [RunNext]_allVars =>
        [~updated /\ main = "wait" /\ main' = "wait" /\ coreState = "STARTED"
           => coreState' = "STARTED" /\ box' = box /\ (tunnel => tunnel')]_allVars
  <2> SUFFICES ASSUME TypeOK, BoxInv, RunInv, RunNext, ~updated, main = "wait", main' = "wait",
                      coreState = "STARTED"
               PROVE  coreState' = "STARTED" /\ box' = box /\ (tunnel => tunnel')
    OBVIOUS
  <2>1. \A c \in Caller : pc[c] = "idle"
    BY DEF RunInv, FirstInv
  <2>2. ~\E c \in Caller : CoreStep(c)
    BY <2>1, CoreStepMoves DEF CallMoves, RunInv
  <2>3. CASE Refresh
    BY <2>3 DEF Refresh, ReadAndBuild, BuildOutside
  <2>4. CASE UpdateStop
    BY <2>4 DEF UpdateStop, SpawnStop, Spawn, Call, Begin, shared
  <2>5. CASE KeepRunning
    BY <2>5 DEF KeepRunning, vars, shared, histories
  <2>6. ~UpdateStart
    BY DEF UpdateStart, RunInv, MainInv
  <2>7. ~MainStep /\ ~Signal
    BY DEF MainStep, FirstRead, FirstStart, Exit, Signal
  <2> QED
    BY <2>2, <2>3, <2>4, <2>5, <2>6, <2>7 DEF RunNext, LoopStep
<1> QED
  BY <1>1, RunInvariant, PTL DEF RunSpec, Undisturbed

\* The process ends in a panic only while it reads and builds.
THEOREM CallsDoNotPanic == RunSpec => OnlyBuildsPanic
<1>1. TypeOK /\ BoxInv /\ RunInv /\ [RunNext]_allVars =>
        [crashed' # crashed =>
           /\ loop = "wait" \/ main = "read"
           /\ \A c \in Caller : pc[c] \notin {"build", "attach"}]_allVars
  <2> SUFFICES ASSUME TypeOK, BoxInv, RunInv, RunNext, crashed' # crashed
               PROVE  /\ loop = "wait" \/ main = "read"
                      /\ \A c \in Caller : pc[c] \notin {"build", "attach"}
    OBVIOUS
  <2>1. \A c \in Caller : pc[c] \notin {"build", "attach"}
    BY DEF RunInv, CallInv, InCall, StartCalls, StopCalls, StopSteps, AlertSteps
  <2>2. ~\E c \in Caller : CoreStep(c)
    BY CoreStepMoves DEF RunInv
  <2>3. ~FirstStart /\ ~Signal /\ ~UpdateStop /\ ~UpdateStart
    BY
       DEF FirstStart, SpawnStart, Signal, UpdateStop, SpawnStop, UpdateStart, Spawn, Call,
           Begin,
       ends
  <2>4. ~Exit /\ ~KeepRunning
    BY DEF Exit, KeepRunning, vars, ends
  <2> QED
    BY <2>1, <2>2, <2>3, <2>4 DEF RunNext, MainStep, LoopStep, FirstRead, Refresh
<1> QED
  BY <1>1, RunInvariant, PTL DEF RunSpec, OnlyBuildsPanic
=============================================================================
