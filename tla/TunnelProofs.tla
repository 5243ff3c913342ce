---------------------------- MODULE TunnelProofs ----------------------------
(***************************************************************************)
(* Theorems about Tunnel, for any number of goroutines and of pending      *)
(* requests, in any world: its types, the stop behind every tunnel that    *)
(* has no core, and the safety part of the promise of AbstractTunnel.      *)
(***************************************************************************)
EXTENDS Tunnel, FiniteSetTheorems, TLAPS

JobSteps == {"free", "probe", "stopFirst", "start", "exit", "install", "run", "failed",
             "stop", "stopRetry"}

Ops == {"Start", "Stop", "Exit"}

-----------------------------------------------------------------------------
\* ------ Requests.

\* A request changes the tunnel, not the type of anything.
LEMMA ServesType ==
  ASSUME TypeOK, NEW op \in Ops, NEW ok \in BOOLEAN, Serves(op, ok)
  PROVE  helper' \in {"none", "down", "up"} /\ selfStop' \in [first : Nat, retry : Nat]
BY DEF TypeOK, Ops, Serves, ServesStop, ServesStart, ServesExit, SpawnSelfStop

LEMMA RequestType ==
  ASSUME TypeOK, NEW op \in Ops, NEW answer \in Answers, Request(op, answer)
  PROVE  /\ helper' \in {"none", "down", "up"}
         /\ selfStop' \in [first : Nat, retry : Nat]
         /\ late' \subseteq Ops
<1>1. CASE answer # "none" /\ Serves(op, answer = "ok") /\ late' = IF op = "Exit" THEN {} ELSE late
  BY <1>1, ServesType DEF TypeOK, Ops
<1>2. CASE UNCHANGED remote
  BY <1>2 DEF TypeOK, remote, Ops
<1>3. CASE late' \in {late, late \cup {op}} /\ UNCHANGED <<helper, selfStop>>
  BY <1>3 DEF TypeOK, Ops
<1> QED BY <1>1, <1>2, <1>3 DEF Request

\* What a request leaves: it brings the tunnel up only when it is a Start that
\* succeeds, and takes a tunnel that is up down when it is a Stop that is answered.
LEMMA RequestEnds ==
  ASSUME TypeOK, NEW op \in Ops, NEW answer \in Answers, Request(op, answer)
  PROVE  /\ op # "Start" \/ answer # "ok" => helper' # "up" \/ helper = "up"
         /\ op = "Stop" /\ answer # "none" => helper' # "up"
         /\ late' \subseteq late \cup {op}
         /\ answer # "none" => late' \subseteq late
BY DEF TypeOK, Ops, Answers, Request, Serves, ServesStop, ServesStart, ServesExit, remote

-----------------------------------------------------------------------------
\* ------ Types.
LEMMA ClientType ==
  ASSUME TypeOK, Calls \/ CallStep, UNCHANGED world
  PROVE  TypeOK'
<1> USE DEF TypeOK, remote, jobs, client, history, Spawn, AfterStop
<1>1. CASE CoreStart
  BY <1>1 DEF CoreStart
<1>2. CASE CoreStop
  BY <1>2 DEF CoreStop
<1>3. CASE BuildOnly
  BY <1>3 DEF BuildOnly, ActivateTunnelService
<1>4. CASE Build
  <2>1. job' \in [Job -> JobSteps] /\ install' \in [Job -> BOOLEAN]
    BY <1>4 DEF Build, ActivateTunnelService, JobSteps
  <2>2. /\ tunnelServiceRunning' \in BOOLEAN /\ wanted' \in BOOLEAN /\ again' \in BOOLEAN
        /\ abandoned' \in BOOLEAN /\ core' \in {"STARTED", "deactivate"}
    BY <1>4 DEF Build, ActivateTunnelService
  <2>3. disturbed' \in BOOLEAN
    BY <1>4 DEF Build
  <2> QED BY <1>4, <2>1, <2>2, <2>3 DEF Build, JobSteps
<1>5. CASE DeactivateTunnelService
  BY <1>5 DEF DeactivateTunnelService
<1>6. CASE CoreRequestsStop
  <2>1. PICK answer \in Answers :
          /\ Request("Stop", answer)
          /\ core' \in {"STOPPED", "build", "stopRetry"}
          /\ disturbed' \in BOOLEAN /\ abandoned' \in BOOLEAN
          /\ tunnelServiceRunning' \in BOOLEAN
    BY <1>6 DEF CoreRequestsStop
  <2> QED BY <1>6, <2>1, RequestType DEF CoreRequestsStop, Ops
<1> QED BY <1>1, <1>2, <1>3, <1>4, <1>5, <1>6 DEF Calls, CallStep

LEMMA JobType ==
  ASSUME TypeOK, NEW j \in Job, JobStep(j), UNCHANGED world
  PROVE  TypeOK'
<1> USE DEF TypeOK, remote, client, history, Becomes, EndStart, NotesAnswer, Ops
<1>1. CASE Probe(j)
  BY <1>1 DEF Probe
<1>2. CASE StopFirst(j)
  BY <1>2, RequestType DEF StopFirst
<1>3. CASE StartTunnel(j)
  <2>1. PICK answer \in Answers :
          /\ Request("Start", answer)
          /\ disturbed' \in BOOLEAN /\ abandoned' \in BOOLEAN
          /\ \E step \in {"exit", "free", "failed"} : job' = [job EXCEPT ![j] = step]
    BY <1>3 DEF StartTunnel
  <2> QED BY <1>3, <2>1, RequestType DEF StartTunnel
<1>4. CASE ExitTunnelService(j)
  BY <1>4, RequestType DEF ExitTunnelService
<1>5. CASE Install(j) \/ RunHelper(j)
  BY <1>5 DEF Install, RunHelper, Serving
<1>6. CASE Failover(j)
  BY <1>6 DEF Failover
<1>7. CASE AsyncStop(j)
  <2>1. PICK answer \in Answers :
          /\ Request("Stop", answer)
          /\ disturbed' \in BOOLEAN /\ abandoned' \in BOOLEAN
          /\ \E step \in {"free", "stopRetry"} : job' = [job EXCEPT ![j] = step]
    BY <1>7 DEF AsyncStop
  <2> QED BY <1>7, <2>1, RequestType DEF AsyncStop
<1> QED BY <1>1, <1>2, <1>3, <1>4, <1>5, <1>6, <1>7 DEF JobStep

LEMMA HelperType ==
  ASSUME TypeOK, SelfStop \/ LateRequest \/ HelperDies, UNCHANGED world
  PROVE  TypeOK'
<1> USE DEF TypeOK, client, jobs, history
<1>1. CASE SelfStop
  BY <1>1 DEF SelfStop
<1>2. CASE LateRequest
  <2>1. PICK op \in late, ok \in BOOLEAN : Serves(op, ok) /\ late' \subseteq late
    BY <1>2 DEF LateRequest
  <2> QED BY <1>2, <2>1, ServesType DEF LateRequest, Ops
<1>3. CASE HelperDies
  BY <1>3 DEF HelperDies, Dies
<1> QED BY <1>1, <1>2, <1>3

\* Every variable of the tunnel keeps its type: in particular no count of the Stops
\* to itself goes below zero.
THEOREM TunnelTypes == Spec => []TypeOK
<1>1. Init => TypeOK
  <2> SUFFICES ASSUME Init PROVE TypeOK
    OBVIOUS
  <2>1. world \in World
    BY WorldAssumption DEF Init
  <2>2. selfStop \in [first : Nat, retry : Nat]
    BY DEF Init
  <2>3. job \in [Job -> JobSteps] /\ install \in [Job -> BOOLEAN]
    BY DEF Init, JobSteps
  <2> QED BY <2>1, <2>2, <2>3 DEF Init, TypeOK, JobSteps
<1>2. TypeOK /\ [Next]_vars => TypeOK'
  <2>1. TypeOK /\ UNCHANGED vars => TypeOK'
    BY DEF TypeOK, vars, client, jobs, remote, history
  <2> QED BY <2>1, ClientType, JobType, HelperType DEF Next, Step
<1> QED BY <1>1, <1>2, PTL DEF Spec

-----------------------------------------------------------------------------
(***************************************************************************)
(* Behind a tunnel that has no core there is a stop.  Once the core has    *)
(* begun to stop and has not abandoned anything no start is in flight and  *)
(* none is left behind in the tunnel, so what may be up is what the stop   *)
(* finds.                                                                  *)
(***************************************************************************)
OrphanInv ==
  /\ ~abandoned /\ core \in {"STOPPED", "stop", "stopRetry"} =>
       Starts = {} /\ "Start" \notin late
  /\ NoOrphan

LEMMA OrphanClient ==
  ASSUME TypeOK, OrphanInv, Calls \/ CallStep
  PROVE  OrphanInv'
<1> USE DEF OrphanInv, NoOrphan, TypeOK, Starts, remote, jobs, history, AfterStop
<1>1. CASE CoreStart
  BY <1>1 DEF CoreStart
<1>2. CASE CoreStop
  BY <1>2 DEF CoreStop
<1>3. CASE BuildOnly
  <2>1. abandoned' \/ core' \notin {"STOPPED", "stop", "stopRetry"}
    BY <1>3 DEF BuildOnly
  <2> QED BY <2>1
<1>4. CASE Build
  <2>1. core' \in {"STARTED", "deactivate"}
    BY <1>4 DEF Build
  <2> QED BY <2>1
<1>5. CASE DeactivateTunnelService
  <2>1. CASE Starts # {} \/ "Start" \in late
    BY <1>5, <2>1 DEF DeactivateTunnelService
  <2>2. CASE Starts = {} /\ "Start" \notin late /\ tunnelServiceRunning
    BY <1>5, <2>2 DEF DeactivateTunnelService
  <2>3. CASE Starts = {} /\ "Start" \notin late /\ ~tunnelServiceRunning
    <3>1. PICK j \in Job : job' = [job EXCEPT ![j] = "stop"]
      BY <1>5, <2>3 DEF DeactivateTunnelService, Spawn
    <3>2. Starts' = {} /\ job'[j] = "stop"
      BY <2>3, <3>1
    <3> QED BY <1>5, <2>3, <3>2 DEF DeactivateTunnelService
  <2> QED BY <2>1, <2>2, <2>3
<1>6. CASE CoreRequestsStop
  <2>1. PICK answer \in Answers :
          /\ Request("Stop", answer) /\ UNCHANGED job
          /\ core \in {"stop", "stopRetry"}
          /\ core' = "STOPPED" /\ answer = "none" => core = "stopRetry"
          /\ abandoned' = (abandoned \/ (core = "stopRetry" /\ answer = "none"))
    BY <1>6 DEF CoreRequestsStop
  <2>2. late' \subseteq late \cup {"Stop"} /\ (answer # "none" => helper' # "up")
    BY <2>1, RequestEnds DEF Ops
  <2> QED BY <2>1, <2>2
<1> QED BY <1>1, <1>2, <1>3, <1>4, <1>5, <1>6 DEF Calls, CallStep

LEMMA OrphanJob ==
  ASSUME TypeOK, OrphanInv, NEW j \in Job, JobStep(j)
  PROVE  OrphanInv'
<1> USE DEF OrphanInv, NoOrphan, TypeOK, Starts, remote, client, history, Becomes, EndStart,
            NotesAnswer, Ops
<1>1. CASE job[j] \in {"probe", "stopFirst", "start", "exit", "install", "run"}
  <2>1. UNCHANGED <<core, abandoned>>
    BY <1>1
       DEF JobStep, Probe, StopFirst, StartTunnel, ExitTunnelService, Install, RunHelper,
           Failover, AsyncStop
  <2> QED BY <1>1, <2>1
<1>2. CASE Failover(j)
  BY <1>2 DEF Failover
<1>3. CASE AsyncStop(j)
  <2>1. PICK answer \in Answers :
          /\ Request("Stop", answer)
          /\ \/ job[j] = "stop" /\ job' = [job EXCEPT ![j] = "free"] /\ answer = "ok"
             \/ job[j] = "stop" /\ job' = [job EXCEPT ![j] = "stopRetry"]
             \/ job[j] = "stopRetry" /\ job' = [job EXCEPT ![j] = "free"]
          /\ abandoned' = (abandoned \/ (job[j] = "stopRetry" /\ answer = "none"))
    BY <1>3 DEF AsyncStop
  <2>2. late' \subseteq late \cup {"Stop"} /\ (answer # "none" => helper' # "up")
    BY <2>1, RequestEnds
  <2>3. UNCHANGED core
    BY <1>3 DEF AsyncStop
  <2>4. Starts' \subseteq Starts
    BY <2>1
  <2>5. CASE answer # "none"
    BY <2>1, <2>2, <2>3, <2>4, <2>5
  <2>6. CASE answer = "none"
    BY <2>1, <2>2, <2>3, <2>4, <2>6
  <2> QED BY <2>5, <2>6 DEF Answers
<1> QED BY <1>1, <1>2, <1>3
       DEF JobStep, Probe, StopFirst, StartTunnel, ExitTunnelService, Install, RunHelper

LEMMA OrphanHelper ==
  ASSUME TypeOK, OrphanInv, SelfStop \/ LateRequest \/ HelperDies \/ UNCHANGED vars
  PROVE  OrphanInv'
<1> USE DEF OrphanInv, NoOrphan, TypeOK, Starts, client, jobs, history
<1>1. CASE SelfStop
  BY <1>1 DEF SelfStop
<1>2. CASE LateRequest
  BY <1>2 DEF LateRequest, Serves, ServesStop, ServesStart, ServesExit
<1>3. CASE HelperDies
  BY <1>3 DEF HelperDies, Dies
<1>4. CASE UNCHANGED vars
  BY <1>4 DEF vars, remote
<1> QED BY <1>1, <1>2, <1>3, <1>4

\* Behind every tunnel that is up without a core there is a stop on its way, in every
\* world and whatever was called, unless the tunnel was abandoned: by a stop of the
\* core with a start in flight, by a build after the stop, or by a stop without an
\* answer.
THEOREM TunnelHasCause == Spec => []NoOrphan
<1>1. Init => OrphanInv
  BY DEF Init, OrphanInv, NoOrphan, Starts
<1>2. TypeOK /\ OrphanInv /\ [Next]_vars => OrphanInv'
  BY OrphanClient, OrphanJob, OrphanHelper DEF Next, Step
<1>3. OrphanInv => NoOrphan
  BY DEF OrphanInv
<1> QED BY <1>1, <1>2, <1>3, TunnelTypes, PTL DEF Spec
-----------------------------------------------------------------------------
(***************************************************************************)
(* As long as nothing has disturbed, one thing is in flight at a time.     *)
(* The tunnel is on its way up, and the only goroutine is the one that     *)
(* starts it; or it is up, and nothing is in flight but a call of the      *)
(* core; or it is down and not wanted, and only Stops are in flight.       *)
(***************************************************************************)
NoSelfStop == [first |-> 0, retry |-> 0]

NoJobs == \A j \in Job : job[j] = "free"

Starting(j) ==
  /\ job[j] \in {"probe", "stopFirst", "start", "exit", "install", "run"}
  /\ \A k \in Job \ {j} : job[k] = "free"
  /\ core \in {"STARTED", "deactivate"} /\ wanted /\ tunnelServiceRunning
  /\ helper # "up"
  /\ job[j] # "exit" => selfStop = NoSelfStop
  /\ job[j] \in {"stopFirst", "start"} => helper = "down"

TunnelUp ==
  /\ helper = "up" /\ selfStop = NoSelfStop /\ NoJobs
  /\ tunnelServiceRunning
  /\ core \in {"STARTED", "deactivate", "stop"}
  /\ core = "STARTED" => wanted

TunnelDown == ~wanted /\ helper # "up" /\ Starts = {}

\* What always holds: a Stop to itself needs the privileged process, and a core
\* that has passed its deactivation does not want the tunnel.
AlwaysInv ==
  /\ helper = "none" => selfStop = NoSelfStop
  /\ core \in {"STOPPED", "build", "stop", "stopRetry"} => ~wanted

SafeInv ==
  ~disturbed => late = {} /\ (TunnelUp \/ TunnelDown \/ \E j \in Job : Starting(j))

LEMMA AlwaysStep ==
  ASSUME TypeOK, AlwaysInv, [Next]_vars
  PROVE  AlwaysInv'
<1> USE DEF AlwaysInv, NoSelfStop, TypeOK, remote, client, jobs, history
<1>1. CASE Calls
  <2>1. CASE CoreStart
    BY <2>1 DEF CoreStart
  <2>2. CASE CoreStop
    BY <2>2 DEF CoreStop
  <2>3. CASE BuildOnly
    BY <2>3 DEF BuildOnly, ActivateTunnelService
  <2> QED BY <1>1, <2>1, <2>2, <2>3 DEF Calls
<1>2. CASE CallStep
  <2>1. CASE Build
    BY <2>1 DEF Build
  <2>2. CASE DeactivateTunnelService
    BY <2>2 DEF DeactivateTunnelService
  <2>3. CASE CoreRequestsStop
    <3>1. core \in {"stop", "stopRetry"} /\ UNCHANGED wanted
      BY <2>3 DEF CoreRequestsStop
    <3>2. PICK answer \in Answers : Request("Stop", answer)
      BY <2>3 DEF CoreRequestsStop
    <3>3. helper' = "none" => selfStop' = NoSelfStop
      BY <3>2 DEF Request, Serves, ServesStop
    <3> QED BY <3>1, <3>3
  <2> QED BY <1>2, <2>1, <2>2, <2>3 DEF CallStep
<1>3. CASE SelfStop
  BY <1>3 DEF SelfStop
<1>4. CASE LateRequest
  BY <1>4 DEF LateRequest, Serves, ServesStop, ServesStart, ServesExit
<1>5. CASE HelperDies
  BY <1>5 DEF HelperDies, Dies
<1>6. ASSUME NEW j \in Job, JobStep(j)
      PROVE  AlwaysInv'
  <2>1. UNCHANGED <<core, wanted>>
    BY <1>6
       DEF JobStep, Probe, StopFirst, StartTunnel, ExitTunnelService, Install, RunHelper,
           Failover, AsyncStop
  <2>2. \/ UNCHANGED <<helper, selfStop>>
        \/ helper' \in Serving /\ UNCHANGED selfStop
        \/ \E op \in Ops, answer \in Answers : Request(op, answer)
    BY <1>6
       DEF JobStep, Probe, StopFirst, StartTunnel, ExitTunnelService, Install, RunHelper,
           Failover, AsyncStop, Ops
  <2>3. helper' = "none" => selfStop' = NoSelfStop
    BY <2>2 DEF Serving, Request, Serves, ServesStop, ServesStart, ServesExit
  <2> QED BY <2>1, <2>3
<1>7. CASE UNCHANGED vars
  BY <1>7 DEF vars
<1> QED BY <1>1, <1>2, <1>3, <1>4, <1>5, <1>6, <1>7 DEF Next, Step

LEMMA QuietMeansNothing ==
  ASSUME TypeOK, Quiet
  PROVE  NoJobs /\ selfStop = NoSelfStop /\ late = {}
<1> DEFINE busy == {j \in Job : Busy(j)}
<1>1. IsFiniteSet(busy) /\ IsFiniteSet(late)
  <2>1. IsFiniteSet({"Start", "Stop", "Exit"})
    <3>1. IsFiniteSet({"Start"} \cup {"Stop"} \cup {"Exit"})
      BY FS_Singleton, FS_Union
    <3> QED BY <3>1, Zenon
  <2> QED BY <2>1, JobAssumption, FS_Subset DEF TypeOK
<1>2. Cardinality(busy) \in Nat /\ Cardinality(late) \in Nat
  BY <1>1, FS_CardinalityType
<1>3. selfStop.first \in Nat /\ selfStop.retry \in Nat
  BY DEF TypeOK
<1>4. Cardinality(busy) = 0 /\ Cardinality(late) = 0 /\ selfStop.first = 0 /\ selfStop.retry = 0
  BY <1>2, <1>3 DEF Quiet, Pending
<1>5. busy = {} /\ late = {}
  BY <1>1, <1>4, FS_EmptySet
<1> QED BY <1>4, <1>5 DEF TypeOK, NoJobs, Busy, NoSelfStop

\* What a step that does not disturb does to what the user wants and to the tunnel,
\* as in AbstractTunnel.
Stays     == (wanted' <=> wanted) /\ (helper' = "up" <=> helper = "up")
Wants     == (helper = "up" <=> wanted) /\ (wanted' <=> ~wanted) /\ (helper' = "up" <=> wanted)
Follows   == (helper = "up" <=> ~wanted) /\ (helper' = "up" <=> wanted) /\ (wanted' <=> wanted)
Agrees ==
  \/ ~disturbed /\ (Stays \/ Wants \/ Follows)
  \/ disturbed /\ ~wanted /\ helper # "up" /\ helper' # "up"

LEMMA SafeClient ==
  ASSUME TypeOK, AlwaysInv, SafeInv, Calls \/ CallStep, ~disturbed'
  PROVE  SafeInv' /\ Agrees
<1> USE DEF AlwaysInv, SafeInv, TypeOK, Starting, TunnelUp, TunnelDown, NoJobs, NoSelfStop,
            Starts, Agrees, Stays, Wants, Follows, client, jobs, remote, history, AfterStop
<1>1. CASE CoreStart
  BY <1>1 DEF CoreStart
<1>2. CASE CoreStop
  <2>1. Starts = {} /\ core = "STARTED" /\ core' = "deactivate" /\ wanted' = FALSE /\ ~disturbed
        /\ UNCHANGED <<tunnelServiceRunning, job, helper, selfStop, late>>
    BY <1>2 DEF CoreStop
  <2>2. CASE TunnelUp
    <3>1. Wants \/ Stays
      BY <2>1, <2>2
    <3> QED BY <2>1, <2>2, <3>1
  <2>3. CASE TunnelDown
    BY <2>1, <2>3
  <2> QED BY <2>1, <2>2, <2>3
<1>3. CASE BuildOnly
  BY <1>3 DEF BuildOnly
<1>4. CASE Build
  <2>1. ~wanted /\ core' \in {"STARTED", "deactivate"} /\ core = "build"
        /\ UNCHANGED <<helper, selfStop, late>>
    BY <1>4 DEF Build
  <2>2. CASE Quiet /\ helper # "up"
    <3>1. NoJobs /\ selfStop = NoSelfStop /\ late = {}
      BY <2>2, QuietMeansNothing
    <3>2. Agrees
      BY <1>4, <2>1, <2>2 DEF Build
    <3>3. CASE wanted' = FALSE /\ UNCHANGED job
      BY <2>1, <2>2, <3>1, <3>2, <3>3
    <3>4. CASE wanted' = TRUE /\ ActivateTunnelService
      <4>1. PICK j \in Job : job' = [job EXCEPT ![j] = "probe"]
        BY <3>4 DEF ActivateTunnelService, Spawn
      <4>2. Starting(j)'
        BY <2>1, <2>2, <3>1, <3>4, <4>1 DEF ActivateTunnelService
      <4> QED BY <2>1, <3>1, <3>2, <4>2
    <3> QED BY <1>4, <3>3, <3>4 DEF Build
  <2>3. CASE ~(Quiet /\ helper # "up")
    <3>1. ~disturbed /\ wanted' = FALSE /\ UNCHANGED job
      BY <1>4, <2>3 DEF Build
    <3>2. TunnelDown
      BY <2>1, <3>1
    <3> QED BY <2>1, <3>1, <3>2
  <2> QED BY <2>2, <2>3
<1>5. CASE DeactivateTunnelService
  <2>1. Starts = {} /\ core = "deactivate" /\ wanted' = FALSE /\ ~disturbed
        /\ UNCHANGED <<tunnelServiceRunning, helper, selfStop, late>>
    BY <1>5 DEF DeactivateTunnelService
  <2>2. CASE TunnelUp
    <3>1. core' = "stop" /\ UNCHANGED job
      BY <1>5, <2>2 DEF DeactivateTunnelService
    <3>2. Agrees
      BY <2>1, <2>2
    <3> QED BY <1>5, <2>1, <2>2, <3>1, <3>2 DEF DeactivateTunnelService
  <2>3. CASE TunnelDown
    <3>1. Starts' = {}
      BY <1>5, <2>1 DEF DeactivateTunnelService, Spawn
    <3> QED BY <1>5, <2>1, <2>3, <3>1 DEF DeactivateTunnelService
  <2> QED BY <2>1, <2>2, <2>3
<1>6. CASE CoreRequestsStop
  <2>1. PICK answer \in Answers : Request("Stop", answer) /\ answer # "none" /\ ~disturbed
    BY <1>6 DEF CoreRequestsStop
  <2>2. helper' # "up" /\ late' = {}
    BY <2>1, RequestEnds DEF Ops
  <2>3. ~wanted /\ UNCHANGED <<wanted, job>> /\ core \in {"stop", "stopRetry"}
    BY <1>6 DEF CoreRequestsStop
  <2>4. Starts' = {}
    BY <2>1, <2>3
  <2>5. Agrees
    BY <2>1, <2>2, <2>3
  <2> QED BY <2>2, <2>3, <2>4, <2>5
<1> QED BY <1>1, <1>2, <1>3, <1>4, <1>5, <1>6 DEF Calls, CallStep

LEMMA SafeJob ==
  ASSUME TypeOK, AlwaysInv, SafeInv, NEW j \in Job, JobStep(j), ~disturbed'
  PROVE  SafeInv' /\ Agrees
<1> USE DEF AlwaysInv, SafeInv, TypeOK, NoJobs, NoSelfStop, Starts, client, jobs, remote,
            history, Becomes, EndStart, NotesAnswer, Ops, Stays, Wants, Follows
<1>1. /\ ~disturbed
      /\ UNCHANGED <<tunnelServiceRunning, core, wanted>>
  BY DEF JobStep, Probe, StopFirst, StartTunnel, ExitTunnelService, Install, RunHelper,
         Failover, AsyncStop
<1>2. job[j] # "free"
  BY DEF JobStep, Probe, StopFirst, StartTunnel, ExitTunnelService, Install, RunHelper,
         Failover, AsyncStop
<1>3. CASE Failover(j)
  <2>1. TunnelDown
    BY <1>1, <1>2, <1>3 DEF Failover, TunnelUp, Starting
  <2> QED BY <1>1, <1>3, <2>1 DEF Failover, TunnelDown, Agrees
<1>4. CASE AsyncStop(j)
  <2>1. TunnelDown
    BY <1>1, <1>2, <1>4 DEF AsyncStop, TunnelUp, Starting
  <2>2. PICK answer \in Answers : Request("Stop", answer) /\ answer # "none"
          /\ \E step \in {"free", "stopRetry"} : job' = [job EXCEPT ![j] = step]
    BY <1>4 DEF AsyncStop
  <2>3. helper' # "up" /\ late' = {}
    BY <1>1, <2>2, RequestEnds
  <2> QED BY <1>1, <2>1, <2>2, <2>3 DEF TunnelDown, Agrees
<1>5. CASE job[j] \in {"probe", "stopFirst", "start", "exit", "install", "run"}
  <2>1. Starting(j)
    BY <1>1, <1>2, <1>5 DEF TunnelUp, TunnelDown, Starting
  <2>2. late' = {}
    <3>1. \/ UNCHANGED late
          \/ \E op \in Ops, answer \in Answers : Request(op, answer) /\ answer # "none"
      BY <1>1, <1>5
         DEF JobStep, Probe, StopFirst, StartTunnel, ExitTunnelService, Install, RunHelper,
             Failover, AsyncStop
    <3> QED BY <1>1, <3>1, RequestEnds
  <2>3. CASE Probe(j)
    <3>1. UNCHANGED <<helper, selfStop>>
      BY <2>3 DEF Probe
    <3>2. \/ helper # "none" /\ job' = [job EXCEPT ![j] = "stopFirst"]
          \/ job' = [job EXCEPT ![j] = "install"]
      BY <2>3 DEF Probe
    <3>3. job[j] # "exit" /\ (job'[j] = "stopFirst" => helper = "down")
      BY <2>1, <2>3, <3>2 DEF Probe, Starting
    <3>4. Starting(j)'
      BY <1>1, <2>1, <3>1, <3>2, <3>3 DEF Starting
    <3> QED BY <1>1, <2>1, <2>2, <3>1, <3>4 DEF Starting, Agrees
  <2>4. CASE StopFirst(j)
    <3>1. PICK answer \in Answers : Request("Stop", answer) /\ answer # "none"
      BY <1>1, <2>4 DEF StopFirst
    <3>2. helper' = "down" /\ selfStop' = NoSelfStop
      BY <2>1, <2>4, <3>1 DEF StopFirst, Starting, Request, Serves, ServesStop
    <3> QED BY <1>1, <2>1, <2>2, <2>4, <3>2 DEF StopFirst, Starting, Agrees
  <2>5. CASE StartTunnel(j)
    <3>1. PICK answer \in Answers :
            /\ Request("Start", answer) /\ answer # "none"
            /\ IF answer # "ok" /\ install[j]
                 THEN job' = [job EXCEPT ![j] = "exit"]
                 ELSE job' = [job EXCEPT ![j] = "free"] /\ answer = "ok"
      BY <1>1, <2>5 DEF StartTunnel
    <3>2. helper = "down" /\ selfStop = NoSelfStop
      BY <2>1, <2>5 DEF Starting, StartTunnel
    <3>3. CASE answer = "ok"
      <4>1. helper' = "up" /\ selfStop' = NoSelfStop
        BY <3>1, <3>2, <3>3 DEF Request, Serves, ServesStart, SpawnSelfStop
      <4>2. job' = [job EXCEPT ![j] = "free"]
        BY <3>1, <3>3
      <4>3. TunnelUp'
        BY <1>1, <2>1, <4>1, <4>2 DEF TunnelUp, Starting
      <4> QED BY <1>1, <2>1, <2>2, <4>1, <4>3 DEF Agrees, Starting
    <3>4. CASE answer # "ok"
      <4>1. helper' = "down"
        BY <3>1, <3>2, <3>4 DEF Request, Serves, ServesStart, Answers
      <4>2. job' = [job EXCEPT ![j] = "exit"]
        BY <3>1, <3>4
      <4> QED BY <1>1, <2>1, <2>2, <4>1, <4>2 DEF Starting, Agrees
    <3> QED BY <3>3, <3>4
  <2>6. CASE ExitTunnelService(j)
    <3>1. PICK answer \in Answers : Request("Exit", answer) /\ answer # "none"
      BY <1>1, <2>6 DEF ExitTunnelService
    <3>2. helper' = "none" /\ selfStop' = NoSelfStop
      BY <2>1, <3>1 DEF Starting, Request, Serves, ServesExit, Answers
    <3> QED BY <1>1, <2>1, <2>2, <2>6, <3>2 DEF ExitTunnelService, Starting, Agrees
  <2>7. CASE Install(j) \/ RunHelper(j)
    <3>1. helper' # "up" /\ UNCHANGED selfStop
      BY <2>1, <2>7 DEF Install, RunHelper, Serving, Starting
    <3>2. job[j] # "exit" /\ \E step \in {"probe", "run"} : job' = [job EXCEPT ![j] = step]
      BY <2>7 DEF Install, RunHelper
    <3> QED BY <1>1, <2>1, <2>2, <3>1, <3>2 DEF Starting, Agrees
  <2> QED BY <1>5, <2>3, <2>4, <2>5, <2>6, <2>7 DEF JobStep, Failover, AsyncStop
<1> QED BY <1>3, <1>4, <1>5
       DEF JobStep, Probe, StopFirst, StartTunnel, ExitTunnelService, Install, RunHelper

LEMMA SafeHelper ==
  ASSUME TypeOK, AlwaysInv, SafeInv, SelfStop \/ LateRequest \/ HelperDies, ~disturbed'
  PROVE  SafeInv' /\ Agrees
<1> USE DEF SafeInv, TypeOK, NoSelfStop, client, jobs, history, Stays, Wants, Follows
<1>1. CASE SelfStop
  <2>1. /\ selfStop # NoSelfStop /\ ~disturbed
        /\ UNCHANGED <<tunnelServiceRunning, core, wanted, job, late, disturbed>>
    BY <1>1 DEF SelfStop
  <2>2. helper \in {"up", "down"} /\ helper' = "down"
    BY <1>1, <2>1 DEF SelfStop, AlwaysInv
  <2>3. CASE TunnelDown
    BY <2>1, <2>2, <2>3 DEF TunnelDown, Starts, Agrees
  <2>4. ASSUME NEW j \in Job, Starting(j)
        PROVE  SafeInv' /\ Agrees
    <3>1. Starting(j)'
      BY <2>1, <2>2, <2>4 DEF Starting
    <3> QED BY <2>1, <2>2, <2>4, <3>1 DEF Starting, Agrees
  <2> QED BY <2>1, <2>3, <2>4 DEF TunnelUp
<1>2. ~LateRequest
  <2>1. LateRequest => ~disturbed /\ late # {}
    BY DEF LateRequest
  <2>2. ~disturbed => late = {}
    OBVIOUS
  <2> QED BY <2>1, <2>2
<1>3. CASE HelperDies
  BY <1>3 DEF HelperDies
<1> QED BY <1>1, <1>2, <1>3

LEMMA SafeStep ==
  ASSUME TypeOK, AlwaysInv, SafeInv, Next
  PROVE  SafeInv' /\ (disturbed' \/ Agrees)
<1>1. CASE disturbed'
  BY <1>1 DEF SafeInv
<1>2. CASE ~disturbed'
  BY <1>2, SafeClient, SafeJob, SafeHelper DEF Next, Step
<1> QED BY <1>1, <1>2

LEMMA SafeInvariant == Spec => [](AlwaysInv /\ SafeInv)
<1>1. Init => AlwaysInv /\ SafeInv
  BY DEF Init, AlwaysInv, SafeInv, TunnelDown, Starts, NoSelfStop
<1>2. TypeOK /\ AlwaysInv /\ SafeInv /\ [Next]_vars => (AlwaysInv /\ SafeInv)'
  <2>1. SafeInv /\ UNCHANGED vars => SafeInv'
    BY DEF SafeInv, TunnelUp, TunnelDown, Starting, Starts, NoJobs, vars, client, jobs,
           remote, history
  <2> QED BY <2>1, AlwaysStep, SafeStep
<1> QED BY <1>1, <1>2, TunnelTypes, PTL DEF Spec

\* With no start in flight the tunnel is up exactly when the core that runs was
\* started with it, as long as nothing has disturbed: in every world, for any number
\* of goroutines.
THEOREM QuietTunnelAgrees == Spec => []QuietAgrees
<1>1. AlwaysInv /\ SafeInv => QuietAgrees
  BY DEF AlwaysInv, SafeInv, QuietAgrees, Starting, Starts, TunnelUp, TunnelDown
<1> QED BY <1>1, SafeInvariant, PTL

(***************************************************************************)
(* The refinement: the user changes what he wants only when the tunnel     *)
(* agrees with it, and the tunnel changes only to agree, until something   *)
(* disturbs; and what was disturbed ends only with the tunnel down.  That  *)
(* the tunnel follows in the end is a liveness property, and stays with    *)
(* TLC.                                                                    *)
(***************************************************************************)
\* The tunnel implements the safety part of its promise.
THEOREM TunnelIsSafe == Spec => Promise!Safe
<1> DEFINE Up == helper = "up"
           Act == Promise!Want \/ Promise!Follow \/ Promise!Disturb \/ Promise!Anew
<1>1. Init => Promise!Init
  BY DEF Init, Promise!Init
<1>2. TypeOK /\ TypeOK' /\ AlwaysInv /\ SafeInv /\ [Next]_vars =>
        [Act]_<<wanted, Up, disturbed>>
  <2>1. SUFFICES ASSUME TypeOK, TypeOK', AlwaysInv, SafeInv, [Next]_vars
                 PROVE  [Act]_<<wanted, Up, disturbed>>
    OBVIOUS
  <2>2. CASE UNCHANGED vars
    BY <2>2 DEF vars, client, remote, history
  <2>3. CASE disturbed'
    <3>1. disturbed' = TRUE /\ wanted' \in BOOLEAN /\ Up' \in BOOLEAN
      BY <2>1, <2>3 DEF TypeOK
    <3> QED BY <3>1 DEF Promise!Disturb
  <2>4. CASE Next /\ ~disturbed'
    <3>1. Agrees
      BY <2>1, <2>4, SafeStep
    <3>2. /\ wanted \in BOOLEAN /\ wanted' \in BOOLEAN
          /\ disturbed \in BOOLEAN /\ disturbed' \in BOOLEAN
      BY <2>1 DEF TypeOK
    <3>3. CASE ~disturbed /\ Stays
      BY <2>4, <3>2, <3>3 DEF Stays
    <3>4. CASE ~disturbed /\ Wants
      BY <2>4, <3>2, <3>4 DEF Wants, Promise!Want
    <3>5. CASE ~disturbed /\ Follows
      BY <2>4, <3>2, <3>5 DEF Follows, Promise!Follow
    <3>6. CASE disturbed /\ ~wanted /\ helper # "up" /\ helper' # "up"
      BY <2>4, <3>2, <3>6 DEF Promise!Anew
    <3> QED BY <3>1, <3>3, <3>4, <3>5, <3>6 DEF Agrees
  <2> QED BY <2>1, <2>2, <2>3, <2>4
<1> QED BY <1>1, <1>2, SafeInvariant, TunnelTypes, PTL DEF Spec, Promise!Safe, Promise!state
=============================================================================
