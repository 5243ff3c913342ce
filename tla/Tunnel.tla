------------------------------- MODULE Tunnel -------------------------------
(***************************************************************************)
(* The tunnel: config/admin_service_commander.go in the process of the     *)
(* core, and v2/tunnel_service.go in the privileged process that           *)
(* `HiddifyCli tunnel run` starts and that serves gRPC on port 18020.      *)
(*                                                                         *)
(* The core activates the tunnel while it builds its configuration and     *)
(* deactivates it while it stops.  Activation, and the deactivation of a   *)
(* tunnel that is not flagged as running, are goroutines nobody waits for. *)
(* The privileged process runs the same Start and Stop as the core, so its *)
(* own Stop deactivates "the tunnel" too: it spawns a goroutine that sends *)
(* Stop to port 18020, which is itself.                                    *)
(*                                                                         *)
(* A request is one step, with the whole handler in it: v2.Start and       *)
(* v2.Stop in the privileged process are those of CoreLifecycle, here      *)
(* reduced to whether its instance is up.                                  *)
(***************************************************************************)
EXTENDS Integers, FiniteSets

CONSTANTS
  Job,     \* the goroutines of the core's process (a bound)
  Worlds   \* the worlds to consider

(***************************************************************************)
(* A world: how much may be pending when the core starts or a              *)
(* configuration is built (a bound), and what may go wrong: a start or a   *)
(* stop of the core, the installation or the start of the tunnel, the      *)
(* death of the privileged process, and requests that are answered too     *)
(* late and perhaps executed later.                                        *)
(***************************************************************************)
World == [maxPending : Nat, failing : SUBSET {"core", "tunnel"},
          crashing : BOOLEAN, timeouts : BOOLEAN]

ASSUME JobAssumption   == IsFiniteSet(Job)
ASSUME WorldAssumption == Worlds \subseteq World

VARIABLES
  tunnelServiceRunning,  \* the flag of the core's process
  core,                  \* what the core's last call is doing or left behind
  again,                 \* does the call that stops the core start it again
  wanted,                \* was the core started with the tunnel
  job,                   \* Job -> the step of the goroutine, "free" when none
  install,               \* Job -> may the start still install the service
  helper,                \* the privileged process: "none", "down" or "up"
  selfStop,              \* its Stops to itself: not yet sent, and sent once
  late,                  \* requests whose caller has given up, not yet executed
  disturbed,             \* history: see Build, CoreStop and BuildOnly
  abandoned,             \* history: see DeactivateTunnelService and BuildOnly
  world                  \* the world this is

client  == <<tunnelServiceRunning, core, again, wanted>>
jobs    == <<job, install>>
remote  == <<helper, selfStop, late>>
history == <<disturbed, abandoned>>
vars    == <<client, jobs, remote, history, world>>

Busy(j)  == job[j] # "free"
Starts   == {j \in Job : job[j] \in {"probe", "stopFirst", "start", "exit", "install", "run"}}
Pending  == Cardinality({j \in Job : Busy(j)}) + selfStop.first + selfStop.retry
              + Cardinality(late)
Quiet    == Pending = 0

TypeOK ==
  /\ {tunnelServiceRunning, again, wanted, disturbed, abandoned} \subseteq BOOLEAN
  /\ core \in {"STOPPED", "build", "STARTED", "deactivate", "stop", "stopRetry"}
  /\ job \in [Job -> {"free", "probe", "stopFirst", "start", "exit", "install",
                      "run", "failed", "stop", "stopRetry"}]
  /\ install \in [Job -> BOOLEAN]
  /\ helper \in {"none", "down", "up"}
  /\ selfStop \in [first : Nat, retry : Nat]
  /\ late \subseteq {"Start", "Stop", "Exit"}
  /\ world \in World

\* The core's process begins.  A process of the core before it may have left a
\* tunnel behind.
Init ==
  /\ tunnelServiceRunning = FALSE
  /\ core = "STOPPED"
  /\ again = FALSE
  /\ wanted = FALSE
  /\ job = [j \in Job |-> "free"]
  /\ install = [j \in Job |-> FALSE]
  /\ helper \in {"none", "down", "up"}
  /\ selfStop = [first |-> 0, retry |-> 0]
  /\ late = {}
  /\ disturbed = (helper = "up")
  /\ abandoned = (helper = "up")
  /\ world \in Worlds

-----------------------------------------------------------------------------
(***************************************************************************)
(* The privileged process.  Serves(op, ok): it executes op now, and op     *)
(* succeeds or not.                                                        *)
(***************************************************************************)

\* Stop of an instance that is up: DeactivateTunnelService spawns a Stop to
\* itself, because the flag is never set in this process.
SpawnSelfStop(n) == selfStop' = [selfStop EXCEPT !.first = @ + n]

ServesStop(ok) ==
  \/ ok  /\ helper = "up" /\ helper' = "down" /\ SpawnSelfStop(1)
  \/ ~ok /\ helper = "down" /\ UNCHANGED <<helper, selfStop>>

\* Start stops what is up first; when it fails, StopAndAlert deactivates too.
ServesStart(ok) ==
  LET stopped == IF helper = "up" THEN 1 ELSE 0
  IN  /\ helper # "none"
      /\ \/ ok /\ helper' = "up" /\ SpawnSelfStop(stopped)
         \/ ~ok /\ "tunnel" \in world.failing /\ helper' = "down" /\ SpawnSelfStop(stopped + 1)

\* Exit stops and ends the process: the caller always sees an error, which is
\* what ExitTunnelService takes for success.
ServesExit(ok) == ~ok /\ helper # "none" /\ helper' = "none" /\
                  selfStop' = [first |-> 0, retry |-> 0]

Serves(op, ok) ==
  \/ op = "Stop"  /\ ServesStop(ok)
  \/ op = "Start" /\ ServesStart(ok)
  \/ op = "Exit"  /\ ServesExit(ok)

\* The death of the process takes its goroutines and requests with it.
Dies == helper' = "none" /\ selfStop' = [first |-> 0, retry |-> 0] /\ late' = {}

\* Request(op, answer): the caller sends op and sees it succeed, fail or go
\* unanswered.
Answers == {"ok", "error", "none"}

Request(op, answer) ==
  \/ /\ answer # "none" /\ Serves(op, answer = "ok")
     /\ late' = IF op = "Exit" THEN {} ELSE late
  \/ answer = "error" /\ helper = "none" /\ UNCHANGED remote
  \/ /\ answer = "none" /\ world.timeouts /\ helper # "none"
     /\ late' \in {late, late \cup {op}}
     /\ UNCHANGED <<helper, selfStop>>

\* A request without an answer is one of the things that disturb.
NotesAnswer(answer) ==
  disturbed' = (disturbed \/ answer = "none") /\ UNCHANGED abandoned

\* The goroutine goes on at a step; a start ends.
Becomes(j, step) == job' = [job EXCEPT ![j] = step]

EndStart(j, ok) ==
  /\ Becomes(j, IF ok THEN "free" ELSE "failed")
  /\ disturbed' = (disturbed \/ ~ok)
  /\ UNCHANGED abandoned

\* What follows the stop: nothing, or the rest of Start or Restart.
AfterStop ==
  core' \in IF again THEN {"build"} \cup IF "core" \in world.failing THEN {"STOPPED"} ELSE {}
            ELSE {"STOPPED"}

-----------------------------------------------------------------------------
(***************************************************************************)
(* Mutants: wrong forms of the definitions below, each the way a slip in   *)
(* the code would change them.  Nothing uses them but the checks that the  *)
(* properties notice such slips.                                           *)
(***************************************************************************)

\* The second Stop is sent again and again.
MutantSelfStop ==
  /\ selfStop' = [selfStop EXCEPT !.retry = @ - 1]
  /\ UNCHANGED <<client, jobs, helper, late, history>>

\* Only the flag is set, the start is not sent.
MutantActivate == tunnelServiceRunning' = TRUE /\ UNCHANGED jobs

\* The stop is not sent when the tunnel is not flagged as running.
MutantDeactivate ==
  /\ core = "deactivate"
  /\ IF tunnelServiceRunning THEN core' = "stop" ELSE AfterStop
  /\ wanted' = FALSE
  /\ disturbed' = (disturbed \/ Starts # {})
  /\ abandoned' = (Starts # {} \/ "Start" \in late)
  /\ UNCHANGED <<tunnelServiceRunning, again, jobs, remote>>

\* The connection is made and no request is sent.
MutantRequestsStop ==
  /\ core \in {"stop", "stopRetry"}
  /\ AfterStop
  /\ UNCHANGED <<tunnelServiceRunning, again, wanted, jobs, remote, history>>

\* The goroutine ends after the stop, and the start is never sent.
MutantStopFirst(j) ==
  /\ job[j] = "stopFirst"
  /\ \E answer \in Answers : Request("Stop", answer) /\ NotesAnswer(answer)
  /\ Becomes(j, "free")
  /\ UNCHANGED <<client, install>>

\* The start after an installation may install again.
MutantInstall(j) ==
  /\ job[j] = "install"
  /\ helper' \in {"down", helper}
  /\ Becomes(j, "probe")
  /\ UNCHANGED <<client, install, selfStop, late, history>>

-----------------------------------------------------------------------------
\* A request whose caller no longer waits is executed.
LateRequest ==
  \E op \in late, ok \in BOOLEAN :
    /\ Serves(op, ok)
    /\ late' = IF op = "Exit" THEN {} ELSE late \ {op}
    /\ UNCHANGED <<client, jobs, history>>

\* stopTunnelRequest in the privileged process: an error is followed by a
\* second Stop.
SelfStop ==
  /\ \/ /\ selfStop.first > 0
        /\ \/ /\ helper = "up"
              /\ helper' = "down"
              /\ UNCHANGED selfStop  \* one ends, the one it causes begins
           \/ /\ helper = "down"
              /\ selfStop' = [first |-> selfStop.first - 1, retry |-> selfStop.retry + 1]
              /\ UNCHANGED helper
     \/ /\ selfStop.retry > 0
        /\ helper' = "down"
        /\ selfStop' = [first |-> selfStop.first + IF helper = "up" THEN 1 ELSE 0,
                        retry |-> selfStop.retry - 1]
  /\ UNCHANGED <<client, jobs, late, history>>

HelperDies ==
  /\ world.crashing
  /\ helper # "none"
  /\ Dies
  /\ disturbed' = TRUE
  /\ UNCHANGED <<client, jobs, abandoned>>

-----------------------------------------------------------------------------
(***************************************************************************)
(* The core's process.                                                     *)
(***************************************************************************)
Spawn(step, mayInstall) ==
  \E j \in Job :
    /\ ~Busy(j)
    /\ job' = [job EXCEPT ![j] = step]
    /\ install' = [install EXCEPT ![j] = mayInstall]

ActivateTunnelService == tunnelServiceRunning' = TRUE /\ Spawn("probe", TRUE)

\* Start, of a core that is STOPPED.
CoreStart ==
  /\ core = "STOPPED"
  /\ Pending <= world.maxPending
  /\ core' = "build"
  /\ UNCHANGED <<tunnelServiceRunning, again, wanted, jobs, remote, history>>

\* Stop; or Start or Restart of a core that runs, which stop it and go on.  It
\* disturbs a start that is in flight.
CoreStop ==
  /\ core = "STARTED"
  /\ core' = "deactivate"
  /\ again' \in {FALSE} \cup (IF Pending <= world.maxPending THEN {TRUE} ELSE {})
  /\ wanted' = FALSE
  /\ disturbed' = (disturbed \/ Starts # {})
  /\ UNCHANGED <<tunnelServiceRunning, jobs, remote, abandoned>>

(***************************************************************************)
(* The build inside a start activates the tunnel when the options ask for  *)
(* it.  When something fails later, StopAndAlert deactivates it.  An       *)
(* activation beside something in flight, or over a tunnel that is up,     *)
(* disturbs; a build that finds neither ends what was disturbed before.    *)
(***************************************************************************)
Build ==
  /\ core = "build"
  /\ \/ ActivateTunnelService /\ wanted' = TRUE
     \/ UNCHANGED <<tunnelServiceRunning, jobs>> /\ wanted' = FALSE
  /\ core' \in {"STARTED"} \cup IF "core" \in world.failing THEN {"deactivate"} ELSE {}
  /\ again' = FALSE
  /\ disturbed' = (~(Quiet /\ helper # "up") /\ (disturbed \/ wanted'))
  /\ UNCHANGED <<remote, abandoned>>

\* GenerateConfig, a refresh of the standalone mode, the library's getAllJson:
\* they build without a start, in whatever state the core is, and nobody stops
\* what a build activates while the core is down.
BuildOnly ==
  /\ Pending <= world.maxPending
  /\ ActivateTunnelService
  /\ disturbed' = TRUE
  /\ abandoned' = (abandoned \/ core \in {"STOPPED", "stop", "stopRetry"})
  /\ UNCHANGED <<core, again, wanted, remote>>

\* It abandons a start that is in flight.
DeactivateTunnelService ==
  /\ core = "deactivate"
  /\ \/ tunnelServiceRunning /\ core' = "stop" /\ UNCHANGED jobs
     \/ ~tunnelServiceRunning /\ AfterStop /\ Spawn("stop", FALSE)
  /\ wanted' = FALSE
  /\ disturbed' = (disturbed \/ Starts # {})
  /\ abandoned' = (Starts # {} \/ "Start" \in late)
  /\ UNCHANGED <<tunnelServiceRunning, again, remote>>

\* stopTunnelRequest on the goroutine of the call.  Without an answer to the
\* second Stop the tunnel is abandoned.
CoreRequestsStop ==
  /\ \E answer \in Answers :
       /\ Request("Stop", answer)
       /\ \/ core = "stop" /\ answer = "ok" /\ AfterStop
          \/ core = "stop" /\ answer # "ok" /\ core' = "stopRetry"
          \/ core = "stopRetry" /\ AfterStop
       /\ tunnelServiceRunning' = (tunnelServiceRunning /\ core = "stop")
       /\ disturbed' = (disturbed \/ answer = "none")
       /\ abandoned' = (abandoned \/ (core = "stopRetry" /\ answer = "none"))
  /\ UNCHANGED <<again, wanted, jobs>>

(***************************************************************************)
(* The goroutines.  A start probes the port, stops what may be up, starts; *)
(* when that fails the first time it ends the process, installs the        *)
(* service or runs it itself, and starts over.                             *)
(***************************************************************************)
Probe(j) ==
  /\ job[j] = "probe"
  /\ \/ helper # "none" /\ Becomes(j, "stopFirst") /\ UNCHANGED history
     \/ helper = "none" /\ install[j] /\ Becomes(j, "install") /\ UNCHANGED history
     \/ helper = "none" /\ ~install[j] /\ EndStart(j, FALSE)
  /\ UNCHANGED <<client, install, remote>>

StopFirst(j) ==
  /\ job[j] = "stopFirst"
  /\ \E answer \in Answers : Request("Stop", answer) /\ NotesAnswer(answer)
  /\ Becomes(j, "start")
  /\ UNCHANGED <<client, install>>

StartTunnel(j) ==
  /\ job[j] = "start"
  /\ \E answer \in Answers :
       /\ Request("Start", answer)
       /\ IF answer # "ok" /\ install[j] THEN Becomes(j, "exit") /\ NotesAnswer(answer)
                                         ELSE EndStart(j, answer = "ok")
  /\ UNCHANGED <<client, install>>

ExitTunnelService(j) ==
  /\ job[j] = "exit"
  /\ \E answer \in Answers : Request("Exit", answer) /\ NotesAnswer(answer)
  /\ Becomes(j, "install")
  /\ UNCHANGED <<client, install>>

(***************************************************************************)
(* `tunnel install` reinstalls the service and starts it; a process that   *)
(* serves already keeps the port.  Without an error it may still have done *)
(* nothing: most of the wrappers that ask for root are given no arguments, *)
(* so what they run is not the installation (ShellExecute does not wait).  *)
(* An AppImage has no service and installs nothing, like a failed command. *)
(***************************************************************************)
Serving == {helper} \cup IF helper = "none" THEN {"down"} ELSE {}

Install(j) ==
  /\ job[j] = "install"
  /\ \/ /\ helper' \in Serving
        /\ Becomes(j, "probe")
        /\ install' = [install EXCEPT ![j] = FALSE]
     \/ Becomes(j, "run") /\ UNCHANGED <<helper, install>>
  /\ UNCHANGED <<client, selfStop, late, history>>

RunHelper(j) ==
  /\ job[j] = "run"
  /\ helper' \in Serving
  /\ Becomes(j, "probe")
  /\ install' = [install EXCEPT ![j] = FALSE]
  /\ UNCHANGED <<client, selfStop, late, history>>

\* startTunnelRequestWithFailover reports that the start has failed, no more.
Failover(j) ==
  /\ job[j] = "failed"
  /\ Becomes(j, "free")
  /\ UNCHANGED <<client, install, remote, history>>

\* The stop nobody waits for.
AsyncStop(j) ==
  /\ \E answer \in Answers :
       /\ Request("Stop", answer)
       /\ \/ job[j] = "stop" /\ Becomes(j, IF answer = "ok" THEN "free" ELSE "stopRetry")
          \/ job[j] = "stopRetry" /\ Becomes(j, "free")
       /\ disturbed' = (disturbed \/ answer = "none")
       /\ abandoned' = (abandoned \/ (job[j] = "stopRetry" /\ answer = "none"))
  /\ UNCHANGED <<client, install>>

-----------------------------------------------------------------------------
Calls      == CoreStart \/ CoreStop \/ BuildOnly
CallStep   == Build \/ DeactivateTunnelService \/ CoreRequestsStop
JobStep(j) ==
  Probe(j) \/ StopFirst(j) \/ StartTunnel(j) \/ ExitTunnelService(j)
    \/ Install(j) \/ RunHelper(j) \/ Failover(j) \/ AsyncStop(j)

Step == Calls \/ CallStep \/ SelfStop \/ LateRequest \/ HelperDies
          \/ \E j \in Job : JobStep(j)

Next == Step /\ UNCHANGED world

Spec == Init /\ [][Next]_vars

\* A call that has begun goes on, goroutines that can run do, requests end (each
\* has a deadline), and the privileged process executes what it has accepted.
Fairness == /\ WF_vars(CallStep /\ UNCHANGED world)
            /\ WF_vars(SelfStop /\ UNCHANGED world)
            /\ WF_vars(LateRequest /\ UNCHANGED world)
            /\ \A j \in Job : WF_vars(JobStep(j) /\ UNCHANGED world)

FairSpec == Spec /\ Fairness

-----------------------------------------------------------------------------
\* With no start in flight the tunnel is up exactly when the core that runs was
\* started with it, as long as nothing has disturbed: the last start of the core
\* found nothing in flight and no tunnel, and since then nothing was built beside
\* it, stopped before its start had ended, left without an answer, or failed for
\* good (admin_service_commander.go:30-134, tunnel_service.go:12-101).
QuietAgrees ==
  ~disturbed /\ Starts = {} /\ core \in {"STOPPED", "STARTED"} => ((helper = "up") <=> wanted)

\* A tunnel that is up without a core is about to be stopped, unless it was
\* abandoned: the core was stopped with a start in flight, a configuration was
\* built after the core had been stopped, or a stop had no answer.  Whatever else
\* came before, a stop of the core with no start in flight takes the tunnel down
\* (admin_service_commander.go:42-59, config/config.go:303-304).
NoOrphan ==
  helper = "up" /\ core = "STOPPED" /\ ~abandoned =>
    \E j \in Job : job[j] \in {"stop", "stopRetry"}

\* Under the same condition the tunnel of a stopped core does go down.
StoppedGoesDown ==
  core = "STOPPED" ~> (helper # "up" \/ core # "STOPPED" \/ abandoned)

\* Every start ends: it installs the service at most once.
StartsEnd == \A j \in Job : (j \in Starts) ~> (j \notin Starts)

\* The tunnel implements its promise, which binds it while nothing has disturbed.
Promise == INSTANCE AbstractTunnel WITH up <- (helper = "up")
KeepsPromise == Promise!Spec

\* "Start Tunnel Failed! Stopping core..." (admin_service_commander.go:66).
FailedStartStopsCore == (\E j \in Job : job[j] = "failed") ~> (core # "STARTED")
=============================================================================
