--------------------------- MODULE CoreLifecycle ---------------------------
(***************************************************************************)
(* The lifecycle of the core service: v2/custom.go, v2/coreinfo.go and     *)
(* v2/old_command_server.go.                                               *)
(*                                                                         *)
(* The core is a handful of package variables (CoreState, Box,             *)
(* oldCommandServer, configOptions, and the flag tunnelServiceRunning of   *)
(* package config) that no lock protects.  Every entry point (Start,       *)
(* StartService, Stop, Restart, ServiceReload, Parse, GenerateConfig,      *)
(* ChangeConfigOptions) runs to its end on the goroutine of its caller: a  *)
(* gRPC handler, a signal handler, the refresh loop of the standalone mode *)
(* or a handler of the command server.                                     *)
(*                                                                         *)
(* A caller's step is the code between two accesses to the shared          *)
(* variables.  The test of a pointer and the call through it that follows  *)
(* at once are one step: they use the same load.                           *)
(***************************************************************************)
EXTENDS Integers, FiniteSets

CONSTANTS
  Caller,         \* the goroutines that call the entry points
  Instance,       \* the sing-box instances NewService can return (a bound)
  Server,         \* the command servers NewCommandServer can return (a bound)
  EntryPoint,     \* the entry points the callers use
  Requests,       \* the requests they pass to Start, StartService and Restart
  Serialised,     \* TRUE: a call begins only when no other is in progress
  OutsideBuilds,  \* TRUE: configurations are also built outside of the core
  MayFail,        \* the values of faults to consider: {FALSE}, {TRUE} or both
  Nil             \* the nil pointer

EntryPoints == {"Start", "StartService", "Stop", "Restart", "Reload", "Parse",
                "GenerateConfig", "ChangeConfigOptions"}

\* The entry points with a deferred DeferPanicToError.
Guarded == {"Start", "Stop", "Restart", "Parse", "GenerateConfig"}

(***************************************************************************)
(* What StartService reads of a StartRequest: whether it wants the command *)
(* server, whether the configuration is used as it is, and where it comes  *)
(* from: the request, a file, or neither (both fields empty).              *)
(***************************************************************************)
Request == [cmd : BOOLEAN, raw : BOOLEAN, config : {"content", "path", "none"}]

ASSUME EntryAssumption == EntryPoint \subseteq EntryPoints /\ Requests \subseteq Request
ASSUME FlagAssumption  ==
  Serialised \in BOOLEAN /\ OutsideBuilds \in BOOLEAN /\ MayFail \subseteq BOOLEAN
ASSUME NilAssumption   == Nil \notin Instance \cup Server

NoRequest     == [cmd |-> FALSE, raw |-> FALSE, config |-> "none"]
ReloadRequest == [cmd |-> TRUE,  raw |-> FALSE, config |-> "none"]

VARIABLES
  coreState,             \* CoreState
  box,                   \* Box
  oldCommandServer,      \* oldCommandServer
  configOptions,         \* is the pointer configOptions set
  tunnelServiceRunning,  \* the flag of config/admin_service_commander.go
  instance,              \* Instance -> what became of it
  server,                \* Server -> what became of it
  attached,              \* Server -> the instance SetService gave it
  pc,                    \* Caller -> its next step
  entry,                 \* Caller -> the entry point it is in
  req,                   \* Caller -> the request it passed
  own,                   \* Caller -> the instance it started, until published
  after,                 \* Caller -> its step after StopAndAlert
  closeFailed,           \* history: a Close inside Stop returned an error
  crashed,               \* a panic that nothing recovers ended the process
  faults                 \* may files, configurations and libraries fail

settings == <<configOptions, tunnelServiceRunning>>
shared   == <<coreState, box, oldCommandServer, settings>>
things   == <<instance, server, attached>>
frame    == <<entry, req, own, after>>
ends     == <<closeFailed, crashed>>
vars     == <<shared, things, pc, frame, ends, faults>>

States == {"STOPPED", "STARTING", "STARTED", "STOPPING"}

ServiceSteps == {"load", "build", "serve", "run", "publish", "attach", "started"}
StopSteps    == {"stopCheck", "stopFind", "stopSet", "stopDeact", "stopDetach",
                 "stopClose", "stopClear", "stopServer", "stopForget", "stopDone"}
AlertSteps   == {"saStatus", "saDeact", "saDetach", "saClose", "saClear",
                 "saServer"}
ReloadSteps  == {"reloadSet", "reloadDetach", "reloadForget", "reloadClose",
                 "reloadClear"}
Steps == {"idle", "startCheck", "startSet", "fail", "restartCheck",
          "restartFind", "restartSet", "convert", "default", "options"}
           \cup ServiceSteps \cup StopSteps \cup AlertSteps \cup ReloadSteps

\* The state of the core, and where every call is in it.
CoreOK ==
  /\ coreState \in States
  /\ box \in Instance \cup {Nil}
  /\ oldCommandServer \in Server \cup {Nil}
  /\ configOptions \in BOOLEAN /\ tunnelServiceRunning \in BOOLEAN
  /\ instance \in [Instance -> {"off", "running", "faulty"}]
  /\ server \in [Server -> {"off", "listening", "faulty"}]
  /\ attached \in [Server -> Instance \cup {Nil}]
  /\ closeFailed \in BOOLEAN /\ crashed \in BOOLEAN

FrameOK ==
  /\ pc \in [Caller -> Steps]
  /\ entry \in [Caller -> EntryPoint \cup {"none"}]
  /\ req \in [Caller -> Request]
  /\ own \in [Caller -> Instance \cup {Nil}]
  /\ after \in [Caller -> {"idle", "startSet", "restartSet"}]

StateOK == CoreOK /\ FrameOK

TypeOK == StateOK /\ faults \in BOOLEAN

Init ==
  /\ coreState = "STOPPED"
  /\ box = Nil
  /\ oldCommandServer = Nil
  /\ configOptions = FALSE
  /\ tunnelServiceRunning = FALSE
  /\ instance = [i \in Instance |-> "off"]
  /\ server = [s \in Server |-> "off"]
  /\ attached = [s \in Server |-> Nil]
  /\ pc = [c \in Caller |-> "idle"]
  /\ entry = [c \in Caller |-> "none"]
  /\ req = [c \in Caller |-> NoRequest]
  /\ own = [c \in Caller |-> Nil]
  /\ after = [c \in Caller |-> "idle"]
  /\ closeFailed = FALSE
  /\ crashed = FALSE
  /\ faults \in MayFail

-----------------------------------------------------------------------------
\* ------ Control.
At(c, step) == ~crashed /\ pc[c] = step

Goto(c, step) == pc' = [pc EXCEPT ![c] = step]

\* The call returns to its caller, with or without an error.
Return(c) ==
  /\ Goto(c, "idle")
  /\ entry' = [entry EXCEPT ![c] = "none"]
  /\ req' = [req EXCEPT ![c] = NoRequest]
  /\ own' = [own EXCEPT ![c] = Nil]
  /\ after' = [after EXCEPT ![c] = "idle"]

\* The call goes on at a step, or ends when there is none.
Resume(c, step) ==
  IF step = "idle" THEN Return(c) ELSE Goto(c, step) /\ UNCHANGED frame

\* StopAndAlert begins; the call goes on at step once it is over.
Alert(c, step) ==
  /\ Goto(c, "saStatus")
  /\ after' = [after EXCEPT ![c] = step]
  /\ UNCHANGED <<entry, req, own>>

\* A panic: DeferPanicToError turns it into StopAndAlert and the entry point
\* returns (nil, nil); in an entry point without it the process ends.
Panic(c) ==
  IF entry[c] \in Guarded
  THEN Alert(c, "idle") /\ UNCHANGED crashed
  ELSE crashed' = TRUE /\ UNCHANGED <<pc, frame>>

\* Where the caller of Stop goes on: Start ignores Stop's error, Restart does
\* not.
AfterStop(c, ok) ==
  IF entry[c] = "Start" THEN "startSet"
  ELSE IF entry[c] = "Restart" /\ ok THEN "restartSet" ELSE "idle"

(***************************************************************************)
(* The libraries.  Closing what runs ends it or leaves it in a state       *)
(* nobody knows; closing what does not run is an error or nothing.         *)
(***************************************************************************)
CloseOutcomes == IF faults THEN {"ok", "error"} ELSE {"ok"}

CloseInstance(i, outcome) ==
  instance' = [instance EXCEPT ![i] =
                 IF @ = "running" /\ outcome = "error" THEN "faulty"
                 ELSE IF @ = "running" THEN "off" ELSE @]

CloseServer(s, outcome) ==
  server' = [server EXCEPT ![s] =
               IF @ = "listening" /\ outcome = "error" THEN "faulty"
               ELSE IF @ = "listening" THEN "off" ELSE @]

\* Nothing refers to the instance (the server): the model may use it again.
FreshInstance(i) ==
  /\ instance[i] # "running"
  /\ box # i
  /\ \A c \in Caller : own[c] # i
  /\ \A s \in Server : attached[s] # i

FreshServer(s) ==
  server[s] # "listening" /\ oldCommandServer # s /\ attached[s] = Nil

-----------------------------------------------------------------------------
(***************************************************************************)
(* The steps that several operations share: caller c is at a step, does    *)
(* one thing, and goes on at next.                                         *)
(***************************************************************************)
Test(c, at, condition, yes, no) ==
  /\ At(c, at)
  /\ Resume(c, IF condition THEN yes ELSE no)
  /\ UNCHANGED <<shared, things, ends>>

\* SetCoreStatus.
Status(c, at, state, next) ==
  /\ At(c, at)
  /\ coreState' = state
  /\ Resume(c, next)
  /\ UNCHANGED <<box, oldCommandServer, settings, things, ends>>

\* DeactivateTunnelService: with the flag set it stops the tunnel and waits
\* for the answer, and clears the flag only when the stop fails.
Deactivate(c, at, next) ==
  /\ At(c, at)
  /\ \/ UNCHANGED tunnelServiceRunning
     \/ faults /\ tunnelServiceRunning /\ tunnelServiceRunning' = FALSE
  /\ Goto(c, next)
  /\ UNCHANGED <<coreState, box, oldCommandServer, configOptions, things, frame, ends>>

\* if oldCommandServer != nil { oldCommandServer.SetService(nil) }
Detach(c, at, some, none) ==
  /\ At(c, at)
  /\ \/ /\ oldCommandServer # Nil
        /\ attached' = [attached EXCEPT ![oldCommandServer] = Nil]
        /\ Goto(c, some)
     \/ oldCommandServer = Nil /\ Goto(c, none) /\ UNCHANGED attached
  /\ UNCHANGED <<shared, instance, server, frame, ends>>

\* if Box != nil { Box.Close() }: the error is ignored.
CloseBox(c, at, some, none) ==
  /\ At(c, at)
  /\ \/ /\ box # Nil
        /\ \E outcome \in CloseOutcomes : CloseInstance(box, outcome)
        /\ Goto(c, some)
     \/ box = Nil /\ Goto(c, none) /\ UNCHANGED instance
  /\ UNCHANGED <<shared, server, attached, frame, ends>>

\* Box = nil
ClearBox(c, at, next) ==
  /\ At(c, at)
  /\ box' = Nil
  /\ Goto(c, next)
  /\ UNCHANGED <<coreState, oldCommandServer, settings, things, frame, ends>>

\* oldCommandServer = nil
ForgetServer(c, at, next) ==
  /\ At(c, at)
  /\ oldCommandServer' = Nil
  /\ Goto(c, next)
  /\ UNCHANGED <<coreState, box, settings, things, frame, ends>>

-----------------------------------------------------------------------------
(***************************************************************************)
(* Mutants: wrong forms of the definitions below, each the way a slip in   *)
(* the code would change them.  Nothing uses them but the checks that the  *)
(* properties notice such slips.                                           *)
(***************************************************************************)

\* Start takes any state for STOPPED; Restart starts without stopping.
MutantStartCheck(c)  == Test(c, "startCheck", FALSE, "stopCheck", "startSet")
MutantRestartFind(c) == Test(c, "restartFind", box # Nil, "restartSet", "idle")

\* The new server is kept in a local variable.
MutantServe(c) ==
  At(c, "serve") /\ Goto(c, "run") /\ UNCHANGED <<shared, things, frame, ends>>

\* The wrong variable is assigned.
MutantPublish(c) ==
  /\ At(c, "publish")
  /\ box' = oldCommandServer
  /\ own' = [own EXCEPT ![c] = Nil]
  /\ Goto(c, IF req[c].cmd THEN "attach" ELSE "started")
  /\ UNCHANGED <<coreState, oldCommandServer, settings, things, entry, req, after, ends>>

\* An error is returned at once; the box is closed and not forgotten; the
\* server is not closed.
MutantFail(c)        == Test(c, "fail", TRUE, "idle", "idle")
MutantAlertClose(c)  == CloseBox(c, "saClose", "saServer", "saServer")
MutantAlertServer(c) == Test(c, "saServer", TRUE, after[c], after[c])

\* Stop reports STOPPED before it has closed the box, does not detach the box, does
\* not forget it, does not report STOPPED.
MutantStopDeactivate(c) == Status(c, "stopDeact", "STOPPED", "stopDetach")
MutantStopDetach(c) == Test(c, "stopDetach", TRUE, "stopClose", "stopClose")
MutantStopClear(c)  == Test(c, "stopClear", TRUE, "stopServer", "stopServer")
MutantStopDone(c)   == Test(c, "stopDone", TRUE, AfterStop(c, TRUE), "idle")

-----------------------------------------------------------------------------
\* ------ A call begins.
FirstStep == [Start               |-> "startCheck",
              StartService        |-> "load",
              Stop                |-> "stopCheck",
              Restart             |-> "restartCheck",
              Reload              |-> "reloadSet",
              Parse               |-> "convert",
              GenerateConfig      |-> "default",
              ChangeConfigOptions |-> "options"]

RequestsOf(e) ==
  IF e \in {"Start", "StartService", "Restart"} THEN Requests
  ELSE IF e = "Reload" THEN {ReloadRequest} ELSE {NoRequest}

\* The bound of the model: a call needs at most one instance and one server
\* that nothing refers to, and begins only when there are enough of both.
Room ==
  LET busy == Cardinality({c \in Caller : pc[c] # "idle"})
  IN  /\ Cardinality({i \in Instance : FreshInstance(i)}) > busy
      /\ Cardinality({s \in Server : FreshServer(s)}) > busy

\* Caller c begins a call of entry point e with request r.
Begin(c, e, r) ==
  /\ At(c, "idle")
  /\ Goto(c, FirstStep[e])
  /\ entry' = [entry EXCEPT ![c] = e]
  /\ req' = [req EXCEPT ![c] = r]
  /\ UNCHANGED <<shared, things, own, after, ends, faults>>

Call(c) ==
  /\ Serialised => \A d \in Caller : pc[d] = "idle"
  /\ Room
  /\ \E e \in EntryPoint : \E r \in RequestsOf(e) : Begin(c, e, r)

\* ------ Start.
StartCheck(c) ==
  Test(c, "startCheck", coreState # "STOPPED", "stopCheck", "startSet")
StartSet(c) == Status(c, "startSet", "STARTING", "load")

\* ------ StartService.

\* Read the file when the request has no content, and parse.  The path of a
\* request without content and without path is the empty one: reading fails.
Load(c) ==
  /\ At(c, "load")
  /\ \/ /\ req[c].config # "none"
        /\ Goto(c, IF req[c].raw THEN "serve" ELSE "build")
     \/ /\ faults \/ req[c].config = "none"
        /\ Goto(c, "fail")
  /\ UNCHANGED <<shared, things, frame, ends>>

\* BuildConfig(*configOptions, ...): dereferences the options, activates the
\* tunnel when they ask for it, and may fail (or panic on a short client id)
\* after that.
Build(c) ==
  /\ At(c, "build")
  /\ \/ /\ ~configOptions
        /\ Panic(c)
        /\ UNCHANGED tunnelServiceRunning
     \/ /\ configOptions
        /\ tunnelServiceRunning' \in {tunnelServiceRunning, TRUE}
        /\ \/ Goto(c, "serve") /\ UNCHANGED <<frame, crashed>>
           \/ faults /\ Goto(c, "fail") /\ UNCHANGED <<frame, crashed>>
           \/ faults /\ Panic(c)
  /\ UNCHANGED <<coreState, box, oldCommandServer, configOptions, things, closeFailed>>

\* startCommandServer: the new server replaces the old one before it is
\* started, and stays when starting fails.
Serve(c) ==
  /\ At(c, "serve")
  /\ \/ /\ ~req[c].cmd
        /\ Goto(c, "run")
        /\ UNCHANGED <<oldCommandServer, server>>
     \/ /\ req[c].cmd
        /\ \E s \in Server :
             /\ FreshServer(s)
             /\ oldCommandServer' = s
             /\ \/ /\ server' = [server EXCEPT ![s] = "listening"]
                   /\ Goto(c, "run")
                \/ /\ faults
                   /\ server' = [server EXCEPT ![s] = "off"]
                   /\ Goto(c, "fail")
  /\ UNCHANGED <<coreState, box, settings, instance, attached, frame, ends>>

\* NewService and instance.Start: both on an instance only this call knows.
Run(c) ==
  /\ At(c, "run")
  /\ \/ \E i \in Instance :
          /\ FreshInstance(i)
          /\ instance' = [instance EXCEPT ![i] = "running"]
          /\ own' = [own EXCEPT ![c] = i]
          /\ Goto(c, "publish")
     \/ /\ faults
        /\ Goto(c, "fail")
        /\ UNCHANGED <<instance, own>>
  /\ UNCHANGED <<shared, server, attached, entry, req, after, ends>>

\* Box = instance.
Publish(c) ==
  /\ At(c, "publish")
  /\ box' = own[c]
  /\ own' = [own EXCEPT ![c] = Nil]
  /\ Goto(c, IF req[c].cmd THEN "attach" ELSE "started")
  /\ UNCHANGED <<coreState, oldCommandServer, settings, things, entry, req, after, ends>>

\* oldCommandServer.SetService(Box), with whatever the two variables hold now.
Attach(c) ==
  /\ At(c, "attach")
  /\ \/ /\ oldCommandServer # Nil
        /\ attached' = [attached EXCEPT ![oldCommandServer] = box]
        /\ Goto(c, "started")
        /\ UNCHANGED <<frame, crashed>>
     \/ /\ oldCommandServer = Nil
        /\ Panic(c)
        /\ UNCHANGED attached
  /\ UNCHANGED <<shared, instance, server, closeFailed>>

Started(c) == Status(c, "started", "STARTED", "idle")

\* An error path of StartService: SetCoreStatus with the reason, StopAndAlert.
Fail(c) ==
  /\ At(c, "fail")
  /\ coreState' = "STOPPED"
  /\ Alert(c, "idle")
  /\ UNCHANGED <<box, oldCommandServer, settings, things, ends>>

(***************************************************************************)
(* StopAndAlert: it forgets the box whatever Close returned, and closes    *)
(* the command server without forgetting it.                               *)
(***************************************************************************)
AlertStatus(c)     == Status(c, "saStatus", "STOPPED", "saDeact")
AlertDeactivate(c) == Deactivate(c, "saDeact", "saDetach")
AlertDetach(c)     == Detach(c, "saDetach", "saClose", "saClose")
AlertClose(c)      == CloseBox(c, "saClose", "saClear", "saServer")
AlertClear(c)      == ClearBox(c, "saClear", "saServer")

AlertServer(c) ==
  /\ At(c, "saServer")
  /\ IF oldCommandServer # Nil
     THEN \E outcome \in CloseOutcomes : CloseServer(oldCommandServer, outcome)
     ELSE UNCHANGED server
  /\ Resume(c, after[c])
  /\ UNCHANGED <<shared, instance, attached, ends>>

\* ------ Stop, called by a client, by Start or by Restart.
StopCheck(c) ==
  Test(c, "stopCheck", coreState = "STARTED", "stopFind", AfterStop(c, FALSE))
StopFind(c) == Test(c, "stopFind", box # Nil, "stopSet", AfterStop(c, FALSE))

StopSet(c)        == Status(c, "stopSet", "STOPPING", "stopDeact")
StopDeactivate(c) == Deactivate(c, "stopDeact", "stopDetach")
StopDetach(c)     == Detach(c, "stopDetach", "stopClose", "stopClose")

\* Box.Close(): Box is read again, another call may have cleared it since the
\* test.  The panic is recovered in Stop itself, which returns without error.
\* An error ends Stop with CoreState, Box and the server as they are.
StopClose(c) ==
  /\ At(c, "stopClose")
  /\ \/ /\ box = Nil
        /\ Alert(c, AfterStop(c, TRUE))
        /\ UNCHANGED <<instance, closeFailed>>
     \/ /\ box # Nil
        /\ CloseInstance(box, "ok")
        /\ Goto(c, "stopClear")
        /\ UNCHANGED <<frame, closeFailed>>
     \/ /\ box # Nil /\ faults
        /\ CloseInstance(box, "error")
        /\ closeFailed' = TRUE
        /\ Resume(c, AfterStop(c, FALSE))
  /\ UNCHANGED <<shared, server, attached, crashed>>

StopClear(c) == ClearBox(c, "stopClear", "stopServer")

StopServer(c) ==
  /\ At(c, "stopServer")
  /\ \/ /\ oldCommandServer = Nil
        /\ Goto(c, "stopDone")
        /\ UNCHANGED <<server, frame, closeFailed>>
     \/ /\ oldCommandServer # Nil
        /\ CloseServer(oldCommandServer, "ok")
        /\ Goto(c, "stopForget")
        /\ UNCHANGED <<frame, closeFailed>>
     \/ /\ oldCommandServer # Nil /\ faults
        /\ CloseServer(oldCommandServer, "error")
        /\ closeFailed' = TRUE
        /\ Resume(c, AfterStop(c, FALSE))
  /\ UNCHANGED <<shared, instance, attached, crashed>>

StopForget(c) == ForgetServer(c, "stopForget", "stopDone")
StopDone(c)   == Status(c, "stopDone", "STOPPED", AfterStop(c, TRUE))

\* ------ Restart.
RestartCheck(c) ==
  Test(c, "restartCheck", coreState = "STARTED", "restartFind", "idle")
RestartFind(c) == Test(c, "restartFind", box # Nil, "stopCheck", "idle")
RestartSet(c)  == Status(c, "restartSet", "STARTING", "load")

(***************************************************************************)
(* ServiceReload, called by the command server for one of its clients: it  *)
(* forgets the server without closing it, closes the box, and starts with  *)
(* a request that names no configuration.                                  *)
(***************************************************************************)
ReloadSet(c)    == Status(c, "reloadSet", "STARTING", "reloadDetach")
ReloadDetach(c) == Detach(c, "reloadDetach", "reloadForget", "reloadClose")
ReloadForget(c) == ForgetServer(c, "reloadForget", "reloadClose")
ReloadClose(c)  == CloseBox(c, "reloadClose", "reloadClear", "load")
ReloadClear(c)  == ClearBox(c, "reloadClear", "load")

\* ------ Parse, GenerateConfig and ChangeConfigOptions.

\* ChangeConfigOptions replaces the options before it decodes the new ones,
\* so they are set even when it then returns an error; GenerateConfig gives
\* them their defaults when there are none, and goes on.
SetOptions(c) ==
  /\ \/ At(c, "options") /\ Return(c)
     \/ At(c, "default") /\ Goto(c, "convert") /\ UNCHANGED frame
  /\ configOptions' = TRUE
  /\ UNCHANGED <<coreState, box, oldCommandServer, tunnelServiceRunning, things, ends>>

\* Parse converts a configuration; GenerateConfig builds one, with the side
\* effect on the tunnel that building has.  A panic of either stops the core.
Convert(c) ==
  /\ At(c, "convert")
  /\ tunnelServiceRunning' \in
       {tunnelServiceRunning} \cup {entry[c] = "GenerateConfig" \/ tunnelServiceRunning}
  /\ \/ Return(c) /\ UNCHANGED crashed
     \/ faults /\ Panic(c)
  /\ UNCHANGED <<coreState, box, oldCommandServer, configOptions, things, closeFailed>>

-----------------------------------------------------------------------------
StartSteps(c)   == StartCheck(c) \/ StartSet(c)
ServiceStep(c)  == Load(c) \/ Build(c) \/ Serve(c) \/ Run(c) \/ Publish(c)
                     \/ Attach(c) \/ Started(c) \/ Fail(c)
AlertStep(c)    == AlertStatus(c) \/ AlertDeactivate(c) \/ AlertDetach(c)
                     \/ AlertClose(c) \/ AlertClear(c) \/ AlertServer(c)
StopStep(c)     == StopCheck(c) \/ StopFind(c) \/ StopSet(c)
                     \/ StopDeactivate(c) \/ StopDetach(c) \/ StopClose(c)
                     \/ StopClear(c) \/ StopServer(c) \/ StopForget(c)
                     \/ StopDone(c)
RestartStep(c)  == RestartCheck(c) \/ RestartFind(c) \/ RestartSet(c)
ReloadStep(c)   == ReloadSet(c) \/ ReloadDetach(c) \/ ReloadForget(c)
                     \/ ReloadClose(c) \/ ReloadClear(c)
ConfigStep(c)   == SetOptions(c) \/ Convert(c)

\* A step of a call that has begun.
Step(c) ==
  /\ \/ StartSteps(c) \/ ServiceStep(c) \/ AlertStep(c) \/ StopStep(c)
     \/ RestartStep(c) \/ ReloadStep(c) \/ ConfigStep(c)
  /\ UNCHANGED faults

(***************************************************************************)
(* BuildConfig outside of any entry point: the standalone mode builds on   *)
(* its own goroutines, where nothing recovers a panic.                     *)
(***************************************************************************)
BuildOutside ==
  /\ OutsideBuilds
  /\ ~crashed
  /\ tunnelServiceRunning' \in {tunnelServiceRunning, TRUE}
  /\ crashed' \in {FALSE, faults}
  /\ UNCHANGED <<coreState, box, oldCommandServer, configOptions, things, pc,
                 frame, closeFailed, faults>>

Next == BuildOutside \/ \E c \in Caller : Call(c) \/ Step(c)

Spec == Init /\ [][Next]_vars

\* The Go runtime schedules every goroutine that can run, and the libraries'
\* calls return: a call that has begun goes on.  Nobody has to call.
Fairness == \A c \in Caller : WF_vars(Step(c))

FairSpec == Spec /\ Fairness

-----------------------------------------------------------------------------
\* ------ What holds however the calls interleave.

\* The steps between SetCoreStatus(STARTING) and the status that replaces it.
Bringing == ServiceSteps \cup (ReloadSteps \ {"reloadSet"})
              \cup {"fail", "saStatus"}

\* The steps of Stop between SetCoreStatus(STOPPING) and SetCoreStatus(STOPPED).
Ending == {"stopDeact", "stopDetach", "stopClose", "stopClear", "stopServer",
           "stopForget", "stopDone", "saStatus"}

\* The steps that clear Box after it was closed.
Clearing == {"stopClear", "saClear", "reloadClear"}

\* CoreState never stays at STARTING when no call is bringing the core up:
\* every path out of StartService, the panics that DeferPanicToError recovers
\* included, sets another status (custom.go:50-155).
NoStrandedStarting ==
  coreState = "STARTING" => \E c \in Caller : pc[c] \in Bringing

\* CoreState stays at STOPPING without a Stop in progress only when a Close
\* inside Stop has failed: those two returns leave the status as it is
\* (custom.go:290-307).
NoStrandedStopping ==
  coreState = "STOPPING" => closeFailed \/ \E c \in Caller : pc[c] \in Ending

\* A Box that was closed is about to be cleared by the call that closed it,
\* unless a Close has failed: no call ever publishes an instance that is not
\* running (custom.go:147, 290-298 and the clearing in the other two places).
BoxRuns ==
  box # Nil =>
    \/ instance[box] # "off"
    \/ closeFailed
    \/ \E c \in Caller : pc[c] \in Clearing

(***************************************************************************)
(* What holds when the client awaits each call and never calls             *)
(* StartService itself.                                                    *)
(***************************************************************************)
Idle == \A c \in Caller : pc[c] = "idle"

Disciplined == Serialised /\ "StartService" \notin EntryPoint

Serving == box # Nil /\ instance[box] = "running"

\* STARTED is reported only while Box is an instance that runs: Stop,
\* StopAndAlert, Restart and ServiceReload all change the status before they
\* close it, and StartService reports it last.
StartedMeansServing ==
  Disciplined /\ coreState = "STARTED" => Serving

\* Between calls, a core that reports STOPPED has no Box.
StoppedMeansNoBox ==
  Disciplined /\ Idle /\ coreState = "STOPPED" => box = Nil

\* No instance that was started is lost: until its Close is called it is Box
\* or still belongs to the call that started it.
NoLostInstance ==
  Disciplined =>
    \A i \in Instance : instance[i] = "running" =>
      box = i \/ \E c \in Caller : own[c] = i

\* A command server never serves an instance that has been closed: SetService
\* (nil) precedes every Close, on every path.
NoDanglingService ==
  Disciplined =>
    \A s \in Server : attached[s] # Nil => instance[attached[s]] = "running"

\* ------ Steps and progress.

\* Nothing brings up the core beside itself: with a client that awaits each
\* call, Box is never overwritten while the instance it refers to runs.
NoOverwrittenBox ==
  [][Disciplined /\ box # Nil /\ box' # box => instance[box] # "running"]_vars

\* Nor is the reference to a command server that listens given up: at most one
\* listens.  ServiceReload does give it up (old_command_server.go:20), and a
\* Close inside Stop that failed may leave one behind (custom.go:36, 300-307).
NoOverwrittenServer ==
  [][Disciplined /\ ~closeFailed /\ oldCommandServer # Nil /\ oldCommandServer' # oldCommandServer
       => \/ server[oldCommandServer] # "listening"
          \/ \E c \in Caller : pc[c] = "reloadForget"]_vars

\* To such a client the core is what AbstractCore says: the statuses come in its
\* order, whatever fails or panics, and a service comes up and goes down only
\* under those that say so (custom.go:26-155, 263-346, old_command_server.go:16-33).
Protocol == INSTANCE AbstractCore
              WITH status <- IF Disciplined THEN coreState ELSE "STOPPED",
                   serving <- Disciplined /\ Serving

KeepsProtocol == Protocol!Spec

\* When nothing fails, a Start with a configuration ends in STARTED, and a
\* Stop that began in STARTED ends in STOPPED.
StartSucceeds ==
  \A c \in Caller :
    (~faults /\ entry[c] = "Start" /\ req[c].config # "none" /\ configOptions)
      ~> (pc[c] = "idle" /\ coreState = "STARTED")
StopSucceeds ==
  \A c \in Caller :
    (~faults /\ entry[c] = "Stop" /\ coreState = "STARTED")
      ~> (pc[c] = "idle" /\ coreState = "STOPPED")

\* "Reloading service" (old_command_server.go:17): when nothing fails, a reload
\* of a core that was up ends with the core up.
ReloadKeepsService ==
  \A c \in Caller :
    (~faults /\ pc[c] = "reloadSet" /\ coreState = "STARTED" /\ configOptions)
      ~> (pc[c] = "idle" /\ coreState = "STARTED")
=============================================================================
