----------------------------- MODULE Standalone -----------------------------
(***************************************************************************)
(* The standalone mode (v2/standalone.go): `HiddifyCli run` reads a        *)
(* configuration, starts the core with it, and looks again at an interval  *)
(* the configuration itself names.  When what it reads has changed it      *)
(* spawns a Stop and a StartService, with no order between them; at a      *)
(* signal it calls Stop and ends.                                          *)
(*                                                                         *)
(* It is composed with the core: its calls are those of CoreLifecycle, on  *)
(* goroutines that are callers of the core, and every step of it is a step *)
(* of the core or leaves the core alone.                                   *)
(***************************************************************************)
EXTENDS CoreLifecycle

CONSTANTS
  Main,         \* the goroutine of RunStandalone; the others are spawned
  ConfigResult, \* what readAndBuildConfig may return: the content, and whether
                \*   the interval is positive
  Drawn         \* the contents with a Clash secret that their build has drawn

\* Mutant: the configuration is built once more.
MutantStartRequest == [cmd |-> FALSE, raw |-> FALSE, config |-> "content"]

\* EnableRawConfig, and no command server.
StartRequest == [cmd |-> FALSE, raw |-> TRUE, config |-> "content"]

ASSUME StandaloneAssumption ==
  /\ Main \in Caller
  /\ ~Serialised /\ OutsideBuilds
  /\ {"StartService", "Stop"} \subseteq EntryPoint
  /\ Requests = {StartRequest}

Config == {r.config : r \in ConfigResult}

ASSUME ResultAssumption == \A r \in ConfigResult : r = [config |-> r.config, timed |-> r.timed]
ASSUME DrawnAssumption  == Drawn \subseteq Config

NoConfig == "none"
Nothing  == [config |-> NoConfig, timed |-> FALSE]

VARIABLES
  main,     \* the step of RunStandalone
  loop,     \* the step of updateConfigInterval, "off" when it does not run
  current,  \* current
  new,      \* what the loop has read and not yet made current
  carries,  \* history: Caller -> the content its StartService was given
  runs,     \* history: Instance -> the content it was made of
  hurried,  \* history: the loop has read while a call it had spawned went on
  updated,  \* history: the loop has spawned calls for a changed content
  tunnel,   \* history: the last request about the tunnel was to activate it
  orderly,  \* history: when the signal came the core ran, and no call of it
            \*   was in flight
  raced     \* history: see Overtakes and ActivatesLate

standalone == <<main, loop, current, new>>
histories  == <<carries, runs, hurried, updated, tunnel, orderly, raced>>
allVars    == <<vars, standalone, histories>>

RunTypeOK ==
  /\ main \in {"read", "start", "wait", "stop", "exited"}
  /\ loop \in {"off", "wait", "compare", "start"}
  /\ current \in ConfigResult \cup IF main \in {"read", "exited"} THEN {Nothing} ELSE {}
  /\ new \in IF loop \in {"off", "wait"} THEN {Nothing} ELSE ConfigResult
  /\ carries \in [Caller -> Config \cup {NoConfig}]
  /\ runs \in [Instance -> Config \cup {NoConfig}]
  /\ {hurried, updated, tunnel, orderly, raced} \subseteq BOOLEAN

RunInit ==
  /\ Init
  /\ main = "read"
  /\ loop = "off"
  /\ current = Nothing
  /\ new = Nothing
  /\ carries = [c \in Caller |-> NoConfig]
  /\ runs = [i \in Instance |-> NoConfig]
  /\ hurried = FALSE
  /\ updated = FALSE
  /\ tunnel = FALSE
  /\ orderly = FALSE
  /\ raced = FALSE

Alive   == main # "exited" /\ ~crashed
Spawned == Caller \ {Main}
AtRest  == \A c \in Spawned : pc[c] = "idle"

-----------------------------------------------------------------------------
\* ------ Calls of the core.

\* Which of the idle goroutines is spawned, and which of the free instances is
\* used, makes no difference: the model takes one.
Idles == {c \in Spawned : pc[c] = "idle"}
Frees == {i \in Instance : FreshInstance(i)}
Spawn(e) == Idles # {} /\ LET c == CHOOSE c \in Idles : TRUE
                         IN  Call(c) /\ entry'[c] = e

\* The loop spawns a call before the Stop of main has passed its tests: they may
\* fail for it.
Overtakes == main = "stop" /\ pc[Main] \in {"stopCheck", "stopFind"}

\* go StartService.
SpawnStart(config) ==
  /\ Spawn("StartService")
  /\ raced' = (raced \/ Overtakes)
  /\ carries' = [carries EXCEPT ![CHOOSE c \in Idles : TRUE] = config]

\* go Stop.
SpawnStop == Spawn("Stop") /\ raced' = (raced \/ Overtakes) /\ UNCHANGED carries

\* A step of a call, and what it means for what runs and for the tunnel.
CoreStep(c) ==
  /\ Alive
  /\ Step(c)
  /\ \A i \in Frees : own'[c] = i => i = CHOOSE j \in Frees : TRUE
  /\ carries' = IF pc'[c] = "idle" THEN [carries EXCEPT ![c] = NoConfig] ELSE carries
  /\ runs' = [i \in Instance |->
                IF instance'[i] = "off" THEN NoConfig
                ELSE IF i # own[c] /\ i = own'[c] THEN carries[c] ELSE runs[i]]
  /\ tunnel' = (tunnel /\ pc[c] \notin {"stopDeact", "saDeact"})
  /\ UNCHANGED <<standalone, hurried, updated, orderly, raced>>

-----------------------------------------------------------------------------
(***************************************************************************)
(* readAndBuildConfig: it may fail before or after it has activated the    *)
(* tunnel, and panic while it builds.  ActivatesLate: the Stop of main has *)
(* already deactivated it.                                                 *)
(***************************************************************************)
ActivatesLate ==
  main = "stop" /\ pc[Main] \notin {"stopCheck", "stopFind", "stopSet", "stopDeact"}

ReadAndBuild ==
  /\ BuildOutside
  /\ \/ UNCHANGED <<tunnel, raced>>
     \/ tunnelServiceRunning' /\ tunnel' = TRUE /\ raced' = (raced \/ ActivatesLate)
  /\ UNCHANGED orderly

-----------------------------------------------------------------------------
(***************************************************************************)
(* Mutants: wrong forms of the definitions below, each the way a slip in   *)
(* the code would change them.  Nothing uses them but the checks that the  *)
(* properties notice such slips.                                           *)
(***************************************************************************)

\* The new service is started with the old configuration.
MutantUpdateStart ==
  /\ Alive /\ loop = "start"
  /\ SpawnStart(current.config)
  /\ loop' = "wait"
  /\ current' = new
  /\ new' = Nothing
  /\ UNCHANGED <<main, runs, hurried, updated, tunnel, orderly>>

\* The signal ends the process without a Stop; Stop is not waited for.
MutantSignal ==
  /\ Alive /\ main = "wait"
  /\ main' = "exited"
  /\ orderly' = (AtRest /\ coreState = "STARTED" /\ box # Nil)
  /\ UNCHANGED <<vars, loop, current, new, carries, runs, hurried, updated, tunnel, raced>>

\* What was read is taken for changed.
MutantChanged == TRUE

\* The error of the first read is printed and not returned.
MutantFirstRead ==
  /\ Alive /\ main = "read"
  /\ ReadAndBuild
  /\ \/ \E r \in ConfigResult : current' = r
     \/ faults /\ UNCHANGED current
  /\ main' = "start"
  /\ UNCHANGED <<loop, new, carries, runs, hurried, updated>>

-----------------------------------------------------------------------------
\* ------ RunStandalone.
FirstRead ==
  /\ Alive /\ main = "read"
  /\ ReadAndBuild
  /\ \/ \E r \in ConfigResult : current' = r /\ main' = "start"
     \/ faults /\ main' = "exited" /\ UNCHANGED current
  /\ UNCHANGED <<loop, new, carries, runs, hurried, updated>>

\* updateConfigInterval returns at once when the interval is not positive.
FirstStart ==
  /\ Alive /\ main = "start"
  /\ SpawnStart(current.config)
  /\ main' = "wait"
  /\ loop' = IF current.timed THEN "wait" ELSE "off"
  /\ UNCHANGED <<current, new, runs, hurried, updated, tunnel, orderly>>

Signal ==
  /\ Alive /\ main = "wait"
  /\ Call(Main) /\ entry'[Main] = "Stop"
  /\ main' = "stop"
  /\ orderly' = (AtRest /\ coreState = "STARTED" /\ box # Nil)
  /\ UNCHANGED <<loop, current, new, carries, runs, hurried, updated, tunnel, raced>>

\* RunStandalone returns and the process ends.
Exit ==
  /\ Alive /\ main = "stop" /\ pc[Main] = "idle"
  /\ main' = "exited"
  /\ UNCHANGED <<vars, loop, current, new, histories>>

(***************************************************************************)
(* updateConfigInterval.  The interval is counted in hours: what was       *)
(* spawned has ended when it is over.  An interval of zero or less is over *)
(* at once, and so is the wait.  The loop does not know of the signal: it  *)
(* goes on until the process ends.                                         *)
(*                                                                         *)
(* A build draws a Clash secret when the options enable the API and give   *)
(* none, as they do by default, and it draws another one every time: what  *)
(* it returns was never seen before.                                       *)
(***************************************************************************)
Seen == {current.config} \cup {carries[c] : c \in Caller} \cup {runs[i] : i \in Instance}

MayReturn(r) == r.config \in Drawn => r.config \notin Seen

Refresh ==
  /\ Alive /\ loop = "wait"
  /\ current.timed => AtRest
  /\ ReadAndBuild
  /\ \/ \E r \in ConfigResult : MayReturn(r) /\ new' = r /\ loop' = "compare"
     \/ faults /\ UNCHANGED <<loop, new>>
  /\ hurried' = (hurried \/ ~AtRest)
  /\ UNCHANGED <<main, current, carries, runs, updated>>

\* The strings that were built are compared, with their secrets in them.
Changed == new.config # current.config

UpdateStop ==
  /\ Alive /\ loop = "compare" /\ Changed
  /\ SpawnStop
  /\ loop' = "start"
  /\ updated' = (updated \/ new.config # current.config)
  /\ UNCHANGED <<main, current, new, runs, hurried, tunnel, orderly>>

UpdateStart ==
  /\ Alive /\ loop = "start"
  /\ SpawnStart(new.config)
  /\ loop' = "wait"
  /\ current' = new
  /\ new' = Nothing
  /\ UNCHANGED <<main, runs, hurried, updated, tunnel, orderly>>

\* The configuration is the same: only its interval becomes current.
KeepRunning ==
  /\ Alive /\ loop = "compare" /\ ~Changed
  /\ loop' = "wait"
  /\ current' = new
  /\ new' = Nothing
  /\ UNCHANGED <<vars, main, histories>>

-----------------------------------------------------------------------------
MainStep == FirstRead \/ FirstStart \/ Exit
LoopStep == UpdateStop \/ UpdateStart \/ KeepRunning

RunNext == MainStep \/ Signal \/ Refresh \/ LoopStep \/ \E c \in Caller : CoreStep(c)

RunSpec == RunInit /\ [][RunNext]_allVars

-----------------------------------------------------------------------------
\* What is reachable as Box once the calls of an update have ended was made of
\* the current configuration, in whatever order the Stop and the StartService of
\* the update ran, if the loop never read while such a call went on
\* (standalone.go:190-212).
BoxIsCurrent ==
  AtRest /\ loop \in {"off", "wait"} /\ main = "wait" /\ ~hurried /\ box # Nil =>
    runs[box] = current.config

\* A refresh that fails, or builds the very string that is current, does not touch
\* a core that runs: until an update is spawned the core is STARTED, with its Box
\* and its tunnel, from the end of its start.  A profile that has not changed is
\* built to the same string only when the options give a Clash secret or disable
\* the Clash API; by default every refresh is an update (standalone.go:197-211,
\* config.go:265-273).
Undisturbed ==
  [][~updated /\ main = "wait" /\ main' = "wait" /\ coreState = "STARTED"
       => coreState' = "STARTED" /\ box' = box /\ (tunnel => tunnel')]_allVars

\* The process ends in a panic only while it reads and builds: no call is ever at
\* one of the two steps of StartService that can panic.  The core has no options
\* in this mode and would not survive a build (standalone.go:35, custom.go:98-100).
OnlyBuildsPanic ==
  [][crashed' # crashed =>
       /\ loop = "wait" \/ main = "read"
       /\ \A c \in Caller : pc[c] \notin {"build", "attach"}]_allVars

\* When the signal finds the core running and no call of it in flight, the last
\* thing asked of the tunnel is to stop, whatever the update loop reads, builds and
\* spawns while the Stop of main runs, but in two cases: the loop spawns a call
\* before that Stop has passed its tests, or activates the tunnel once more after
\* it has deactivated (standalone.go:43-47, 195-209, custom.go:267-285).
NoTunnelLeft == main = "exited" /\ orderly => ~tunnel \/ raced
=============================================================================
