------------------------------ MODULE Library ------------------------------
(***************************************************************************)
(* The shared library (custom/custom.go) around the core and the Dart      *)
(* bridge: a host calls its exported functions one at a time, and the      *)
(* library keeps a command client, connected to the command server of the  *)
(* core, that tells it the traffic.                                        *)
(*                                                                         *)
(* It is composed with CoreLifecycle, whose calls it makes on the host's   *)
(* thread, and with DartBridge, through which every change of CoreState    *)
(* and every alert is posted: useFlutterBridge is TRUE, and nothing in the *)
(* library changes that.                                                   *)
(***************************************************************************)
EXTENDS CoreLifecycle, DartBridge

CONSTANTS
  Thread,  \* the thread of the host
  Hosts    \* what hosts do: "dart" initialises the bridge before anything
           \*   else and perhaps again, "exports" calls the exports only

\* startService asks for the command server and has the configuration built; the
\* content is what getAllJson returned.
StartRequestOf(json) == [cmd |-> TRUE, raw |-> FALSE, config |-> json]

\* The host calls one export at a time, and these are the calls they make.
ASSUME LibraryAssumption ==
  /\ Caller = {Thread} /\ Serialised /\ OutsideBuilds
  /\ EntryPoint = {"Start", "Stop", "GenerateConfig"}
  /\ Requests = {StartRequestOf("content"), StartRequestOf("none")}
  /\ Hosts \subseteq {"dart", "exports"}

VARIABLES
  host,           \* what the host does
  lib,            \* the step of the exported function, "idle" between calls
  json,           \* what getAllJson returned
  commandClient,  \* is commandClient set
  peer,           \* the command server the client is connected to
  failed,         \* did the call of the core return an error
  recovered,      \* history: a panic of this call was recovered
  epoch,          \* history: since the last stopService that succeeded no
                  \*   startService has, one has and could connect, or else
  ended           \* did the process end here, and of what

client  == <<commandClient, peer, epoch>>
call    == <<lib, json, failed, recovered>>
libVars == <<vars, bridgeVars, host, call, client, ended>>

LibraryTypeOK ==
  /\ TypeOK /\ BridgeTypeOK
  /\ host \in Hosts
  /\ lib \in {"idle", "start", "starting", "connect", "stopping", "disconnect", "gen"}
  /\ json \in {"content", "none"}
  /\ commandClient \in BOOLEAN
  /\ peer \in IF commandClient THEN Server \cup {Nil} ELSE {Nil}
  /\ failed \in BOOLEAN /\ recovered \in BOOLEAN
  /\ epoch \in {"fresh", "good", "stale"}
  /\ ended \in {"no", "null", "fatal"}

LibraryInit ==
  /\ Init /\ BridgeInit
  /\ host \in Hosts
  /\ lib = "idle"
  /\ json = "none"
  /\ commandClient = FALSE
  /\ peer = Nil
  /\ failed = FALSE
  /\ recovered = FALSE
  /\ epoch = "fresh"
  /\ ended = "no"

Alive == ~crashed /\ ended = "no"

-----------------------------------------------------------------------------
\* ------ The bridge.

\* A host with Dart code calls Dart_InitializeApiDL, which the library exports,
\* and does so again after a hot restart, whatever the library is doing.
HostInitialises ==
  /\ Alive /\ host = "dart"
  /\ InitializeApiDL \/ Assign
  /\ UNCHANGED <<vars, host, call, client, ended>>

\* Such a host begins when the bridge is ready.
Ready == Alive /\ lib = "idle" /\ (host = "dart" => initialised)

\* A command server can be connected to.
Listening == oldCommandServer # Nil /\ server[oldCommandServer] = "listening"

\* The steps of the core that post a message: SetCoreStatus, and the end of
\* StopAndAlert.
Posting == {"startSet", "started", "fail", "saStatus", "saServer", "stopSet", "stopDone"}

-----------------------------------------------------------------------------
(***************************************************************************)
(* Mutants: wrong forms of the definitions below, each the way a slip in   *)
(* the code would change them.  Nothing uses them but the checks that the  *)
(* properties notice such slips.                                           *)
(***************************************************************************)

\* The client is disconnected and not forgotten.
MutantCloseCommandServer ==
  /\ Alive /\ lib = "disconnect"
  /\ peer' = Nil
  /\ epoch' = "fresh"
  /\ lib' = "idle"
  /\ UNCHANGED <<vars, bridgeVars, host, json, failed, recovered, commandClient, ended>>

\* The error of the core is lost.
MutantCoreReturned(c) ==
  /\ failed' = failed
  /\ lib' = IF pc'[c] # "idle" THEN lib
            ELSE IF lib = "starting" THEN "connect"
            ELSE IF lib = "stopping" THEN "disconnect" ELSE "idle"

\* The client is connected whether or not there is one already.
MutantStartCommandClient ==
  /\ Alive /\ lib = "connect"
  /\ peer' = Thread
  /\ lib' = "idle"
  /\ UNCHANGED <<vars, bridgeVars, host, json, failed, recovered, commandClient, epoch, ended>>

-----------------------------------------------------------------------------
(***************************************************************************)
(* startService.  utils.BuildConfig returns an error for a configuration   *)
(* that does not decode, and neither content nor error for options that do *)
(* not.  When both do, it builds: that may activate the tunnel, and a      *)
(* panic is not recovered.                                                 *)
(***************************************************************************)
GetAllJson ==
  /\ Ready
  /\ \/ BuildOutside /\ lib' = "start" /\ json' = "content"
     \/ faults /\ BuildOutside /\ UNCHANGED <<lib, json>>
     \/ UNCHANGED vars /\ lib' = "start" /\ json' = "none"
  /\ UNCHANGED <<bridgeVars, host, failed, recovered, client, ended>>

StartCore ==
  /\ Alive /\ lib = "start"
  /\ Room /\ Begin(Thread, "Start", StartRequestOf(json))
  /\ lib' = "starting"
  /\ json' = "none"
  /\ failed' = FALSE
  /\ recovered' = FALSE
  /\ UNCHANGED <<bridgeVars, host, client, ended>>

\* A client that is there already is kept, whatever it is connected to; one that
\* cannot connect is kept too.
StartCommandClient ==
  /\ Alive /\ lib = "connect"
  /\ commandClient' = TRUE
  /\ \/ /\ commandClient
        /\ epoch' = IF epoch = "fresh" THEN "good" ELSE "stale"
        /\ UNCHANGED peer
     \/ /\ ~commandClient /\ Listening
        /\ epoch' = "good"
        /\ peer' = oldCommandServer
     \/ /\ ~commandClient /\ (faults \/ ~Listening)
        /\ epoch' = "stale"
        /\ UNCHANGED peer
  /\ lib' = "idle"
  /\ UNCHANGED <<vars, bridgeVars, host, json, failed, recovered, ended>>

\* ------ stopService.
StopCore ==
  /\ Ready
  /\ Room /\ Begin(Thread, "Stop", NoRequest)
  /\ lib' = "stopping"
  /\ failed' = FALSE
  /\ recovered' = FALSE
  /\ UNCHANGED <<bridgeVars, host, json, client, ended>>

CloseCommandServer ==
  /\ Alive /\ lib = "disconnect"
  /\ commandClient' = FALSE
  /\ peer' = Nil
  /\ epoch' = "fresh"
  /\ lib' = "idle"
  /\ UNCHANGED <<vars, bridgeVars, host, json, failed, recovered, ended>>

\* ------ parseCli with the command gen: the only export that sets the options
\* of the core.
ParseCli ==
  /\ Ready
  /\ Room /\ Begin(Thread, "GenerateConfig", NoRequest)
  /\ lib' = "gen"
  /\ failed' = FALSE
  /\ recovered' = FALSE
  /\ UNCHANGED <<bridgeVars, host, json, client, ended>>

-----------------------------------------------------------------------------
\* ------ A step of a call of the core.

\* Where Start and Stop return an error: Start ends with what StartService
\* returns, Stop with its tests and with a Close that failed.
ReturnsError(c) ==
  \/ pc[c] = "fail"
  \/ entry[c] = "Stop" /\ pc[c] \in {"stopCheck", "stopFind", "stopClose", "stopServer"}
       /\ pc'[c] = "idle"

\* The library goes on when the call has returned, with its error.
CoreReturned(c) ==
  /\ failed' = (failed \/ ReturnsError(c))
  /\ lib' = IF pc'[c] # "idle" THEN lib
            ELSE IF lib = "starting" /\ ~failed' THEN "connect"
            ELSE IF lib = "stopping" /\ ~failed' THEN "disconnect"
            ELSE "idle"

(***************************************************************************)
(* What the step means for the process: a message posted without a         *)
(* function ends it.  So does, in parseCli, an error of GenerateConfig     *)
(* (log.Fatal) and a panic it has recovered (its result is nil then).      *)
(***************************************************************************)
Endings(c) ==
  IF pc[c] \in Posting /\ ~CanPost THEN {"null"}
  ELSE IF lib = "gen" /\ pc'[c] = "idle" /\ faults
  THEN IF recovered THEN {"fatal"} ELSE {"no", "fatal"}
  ELSE {"no"}

\* A client is disconnected when its server no longer listens.
CoreStep(c) ==
  /\ Alive /\ pc[c] # "idle"
  /\ Step(c)
  /\ CoreReturned(c)
  /\ recovered' = (recovered \/ (pc[c] \notin {"fail", "stopClose"} /\ pc'[c] = "saStatus"))
  /\ peer' = IF peer # Nil /\ server'[peer] = "listening" THEN peer ELSE Nil
  /\ ended' \in Endings(c)
  /\ UNCHANGED <<bridgeVars, host, json, commandClient, epoch>>

-----------------------------------------------------------------------------
LibraryNext ==
  \/ HostInitialises
  \/ GetAllJson \/ StartCore \/ StartCommandClient
  \/ StopCore \/ CloseCommandServer
  \/ ParseCli
  \/ \E c \in Caller : CoreStep(c)

LibrarySpec == LibraryInit /\ [][LibraryNext]_libVars

-----------------------------------------------------------------------------
\* A host that has initialised the bridge once never makes the library call a
\* null pointer, although it initialises again, on another thread, while the core
\* posts its status (dart_api_dl.c:65-70, coreinfo.go:28-31, custom.go:39-43).
NoNullCall == host = "dart" => ended # "null"

\* "Link dart_api_dl.c file into your library and invoke Dart_InitializeApiDL"
\* (dart_api_dl.h:21): a library that is linked so posts through a function.
PostsFindFunction == ended # "null"

\* Where startService goes on as after a success the core is STARTED, with a
\* command server that serves a Box that runs, unless a panic of the build was
\* recovered; where stopService does nothing of this is left (custom.go:46-63,
\* whatever errors and failing Closes came before).
SuccessIsTrue ==
  /\ lib = "connect" =>
       \/ recovered
       \/ /\ coreState = "STARTED" /\ box # Nil /\ instance[box] = "running"
          /\ Listening /\ attached[oldCommandServer] = box
  /\ lib = "disconnect" => coreState = "STOPPED" /\ box = Nil /\ oldCommandServer = Nil

\* After a stopService that succeeded, the first startService that connects has
\* its client connected to the command server of the service that runs, until the
\* next call.  A startService without such a stopService before it keeps the client
\* of the service that is gone (custom/custom.go:58-63, 89-105).
ClientFollowsServer ==
  lib = "idle" /\ coreState = "STARTED" /\ epoch = "good" =>
    commandClient /\ peer = oldCommandServer
=============================================================================
