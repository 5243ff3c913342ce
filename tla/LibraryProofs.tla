---------------------------- MODULE LibraryProofs ----------------------------
(***************************************************************************)
(* Theorems about the shared library: it implements the core, and a host   *)
(* that has initialised the bridge never makes it call a null pointer.     *)
(***************************************************************************)
EXTENDS Library, CoreSerialProofs, WellFoundedInduction

-----------------------------------------------------------------------------
\* ------ What FindFunctionPointer finds.

\* A set of natural numbers that is not empty has a least element.
LEMMA LeastIndex ==
  ASSUME NEW T, T \subseteq Nat, T # {}
  PROVE  \E x \in T : \A y \in T : x <= y
<1>1. PICK x \in T : \A y \in T : ~ (<<y, x>> \in OpToRel(<, Nat))
  BY NatLessThanWellFounded, WFMin
<1>2. ASSUME NEW y \in T
      PROVE  x <= y
  <2>1. x \in Nat /\ y \in Nat
    OBVIOUS
  <2>2. ~ (y < x)
    BY <1>1, <2>1 DEF OpToRel
  <2> QED BY <2>1, <2>2
<1> QED BY <1>2

\* It finds a function of the VM for every symbol the VM offers.
LEMMA FindFinds ==
  ASSUME NEW entries \in Seq(DartApiEntry), NEW name,
         \E i \in DOMAIN entries : entries[i].name = name
  PROVE  FindFunctionPointer(entries, name) = "vm"
<1> DEFINE hits == {i \in DOMAIN entries : entries[i].name = name}
           least == CHOOSE i \in hits : \A j \in hits : i <= j
<1>1. hits \subseteq Nat /\ hits # {}
  OBVIOUS
<1>2. least \in hits
  <2>1. \E i \in hits : \A j \in hits : i <= j
    BY <1>1, LeastIndex
  <2> QED BY <2>1
<1>3. entries[least] \in DartApiEntry
  BY <1>2
<1> QED BY <1>1, <1>3 DEF FindFunctionPointer, DartApiEntry

\* Nor does it find the null pointer for the symbol that messages are posted with.
LEMMA PostIsFound ==
  ASSUME vm \in VMs, vm.major = MajorVersion
  PROVE  FindFunctionPointer(vm.functions, "Dart_PostCObject") # Null
<1>1. vm.functions \in Seq(DartApiEntry)
  BY ApiAssumption
<1>2. \E i \in DOMAIN vm.functions : vm.functions[i].name = "Dart_PostCObject"
  BY PostAssumption
<1>3. FindFunctionPointer(vm.functions, "Dart_PostCObject") = "vm"
  BY <1>1, <1>2, FindFinds
<1> QED BY <1>3, NullAssumption DEF Functions

-----------------------------------------------------------------------------
\* ------ The bridge.

\* The pointer is set from the first table on, for good, and every call of the
\* library comes after an initialisation.
BridgeInv ==
  /\ vm \in VMs
  /\ table # "none" => vm.major = MajorVersion
  /\ initialised \/ table \in {"api", "deprecated"} => CanPost

CallsAreReady ==
  host = "dart" /\ (lib # "idle" \/ pc[Thread] # "idle") => initialised

LibraryInv == BridgeInv /\ CallsAreReady /\ NoNullCall

LEMMA BridgeStep ==
  ASSUME BridgeInv, InitializeApiDL \/ Assign
  PROVE  BridgeInv' /\ (initialised => initialised')
<1>1. "Dart_PostCObject" \in Symbols \ (ApiSymbols \cup DeprecatedSymbols)
  BY DEF Symbols, NativeSymbols, ApiSymbols, DeprecatedSymbols
<1>2. CASE InitializeApiDL
  BY <1>2 DEF BridgeInv, InitializeApiDL, CanPost
<1>3. CASE AssignNative
  <2>1. dl'["Dart_PostCObject"] = FindFunctionPointer(vm.functions, "Dart_PostCObject")
    BY <1>3 DEF AssignNative, Found, NativeSymbols, Symbols
  <2>2. CanPost'
    BY <1>3, <2>1, PostIsFound DEF AssignNative, BridgeInv, CanPost
  <2> QED BY <1>3, <2>2 DEF AssignNative, BridgeInv
<1>4. CASE AssignApi
  <2>1. dl'["Dart_PostCObject"] = dl["Dart_PostCObject"]
    BY <1>1, <1>4 DEF AssignApi, Found
  <2> QED BY <1>4, <2>1 DEF AssignApi, BridgeInv, CanPost
<1>5. CASE AssignDeprecated
  <2>1. dl'["Dart_PostCObject"] = dl["Dart_PostCObject"]
    BY <1>1, <1>5 DEF AssignDeprecated
  <2> QED BY <1>5, <2>1 DEF AssignDeprecated, BridgeInv, CanPost
<1> QED BY <1>2, <1>3, <1>4, <1>5 DEF Assign

LEMMA BridgeSame ==
  ASSUME BridgeInv, UNCHANGED bridgeVars
  PROVE  BridgeInv' /\ (initialised => initialised')
BY DEF BridgeInv, bridgeVars, CanPost

\* What an exported function does before, between and after the calls of the core.
LEMMA ExportsPreserve ==
  ASSUME LibraryInv,
         GetAllJson \/ StartCore \/ StartCommandClient \/ StopCore
           \/ CloseCommandServer \/ ParseCli
  PROVE  LibraryInv'
<1>1. UNCHANGED bridgeVars /\ UNCHANGED host /\ UNCHANGED ended
  BY DEF GetAllJson, StartCore, StartCommandClient, StopCore, CloseCommandServer, ParseCli
<1>2. Ready \/ lib # "idle"
  BY DEF GetAllJson, StartCore, StartCommandClient, StopCore, CloseCommandServer, ParseCli
<1>3. host = "dart" => initialised
  BY <1>2 DEF Ready, LibraryInv, CallsAreReady
<1> QED BY <1>1, <1>3, BridgeSame DEF LibraryInv, CallsAreReady, NoNullCall

LEMMA CoreStepPreserves ==
  ASSUME LibraryInv, NEW c \in Caller, CoreStep(c)
  PROVE  LibraryInv'
<1>1. c = Thread /\ pc[Thread] # "idle"
  BY LibraryAssumption DEF CoreStep
<1>2. host = "dart" => initialised
  BY <1>1 DEF LibraryInv, CallsAreReady
<1>3. UNCHANGED bridgeVars /\ UNCHANGED host
  BY DEF CoreStep
<1>4. host = "dart" => ended' # "null"
  <2>1. SUFFICES ASSUME host = "dart"
                 PROVE  "null" \notin Endings(c)
    BY DEF CoreStep
  <2>2. CanPost
    BY <1>2, <2>1 DEF LibraryInv, BridgeInv
  <2> QED BY <2>2 DEF Endings
<1> QED BY <1>2, <1>3, <1>4, BridgeSame DEF LibraryInv, CallsAreReady, NoNullCall

\* A host that has initialised the bridge before its first call never makes the
\* library call a null pointer, whatever VM of the version it has and however often
\* it initialises again while the core posts.
THEOREM InitialisedNeverNull == LibrarySpec => []NoNullCall
<1>1. LibraryInit => LibraryInv
  <2>1. SUFFICES ASSUME LibraryInit
                 PROVE  LibraryInv
    OBVIOUS
  <2>2. BridgeInv
    BY <2>1 DEF LibraryInit, BridgeInit, BridgeInv
  <2>3. pc[Thread] = "idle"
    BY <2>1, LibraryAssumption DEF LibraryInit, Init
  <2>4. lib = "idle" /\ ended = "no"
    BY <2>1 DEF LibraryInit
  <2> QED BY <2>2, <2>3, <2>4 DEF LibraryInv, CallsAreReady, NoNullCall
<1>2. LibraryInv /\ [LibraryNext]_libVars => LibraryInv'
  <2>1. SUFFICES ASSUME LibraryInv, [LibraryNext]_libVars
                 PROVE  LibraryInv'
    OBVIOUS
  <2>2. CASE HostInitialises
    <3>1. UNCHANGED <<host, lib, pc, ended>>
      BY <2>2 DEF HostInitialises, vars, call
    <3>2. InitializeApiDL \/ Assign
      BY <2>2 DEF HostInitialises
    <3> QED BY <2>1, <3>1, <3>2, BridgeStep DEF LibraryInv, CallsAreReady, NoNullCall
  <2>3. CASE UNCHANGED libVars
    <3>1. UNCHANGED <<bridgeVars, host, lib, pc, ended>>
      BY <2>3 DEF libVars, vars, call
    <3> QED BY <2>1, <3>1, BridgeSame DEF LibraryInv, CallsAreReady, NoNullCall
  <2> QED BY <2>1, <2>2, <2>3, ExportsPreserve, CoreStepPreserves DEF LibraryNext
<1> QED BY <1>1, <1>2, PTL DEF LibrarySpec, LibraryInv

-----------------------------------------------------------------------------
\* ------ The core inside.

JsonOK == json \in {"content", "none"}

LEMMA JsonStep ==
  ASSUME JsonOK, [LibraryNext]_libVars
  PROVE  JsonOK'
BY DEF JsonOK, LibraryNext, HostInitialises, GetAllJson, StartCore, StartCommandClient,
       StopCore, CloseCommandServer, ParseCli, CoreStep, libVars, call

LEMMA StepImplements ==
  ASSUME JsonOK, [LibraryNext]_libVars
  PROVE  [Next]_vars
<1>1. ASSUME NEW e \in EntryPoint, NEW r \in RequestsOf(e), Room, Begin(Thread, e, r)
      PROVE  Next
  <2>1. Serialised => \A d \in Caller : pc[d] = "idle"
    BY <1>1, LibraryAssumption DEF Begin, At
  <2>2. Call(Thread)
    BY <1>1, <2>1 DEF Call
  <2> QED BY <2>2, LibraryAssumption DEF Next
<1>2. CASE StartCore
  <2>1. "Start" \in EntryPoint /\ StartRequestOf(json) \in RequestsOf("Start")
    BY LibraryAssumption DEF RequestsOf, JsonOK
  <2> QED BY <1>1, <1>2, <2>1 DEF StartCore
<1>3. CASE StopCore
  <2>1. "Stop" \in EntryPoint /\ NoRequest \in RequestsOf("Stop")
    BY LibraryAssumption DEF RequestsOf
  <2> QED BY <1>1, <1>3, <2>1 DEF StopCore
<1>4. CASE ParseCli
  <2>1. "GenerateConfig" \in EntryPoint /\ NoRequest \in RequestsOf("GenerateConfig")
    BY LibraryAssumption DEF RequestsOf
  <2> QED BY <1>1, <1>4, <2>1 DEF ParseCli
<1>5. CASE GetAllJson
  BY <1>5 DEF GetAllJson, Next
<1>6. CASE HostInitialises \/ StartCommandClient \/ CloseCommandServer \/ UNCHANGED libVars
  BY <1>6 DEF HostInitialises, StartCommandClient, CloseCommandServer, libVars
<1>7. ASSUME NEW c \in Caller, CoreStep(c)
      PROVE  Next
  BY <1>7 DEF CoreStep, Next
<1> QED BY <1>2, <1>3, <1>4, <1>5, <1>6, <1>7 DEF LibraryNext

\* Every step of the library is a call of the core, a step of a call, a build
\* outside of it, or none of its business: what is proved of the core for any
\* calls holds in the library.
THEOREM LibraryImplementsCore == LibrarySpec => Spec
<1>1. LibraryInit => Init /\ JsonOK
  BY DEF LibraryInit, JsonOK
<1>2. JsonOK /\ [LibraryNext]_libVars => JsonOK' /\ [Next]_vars
  BY JsonStep, StepImplements
<1> QED BY <1>1, <1>2, PTL DEF LibrarySpec, Spec

\* So STARTED means a Box that runs in the library too, from the first call to the
\* last: its host awaits each call, and StartService is not among them.
THEOREM LibraryServes == LibrarySpec => []StartedMeansServing
BY LibraryImplementsCore, StartedServes, PTL

\* And what the host is told is what AbstractCore says of a client: two steps of
\* refinement, the library into the core and the core into its promise.
THEOREM LibraryKeepsProtocol == LibrarySpec => KeepsProtocol
BY LibraryImplementsCore, StatusIsTrue, PTL

\* The host is the client that awaits each call: so is what is proved of it.
LEMMA HostIsDisciplined == Disciplined
BY LibraryAssumption DEF Disciplined

LEMMA LibraryCore == LibrarySpec => [](TypeOK /\ BoxInv /\ SerialInv /\ CoreInv)
BY LibraryImplementsCore, HostIsDisciplined, TypeCorrect, BoxInvariant, SerialInvariant,
   CoreInvariant, PTL

-----------------------------------------------------------------------------
(***************************************************************************)
(* Types.                                                                  *)
(***************************************************************************)
LEMMA FindType ==
  ASSUME vm \in VMs, NEW name
  PROVE  FindFunctionPointer(vm.functions, name) \in Functions \cup {Null}
<1>1. vm.functions \in Seq(DartApiEntry)
  BY ApiAssumption
<1>2. CASE \E i \in DOMAIN vm.functions : vm.functions[i].name = name
  BY <1>1, <1>2, FindFinds DEF Functions
<1>3. CASE ~ \E i \in DOMAIN vm.functions : vm.functions[i].name = name
  BY <1>3 DEF FindFunctionPointer
<1> QED BY <1>2, <1>3

LEMMA BridgeType ==
  ASSUME BridgeTypeOK, InitializeApiDL \/ Assign
  PROVE  BridgeTypeOK'
<1>1. CASE InitializeApiDL
  BY <1>1 DEF InitializeApiDL, BridgeTypeOK
<1>2. CASE AssignNative
  BY <1>2, FindType DEF AssignNative, Found, BridgeTypeOK
<1>3. CASE AssignApi
  BY <1>3, FindType DEF AssignApi, Found, BridgeTypeOK
<1>4. CASE AssignDeprecated
  BY <1>4 DEF AssignDeprecated, BridgeTypeOK, Functions
<1> QED BY <1>1, <1>2, <1>3, <1>4 DEF Assign

\* What the library has of its own.
WrapperOK ==
  /\ host \in Hosts
  /\ lib \in {"idle", "start", "starting", "connect", "stopping", "disconnect", "gen"}
  /\ json \in {"content", "none"}
  /\ commandClient \in BOOLEAN
  /\ peer \in IF commandClient THEN Server \cup {Nil} ELSE {Nil}
  /\ failed \in BOOLEAN /\ recovered \in BOOLEAN
  /\ epoch \in {"fresh", "good", "stale"}
  /\ ended \in {"no", "null", "fatal"}

LEMMA WrapperType ==
  ASSUME TypeOK, WrapperOK, BridgeTypeOK, [LibraryNext]_libVars
  PROVE  WrapperOK' /\ BridgeTypeOK'
<1> USE DEF WrapperOK, client, call
<1>1. CASE HostInitialises
  BY <1>1, BridgeType DEF HostInitialises
<1>2. CASE GetAllJson \/ StartCore \/ StopCore \/ ParseCli
  BY <1>2 DEF GetAllJson, StartCore, StopCore, ParseCli, bridgeVars, BridgeTypeOK
<1>3. CASE StartCommandClient \/ CloseCommandServer
  BY <1>3
     DEF StartCommandClient, CloseCommandServer, bridgeVars, BridgeTypeOK, TypeOK, StateOK,
         CoreOK
<1>4. ASSUME NEW c \in Caller, CoreStep(c)
      PROVE  WrapperOK' /\ BridgeTypeOK'
  <2>1. failed' \in BOOLEAN /\ recovered' \in BOOLEAN
    BY <1>4 DEF CoreStep, CoreReturned
  <2>2. lib' \in {"idle", "start", "starting", "connect", "stopping", "disconnect", "gen"}
    BY <1>4 DEF CoreStep, CoreReturned
  <2>3. ended' \in {"no", "null", "fatal"}
    BY <1>4 DEF CoreStep, Endings
  <2>4. peer' \in IF commandClient' THEN Server \cup {Nil} ELSE {Nil}
    BY <1>4 DEF CoreStep
  <2> QED BY <1>4, <2>1, <2>2, <2>3, <2>4 DEF CoreStep, bridgeVars, BridgeTypeOK
<1>5. CASE UNCHANGED libVars
  BY <1>5 DEF libVars, bridgeVars, BridgeTypeOK
<1> QED BY <1>1, <1>2, <1>3, <1>4, <1>5 DEF LibraryNext

\* Every variable of the library, of the bridge and of the core keeps its type.
THEOREM LibraryTypes == LibrarySpec => []LibraryTypeOK
<1>1. LibraryInit => WrapperOK /\ BridgeTypeOK
  BY DEF LibraryInit, WrapperOK, BridgeInit, BridgeTypeOK
<1>2. TypeOK /\ WrapperOK /\ BridgeTypeOK /\ [LibraryNext]_libVars => WrapperOK' /\ BridgeTypeOK'
  BY WrapperType
<1>3. TypeOK /\ WrapperOK /\ BridgeTypeOK => LibraryTypeOK
  BY DEF WrapperOK, LibraryTypeOK
<1> QED BY <1>1, <1>2, <1>3, LibraryCore, PTL DEF LibrarySpec

-----------------------------------------------------------------------------
(***************************************************************************)
(* What startService and stopService tell the host, and what the client is *)
(* connected to.  The exported function and the call of the core it waits  *)
(* for are at matching steps (ExportInv); a client that is connected is    *)
(* connected to a server that listens, and to the one of the core from a   *)
(* good startService to the next call that brings the core up (ClientInv). *)
(***************************************************************************)
StartPath == {"startCheck", "startSet", "fail"} \cup ServiceSteps \cup StopSteps \cup AlertSteps

ExportInv ==
  /\ lib \in {"idle", "start", "connect", "disconnect"} => pc[Thread] = "idle"
  /\ lib = "starting" =>
       /\ entry[Thread] = "Start" /\ req[Thread].cmd /\ pc[Thread] \in StartPath
       /\ failed => pc[Thread] \in AlertSteps
       /\ pc[Thread] \in AlertSteps => failed \/ recovered
  /\ lib = "stopping" => entry[Thread] = "Stop" /\ pc[Thread] \in StopSteps
  /\ lib = "gen" =>
       entry[Thread] = "GenerateConfig" /\ pc[Thread] \in {"default", "convert"} \cup AlertSteps
  /\ after[Thread] = "idle"

ClientInv ==
  /\ peer # Nil => server[peer] = "listening"
  /\ ~commandClient => peer = Nil
  /\ epoch = "fresh" => ~commandClient
  /\ epoch = "good" => commandClient
  /\ epoch = "good" /\ coreState = "STARTED" /\ lib # "connect" => peer = oldCommandServer

HostInv == ExportInv /\ ClientInv /\ SuccessIsTrue

\* What the core promises at the step at which the host's call is.
CoreGood == TypeOK /\ SerialInv /\ CoreInv

\* The functions of the library that call nothing, or begin a call.
LEMMA HostExports ==
  ASSUME CoreGood, WrapperOK, HostInv,
         HostInitialises \/ GetAllJson \/ StartCore \/ StartCommandClient \/ StopCore
           \/ CloseCommandServer \/ ParseCli \/ UNCHANGED libVars
  PROVE  HostInv'
<1> USE LibraryAssumption
    DEF CoreGood, HostInv, ExportInv, ClientInv, SuccessIsTrue, Listening, WrapperOK, TypeOK,
        StateOK, CoreOK, FrameOK, vars, shared, settings, things, frame, ends, call, client
<1>1. CASE HostInitialises \/ UNCHANGED libVars
  BY <1>1 DEF HostInitialises, libVars
<1>2. CASE GetAllJson
  BY <1>2 DEF GetAllJson, BuildOutside, Ready
<1>3. CASE StartCore
  BY <1>3 DEF StartCore, Begin, At, Goto, FirstStep, StartRequestOf, StartPath, AlertSteps,
     ServiceSteps, StopSteps
<1>4. CASE StopCore
  BY <1>4 DEF StopCore, Ready, Begin, At, Goto, FirstStep, NoRequest, StopSteps
<1>5. CASE ParseCli
  BY <1>5 DEF ParseCli, Ready, Begin, At, Goto, FirstStep, NoRequest
<1>6. CASE StartCommandClient
  BY <1>6 DEF StartCommandClient
<1>7. CASE CloseCommandServer
  BY <1>7 DEF CloseCommandServer
<1> QED BY <1>1, <1>2, <1>3, <1>4, <1>5, <1>6, <1>7

\* What the library makes of a step of the call.
Goes ==
  /\ failed' = (failed \/ ReturnsError(Thread))
  /\ lib' = IF pc'[Thread] # "idle" THEN lib
            ELSE IF lib = "starting" /\ ~failed' THEN "connect"
            ELSE IF lib = "stopping" /\ ~failed' THEN "disconnect"
            ELSE "idle"
  /\ recovered' = (recovered \/ (pc[Thread] \notin {"fail", "stopClose"} /\ pc'[Thread] = "saStatus"))
  /\ peer' = IF peer # Nil /\ server'[peer] = "listening" THEN peer ELSE Nil
  /\ UNCHANGED <<commandClient, epoch>>
  /\ pc[Thread] # "idle"

LEMMA HostMoves ==
  ASSUME CoreStep(Thread)
  PROVE  Goes
BY DEF CoreStep, CoreReturned, Goes

LEMMA HostStart ==
  ASSUME CoreGood, WrapperOK, HostInv, CoreStep(Thread),
  StartSteps(Thread) \/ RestartStep(Thread) \/ ConfigStep(Thread)
  PROVE  HostInv'
<1> USE LibraryAssumption, StepsFacts, HostMoves
    DEF CoreGood, HostInv, ExportInv, ClientInv, SuccessIsTrue, Listening, Goes, ReturnsError,
        WrapperOK,
        CoreInv, Held, HeldBox, HeldServer, Listens, Serving, SerialInv, StatusAt, StartPath,
        ServiceSteps, StopSteps, AlertSteps, ReloadSteps, Ending, TypeOK, StateOK, CoreOK,
        FrameOK, At, Goto, Return,
        Resume, Alert, Panic, Guarded, AfterStop, shared, settings, things, frame, ends
<1>1. CASE StartCheck(Thread)
  BY <1>1 DEF StartCheck, Test
<1>2. CASE StartSet(Thread)
  BY <1>2 DEF StartSet, Status
<1>3. CASE RestartCheck(Thread)
  BY <1>3 DEF RestartCheck, Test
<1>4. CASE RestartFind(Thread)
  BY <1>4 DEF RestartFind, Test
<1>5. CASE RestartSet(Thread)
  BY <1>5 DEF RestartSet, Status
<1>6. CASE SetOptions(Thread)
  BY <1>6 DEF SetOptions
<1>7. CASE Convert(Thread)
  BY <1>7 DEF Convert
<1> QED BY <1>1, <1>2, <1>3, <1>4, <1>5, <1>6, <1>7 DEF StartSteps, RestartStep, ConfigStep

LEMMA HostService ==
  ASSUME CoreGood, WrapperOK, HostInv, CoreStep(Thread), ServiceStep(Thread)
  PROVE  HostInv'
<1> USE LibraryAssumption, StepsFacts, HostMoves
    DEF CoreGood, HostInv, ExportInv, ClientInv, SuccessIsTrue, Listening, Goes, ReturnsError,
        WrapperOK,
        CoreInv, Held, HeldBox, HeldServer, Listens, Serving, SerialInv, StatusAt, StartPath,
        ServiceSteps, StopSteps, AlertSteps, ReloadSteps, Ending, TypeOK, StateOK, CoreOK,
        FrameOK, At, Goto, Return,
        Resume, Alert, Panic, Guarded, AfterStop, shared, settings, things, frame, ends
<1>1. CASE Load(Thread)
  BY <1>1 DEF Load
<1>2. CASE Build(Thread)
  <2>1. UNCHANGED <<coreState, box, oldCommandServer, things>> /\ pc[Thread] = "build"
    BY <1>2 DEF Build
  <2>2. lib = "starting"
    BY <2>1
  <2>3. \/ pc'[Thread] \in {"serve", "fail"} /\ UNCHANGED frame
        \/ pc'[Thread] = "saStatus" /\ UNCHANGED <<entry, req>> /\ after'[Thread] = "idle"
        \/ UNCHANGED <<pc, frame>>
    BY <1>2, <2>2 DEF Build
  <2>4. lib' = lib /\ failed' = failed
    BY <2>1, <2>2, <2>3
  <2>5. ExportInv'
    BY <2>1, <2>2, <2>3, <2>4
  <2>6. ClientInv' /\ SuccessIsTrue'
    BY <2>1, <2>2, <2>4
  <2> QED BY <2>5, <2>6
<1>3. CASE Serve(Thread)
  BY <1>3 DEF Serve, FreshServer
<1>4. CASE Run(Thread)
  BY <1>4 DEF Run
<1>5. CASE Publish(Thread)
  BY <1>5 DEF Publish
<1>6. CASE Attach(Thread)
  BY <1>6 DEF Attach
<1>7. CASE Started(Thread)
  BY <1>7 DEF Started, Status
<1>8. CASE Fail(Thread)
  <2>1. pc[Thread] = "fail" /\ lib = "starting" /\ coreState' = "STOPPED"
    BY <1>8 DEF Fail
  <2>2. pc'[Thread] = "saStatus" /\ UNCHANGED <<entry, req>> /\ after'[Thread] = "idle"
    BY <1>8 DEF Fail
  <2>3. UNCHANGED server /\ lib' = lib /\ failed'
    BY <1>8, <2>1, <2>2 DEF Fail
  <2> QED BY <2>1, <2>2, <2>3
<1> QED BY <1>1, <1>2, <1>3, <1>4, <1>5, <1>6, <1>7, <1>8 DEF ServiceStep

LEMMA HostAlert ==
  ASSUME CoreGood, WrapperOK, HostInv, CoreStep(Thread), AlertStep(Thread)
  PROVE  HostInv'
<1> USE LibraryAssumption, StepsFacts, HostMoves
    DEF CoreGood, HostInv, ExportInv, ClientInv, SuccessIsTrue, Listening, Goes, ReturnsError,
        WrapperOK,
        CoreInv, Held, HeldBox, HeldServer, Listens, Serving, SerialInv, StatusAt, StartPath,
        ServiceSteps, StopSteps, AlertSteps, ReloadSteps, Ending, TypeOK, StateOK, CoreOK,
        FrameOK, At, Goto, Return,
        Resume, Alert, Panic, Guarded, AfterStop, shared, settings, things, frame, ends
<1>1. CASE AlertStatus(Thread)
  BY <1>1 DEF AlertStatus, Status
<1>2. CASE AlertDeactivate(Thread)
  BY <1>2 DEF AlertDeactivate, Deactivate
<1>3. CASE AlertDetach(Thread)
  BY <1>3 DEF AlertDetach, Detach
<1>4. CASE AlertClose(Thread)
  BY <1>4 DEF AlertClose, CloseBox, CloseInstance
<1>5. CASE AlertClear(Thread)
  BY <1>5 DEF AlertClear, ClearBox
<1>6. CASE AlertServer(Thread)
  BY <1>6 DEF AlertServer, CloseServer
<1> QED BY <1>1, <1>2, <1>3, <1>4, <1>5, <1>6 DEF AlertStep

LEMMA HostStop ==
  ASSUME CoreGood, WrapperOK, HostInv, CoreStep(Thread), StopStep(Thread)
  PROVE  HostInv'
<1> USE LibraryAssumption, StepsFacts, HostMoves
    DEF CoreGood, HostInv, ExportInv, ClientInv, SuccessIsTrue, Listening, Goes, ReturnsError,
        WrapperOK,
        CoreInv, Held, HeldBox, HeldServer, Listens, Serving, SerialInv, StatusAt, StartPath,
        ServiceSteps, StopSteps, AlertSteps, ReloadSteps, Ending, TypeOK, StateOK, CoreOK,
        FrameOK, At, Goto, Return,
        Resume, Alert, Panic, Guarded, AfterStop, shared, settings, things, frame, ends
<1>1. CASE StopCheck(Thread)
  <2>1. pc[Thread] = "stopCheck" /\ UNCHANGED <<shared, things>>
    BY <1>1 DEF StopCheck, Test
  <2>2. lib \in {"starting", "stopping"}
    BY <2>1
  <2>3. PICK next \in {"stopFind", AfterStop(Thread, FALSE)} : Resume(Thread, next)
    BY <1>1 DEF StopCheck, Test
  <2>4. CASE lib = "starting"
    <3>1. pc'[Thread] \in {"stopFind", "startSet"} /\ UNCHANGED frame
      BY <2>3, <2>4
    <3> QED BY <2>1, <2>4, <3>1
  <2>5. CASE lib = "stopping"
    <3>1. \/ pc'[Thread] = "stopFind" /\ UNCHANGED frame
          \/ pc'[Thread] = "idle" /\ after'[Thread] = "idle"
      BY <2>3, <2>5
    <3>2. lib' = IF pc'[Thread] = "idle" THEN "idle" ELSE lib
      BY <2>1, <2>5, <3>1
    <3> QED BY <2>1, <2>5, <3>1, <3>2
  <2> QED BY <2>2, <2>4, <2>5
<1>2. CASE StopFind(Thread)
  BY <1>2 DEF StopFind, Test
<1>3. CASE StopSet(Thread)
  BY <1>3 DEF StopSet, Status
<1>4. CASE StopDeactivate(Thread)
  BY <1>4 DEF StopDeactivate, Deactivate
<1>5. CASE StopDetach(Thread)
  BY <1>5 DEF StopDetach, Detach
<1>6. CASE StopClose(Thread)
  BY <1>6 DEF StopClose, CloseInstance
<1>7. CASE StopClear(Thread)
  BY <1>7 DEF StopClear, ClearBox
<1>8. CASE StopServer(Thread)
  BY <1>8 DEF StopServer, CloseServer
<1>9. CASE StopForget(Thread)
  BY <1>9 DEF StopForget, ForgetServer
<1>10. CASE StopDone(Thread)
  BY <1>10 DEF StopDone, Status
<1> QED BY <1>1, <1>2, <1>3, <1>4, <1>5, <1>6, <1>7, <1>8, <1>9, <1>10 DEF StopStep

LEMMA HostReload ==
  ASSUME CoreGood, WrapperOK, HostInv, CoreStep(Thread), ReloadStep(Thread)
  PROVE  HostInv'
<1> USE LibraryAssumption, StepsFacts, HostMoves
    DEF CoreGood, HostInv, ExportInv, ClientInv, SuccessIsTrue, Listening, Goes, ReturnsError,
        WrapperOK,
        CoreInv, Held, HeldBox, HeldServer, Listens, Serving, SerialInv, StatusAt, StartPath,
        ServiceSteps, StopSteps, AlertSteps, ReloadSteps, Ending, TypeOK, StateOK, CoreOK,
        FrameOK, At, Goto, Return,
        Resume, Alert, Panic, Guarded, AfterStop, shared, settings, things, frame, ends
<1>1. CASE ReloadSet(Thread)
  BY <1>1 DEF ReloadSet, Status
<1>2. CASE ReloadDetach(Thread)
  BY <1>2 DEF ReloadDetach, Detach
<1>3. CASE ReloadForget(Thread)
  BY <1>3 DEF ReloadForget, ForgetServer
<1>4. CASE ReloadClose(Thread)
  BY <1>4 DEF ReloadClose, CloseBox, CloseInstance
<1>5. CASE ReloadClear(Thread)
  BY <1>5 DEF ReloadClear, ClearBox
<1> QED BY <1>1, <1>2, <1>3, <1>4, <1>5 DEF ReloadStep

\* startService goes on as after a success only when the core is STARTED and its
\* command server serves the Box that runs, or a panic was recovered; stopService
\* only when nothing is left.
LEMMA HostInvariant == LibrarySpec => []HostInv
<1>1. LibraryInit => HostInv
  BY LibraryAssumption
     DEF LibraryInit, Init, HostInv, ExportInv, ClientInv, SuccessIsTrue, NoRequest
<1>2. CoreGood /\ WrapperOK /\ HostInv /\ [LibraryNext]_libVars => HostInv'
  <2>1. ASSUME CoreGood, WrapperOK, HostInv, CoreStep(Thread)
        PROVE  HostInv'
    BY <2>1, HostStart, HostService, HostAlert, HostStop, HostReload DEF CoreStep, Step
  <2> QED BY <2>1, HostExports, LibraryAssumption DEF LibraryNext
<1>3. LibraryTypeOK => WrapperOK
  BY DEF LibraryTypeOK, WrapperOK
<1>4. TypeOK /\ BoxInv /\ SerialInv /\ CoreInv => CoreGood
  BY DEF CoreGood
<1> QED BY <1>1, <1>2, <1>3, <1>4, LibraryCore, LibraryTypes, PTL DEF LibrarySpec

\* startService goes on as after a success only when the core is STARTED with a Box
\* that runs and a command server that serves it, or has recovered a panic, whatever
\* failed before; stopService only when there is neither Box nor command server.
THEOREM SuccessMeansServing == LibrarySpec => []SuccessIsTrue
<1>1. HostInv => SuccessIsTrue
  BY DEF HostInv
<1> QED BY <1>1, HostInvariant, PTL

\* From the first startService that connects after a stopService that succeeded, to
\* the next call, the client is connected to the command server of the core.
THEOREM ClientIsConnected == LibrarySpec => []ClientFollowsServer
<1>1. HostInv => ClientFollowsServer
  BY DEF HostInv, ClientInv, ClientFollowsServer
<1> QED BY <1>1, HostInvariant, PTL
=============================================================================
