----------------------------- MODULE DartBridge -----------------------------
(***************************************************************************)
(* The bridge to Dart (bridge/bridge.go and the part of bridge/include     *)
(* that is code): dart_api_dl.c keeps one function pointer for each symbol *)
(* of the Dart API, all null until a host gives the library the table of   *)
(* its VM.  Messages are posted through one of them, from any goroutine,   *)
(* also while the host initialises again after a hot restart.              *)
(*                                                                         *)
(* The assignments of one table of symbols are one step: the library reads *)
(* only Dart_PostCObject, which is the first of the first table.           *)
(***************************************************************************)
EXTENDS Integers, Sequences

CONSTANTS
  VMs,   \* the Dart VMs a host may have: the data it passes
  Null   \* the null pointer

\* DART_NATIVE_API_DL_SYMBOLS, DART_API_DL_SYMBOLS and
\* DART_API_DEPRECATED_DL_SYMBOLS.
NativeSymbols ==
  {"Dart_PostCObject", "Dart_PostInteger", "Dart_NewNativePort", "Dart_CloseNativePort"}

ApiSymbols ==
  {"Dart_IsError", "Dart_IsApiError", "Dart_IsUnhandledExceptionError",
   "Dart_IsCompilationError", "Dart_IsFatalError", "Dart_GetError",
   "Dart_ErrorHasException", "Dart_ErrorGetException", "Dart_ErrorGetStackTrace",
   "Dart_NewApiError", "Dart_NewCompilationError", "Dart_NewUnhandledExceptionError",
   "Dart_PropagateError", "Dart_HandleFromPersistent", "Dart_HandleFromWeakPersistent",
   "Dart_NewPersistentHandle", "Dart_SetPersistentHandle", "Dart_DeletePersistentHandle",
   "Dart_NewWeakPersistentHandle", "Dart_DeleteWeakPersistentHandle",
   "Dart_NewFinalizableHandle", "Dart_DeleteFinalizableHandle", "Dart_CurrentIsolate",
   "Dart_ExitIsolate", "Dart_EnterIsolate", "Dart_Post", "Dart_NewSendPort",
   "Dart_SendPortGetId", "Dart_EnterScope", "Dart_ExitScope", "Dart_IsNull"}

DeprecatedSymbols == {"Dart_UpdateExternalSize", "Dart_UpdateFinalizableExternalSize"}

Symbols == NativeSymbols \cup ApiSymbols \cup DeprecatedSymbols

\* DART_API_DL_MAJOR_VERSION.
MajorVersion == 2

\* The functions a symbol may point to: one of the VM, or the stub that
\* dart_api_dl.c has for a deprecated one.
Functions == {"vm", "stub"}

ASSUME NullAssumption == Null \notin Functions

(***************************************************************************)
(* DartApi: the versions and the entries of a VM.                          *)
(***************************************************************************)
DartApiEntry == [name : STRING, function : {"vm"}]

ASSUME ApiAssumption ==
  \A api \in VMs :
    api = [major |-> api.major, functions |-> api.functions]
      /\ api.major \in Nat /\ api.functions \in Seq(DartApiEntry)

\* Every VM of this major version offers the symbol that messages are posted
\* with: it is as old as the version.
ASSUME PostAssumption ==
  \A api \in VMs : api.major = MajorVersion =>
    \E i \in DOMAIN api.functions : api.functions[i].name = "Dart_PostCObject"

VARIABLES
  vm,          \* the VM of the host
  dl,          \* Symbols -> the pointers name_DL
  table,       \* what Dart_InitializeApiDL assigns next, "none" outside of it
  initialised  \* history: some Dart_InitializeApiDL has returned 0

bridgeVars == <<vm, dl, table, initialised>>

BridgeTypeOK ==
  /\ vm \in VMs
  /\ dl \in [Symbols -> Functions \cup {Null}]
  /\ table \in {"none", "native", "api", "deprecated"}
  /\ initialised \in BOOLEAN

BridgeInit ==
  /\ vm \in VMs
  /\ dl = [s \in Symbols |-> Null]
  /\ table = "none"
  /\ initialised = FALSE

\* The function of the first entry of that name.
FindFunctionPointer(entries, name) ==
  LET hits == {i \in DOMAIN entries : entries[i].name = name}
  IN  IF hits = {} THEN Null
      ELSE entries[CHOOSE i \in hits : \A j \in hits : i <= j].function

Found(symbols) ==
  [s \in Symbols |-> IF s \in symbols THEN FindFunctionPointer(vm.functions, s) ELSE dl[s]]

\* Mutant: all pointers are reset before the tables are read again.
MutantInitializeApiDL ==
  /\ table = "none"
  /\ vm.major = MajorVersion
  /\ table' = "native"
  /\ dl' = [s \in Symbols |-> Null]
  /\ UNCHANGED <<vm, initialised>>

\* A VM of another major version is refused, and nothing is assigned.
InitializeApiDL ==
  /\ table = "none"
  /\ vm.major = MajorVersion
  /\ table' = "native"
  /\ UNCHANGED <<vm, dl, initialised>>

\* One table of symbols after the other.
AssignNative ==
  /\ table = "native"
  /\ dl' = Found(NativeSymbols)
  /\ table' = "api"
  /\ UNCHANGED <<vm, initialised>>

AssignApi ==
  /\ table = "api"
  /\ dl' = Found(ApiSymbols)
  /\ table' = "deprecated"
  /\ UNCHANGED <<vm, initialised>>

AssignDeprecated ==
  /\ table = "deprecated"
  /\ dl' = [s \in Symbols |-> IF s \in DeprecatedSymbols THEN "stub" ELSE dl[s]]
  /\ table' = "none"
  /\ initialised' = TRUE
  /\ UNCHANGED vm

Assign == AssignNative \/ AssignApi \/ AssignDeprecated

\* SendStringToPort can be called: GoDart_PostCObject finds a function.  What it
\* returns is only printed.
CanPost == dl["Dart_PostCObject"] # Null
=============================================================================
