# A verification of hiddify-core

hiddify-core wraps sing-box: it turns a client's configuration and a set of
options into a sing-box configuration, runs it, and lets a user interface drive
it over gRPC. This directory holds TLA+ models of it, the TLC runs that check
them on small instances, and theorems proved with TLAPS. Source lines are
relative to the repository (`v2/custom.go:64`).

1. [The system](#1-the-system)
2. [What is hard, and what makes each part correct](#2-what-is-hard-and-what-makes-each-part-correct)
3. [The modules](#3-the-modules)
4. [The runs](#4-the-runs)
5. [What is proved](#5-what-is-proved)
6. [What the checks found](#6-what-the-checks-found)
7. [What is only model-checked, and what is not modelled](#7-what-is-only-model-checked-and-what-is-not-modelled)
8. [The plan](#8-the-plan)

## 1. The system

| part | source | state it keeps | operations |
|---|---|---|---|
| core service | `v2/custom.go`, `v2/coreinfo.go`, `v2/old_command_server.go`, `config/debug.go` | package variables `CoreState`, `Box`, `oldCommandServer`, `configOptions` | `Start`, `StartService`, `Stop`, `Restart`, `StopAndAlert`, `ServiceReload`, `Parse`, `GenerateConfig`, `ChangeConfigOptions` |
| tunnel, core's side | `config/admin_service_commander.go`, `config/admin_service_cmd_runner.go` | the flag `tunnelServiceRunning`; goroutines in flight | `ActivateTunnelService`, `DeactivateTunnelService`, start, stop, exit, install |
| tunnel, privileged side | `v2/tunnel_service.go`, `v2/tunnel_platform_service.go` | the same core variables, in another process | `Start`, `Stop`, `Status`, `Exit` on port 18020; `tunnel install / uninstall / start / stop / activate / deactivate / run` |
| configuration building | `config/config.go`, `config/outbound.go`, `config/rules.go` | the package variable `OutboundMainProxyTag`, two tag constants that are variables | `BuildConfig`: inbounds, DNS, routing, outbounds, WARP |
| WARP outbounds | `config/warp.go`, `config/warp_account.go` | none | `GenerateWarpSingbox`, `patchWarp`, `GenerateWarpInfo` |
| parser | `config/parser.go` | none; one batch of goroutines per call | `ParseConfig`: three formats in turn, patching of every outbound |
| command streams | `v2/commands.go`, `v2/command_client.go`, `v2/logproto.go`, `v2/coreinfo.go` | three observers, two shared command clients | `CoreInfoListener`, `LogListener`, `GetSystemInfo`, `OutboundsInfo`, `MainOutboundsInfo`, `SelectOutbound`, `UrlTest` |
| old command clients | `v2/old_commands.go`, `v2/old_command_client.go` | three client variables | `StartCommand`, `StopCommand` |
| standalone mode | `v2/standalone.go`, `cmd/cmd_run.go` | the current configuration and its refresh interval | `RunStandalone`, the hourly update, the signal handler |
| gRPC server, setup | `v2/grpc_server.go`, `v2/service.go`, `v2/system_proxy.go`, `v2/hello.go` | global paths, written once | `Setup`, `StartGrpcServer`, system proxy calls |
| WARP identity | `pkg/warp/*`, `v2/warp.go` | the identity directory on disk | load, create, remove an identity |
| address helpers | `pkg/iputils`, `pkg/warp/endpoint.go` | a random source | a random address of a prefix |
| shared library | `custom/custom.go`, `custom/cmd_interface.go` | a command client, two option texts, two traffic counters | the C exports `startService`, `stopService`, `parseCli`, setters and getters |
| mobile library | `mobile/mobile.go` | a command server, a command client, a flag | `Start`, `Stop`, `StartCommandClient`, setters and getters |
| Dart bridge | `bridge/bridge.go`, `bridge/include/dart_api_dl.c` and the headers it expands | one function pointer per symbol of the Dart API | `Dart_InitializeApiDL`, `SendStringToPort` |
| command line | `cmd/*`, `cli/*` | none | flags around the other parts |
| the rest | `hiddifyrpc`, `utils`, other headers of the Dart SDK, build scripts, packaging | none | generated code, certificates, I/O |

How they interact:

* A client calls the core over gRPC. Every call runs on a goroutine of its own,
  and no lock protects the package variables. The standalone mode's update
  loop, its signal handler and the handlers of the command server (which call
  `ServiceReload`) are further goroutines that reach the same variables.
* `BuildConfig` both computes a configuration and, when the options ask for a
  tunnel, activates it: a side effect on the flag `tunnelServiceRunning` and a
  goroutine that talks to another process. `StartService` calls it, and so do
  `GenerateConfig`, every refresh of the standalone mode and the library's
  `parseCli`, which start nothing.
* `Stop` and `StopAndAlert` call `DeactivateTunnelService`, which either waits
  for the other process or spawns a goroutine that does not.
* The other process runs the same `Start` and `Stop`, so it has a tunnel "of
  its own", which is itself.
* The shared library calls `Start` and `Stop` on its host's thread and connects a
  command client to the core's command server. Every change of status and every
  alert is posted to Dart through the bridge's function pointer, which the host
  assigns from a thread of its own.
* The mobile library does not use the core: its app runs the service and hands it
  over.
* `DeferPanicToError` turns a panic of the entry points that defer it into a
  `StopAndAlert` on whatever state the panic left. `StartService` called
  directly, `ServiceReload` and `ChangeConfigOptions` do not defer it.

## 2. What is hard, and what makes each part correct

`PROJECT.json` lists the hazards at their lines. In short:

**Core.** Interleaved calls; a test of `Box` separated from its use; errors and
panics halfway through a start or a stop, each of which must take down exactly
what is up. It is correct when the status it reports and what runs agree:
STARTED means that `Box` runs, STOPPED between calls means that there is no
`Box`, the transient statuses do not stay behind, no instance and no command
server is lost, and the command server never serves a closed instance.

**Tunnel.** Requests without anyone waiting for their answer; a deadline of
five seconds shared by two requests; a second stop after any error; a stop that
a process sends to itself; builds that activate and start nothing; an
installation as failover that may install nothing and starts over; the death of
the process. The code does not order any of this, so the tunnel cannot always
be right. What one can ask of it is that it ends up where the core's user wants
it unless something named has disturbed it, that only named causes leave a
tunnel without a core, and that every start ends.

**Configuration.** What the build drops after it has been named; detours that
could make a circle; a WARP outbound before or behind the proxies; a package
variable read before it is written. A configuration is correct when everything
it names is in it, its detours lead out, and resolving a proxy's server never
needs that proxy.

**Standalone mode.** An update spawns a stop and a start with no order between
them, on the core's unprotected variables; a refresh builds, and so activates
the tunnel, beside a core that runs, and draws a new secret that makes it an
update; the signal races all that. It is correct when what is left by an update
is made of the current configuration, a refresh that builds the same string
disturbs nothing, and only named races with the signal leave a tunnel.

**Libraries and bridge.** Pointers assigned while they are used, or never; a
success reported for a call that recovered; clients and servers that outlive
what they are connected to. They are correct when what they report is what the
core is, and a client follows the service.

**Streams.** A handler must return when its stream is over, with its
subscription.

**Parser and WARP accounts.** Results of a concurrent batch that arrive in any
order; three remote requests in a row, each of which may be refused or lose its
answer. They are correct when each place of the result is a patch of an outbound
with its tag, and every registered device is somebody's.

## 3. The modules

| module | models | kind |
|---|---|---|
| `CoreLifecycle` | the core service | state machine |
| `AbstractCore` | what the core promises a client that awaits its calls | abstract specification |
| `MCCoreLifecycle` | | instances |
| `CoreLifecycleProofs`, `CoreSerialProofs` | | proofs: for any calls, and for a client that awaits them |
| `Standalone` | the standalone mode on the core; extends `CoreLifecycle` | composition |
| `MCStandalone`, `StandaloneProofs` | | instances, proofs |
| `DartBridge` | `dart_api_dl.c` and the post of a message | part, with its own state |
| `Library` | the shared library; extends `CoreLifecycle` and `DartBridge` | composition |
| `MCLibrary`, `LibraryProofs` | | instances, proofs |
| `Tunnel` | both sides of the tunnel | state machine |
| `AbstractTunnel` | what the tunnel promises | abstract specification |
| `MCTunnel`, `TunnelProofs` | | instances, proofs |
| `ConfigBuild` | `BuildConfig` and WARP outbounds | state machine over pure operators |
| `MCConfigBuild`, `ConfigBuildProofs` | | instances, proofs |
| `Parser` | `ParseConfigContent`, its batch, WARP accounts | state machine |
| `MCParser`, `ParserProofs` | | instances, proofs |
| `Streams` | the stream handlers | state machine |
| `Mobile`, `MobileProofs` | the mobile library | state machine, proofs |
| `MCClients` | `Streams` and `Mobile` side by side | instances |

Each of these modules has its mutants: wrong forms of its own definitions, a
dropped guard or a missing reset, with which the run of a property must fail.
`PROJECT.json` names the run, property and mutant of each. No specification uses
them.

### CoreLifecycle

One step of a caller is the code between two accesses to shared variables.
`pc[c]` names the next one; `Test`, `Status`, `Detach`, `CloseBox`, `ClearBox`,
`Deactivate` and `ForgetServer` are the steps that several operations share,
with their place and successor as parameters.

| state | code |
|---|---|
| `coreState` | `CoreState`, `v2/coreinfo.go` |
| `box`, `instance` | `Box`; what became of each sing-box instance: off, running, or faulty after a `Close` that failed |
| `oldCommandServer`, `server`, `attached` | the variable; what became of each server; the service `SetService` gave it |
| `configOptions` | whether the pointer is set, which is all that `StartService` needs to know to dereference it |
| `tunnelServiceRunning` | the flag in package `config` |
| `entry`, `req`, `own`, `after` | the frame of a call: its entry point, its request, the instance it has started and not yet published, and where it goes on after `StopAndAlert` |
| `closeFailed`, `crashed` | history: a `Close` inside `Stop` has failed; the process has ended in a panic |
| `faults` | may something fail: chosen in the initial state from `MayFail`, so that one run checks safety with failures and liveness without |

Decisions worth knowing when comparing it to the code:

* `if x != nil { x.f() }` is one step: the test and the call use the same load
  for any practical purpose. `Stop` tests `Box` at line 277 and closes it at
  line 290, and those are two steps.
* The panic in `StopClose` (`Box` cleared between the two) is recovered inside
  `Stop`, which then returns nil and no error; `Restart` goes on after that.
* `StopAndAlert` closes the command server and keeps the reference
  (`v2/custom.go:36`), `Stop` closes and forgets it, `ServiceReload` forgets it
  without closing it. The model keeps all three.
* `BuildOutside` is a build by something that is not a call of the core (the
  standalone mode, the libraries): what it does to the shared state is the flag
  of the tunnel, and it may end the process in a panic.
* A failing `Close` leaves the instance `faulty`: sing-box says nothing about
  its state, so neither does the model.
* `AbstractCore` has two variables, the status and whether a service runs:
  `KeepsProtocol` maps them to `coreState` and `Serving` (`Box` is an instance that
  runs). Its actions are what a client may see: a start where nothing serves or a
  reload over what serves, the service that comes up and is reported, a stop, the
  service that goes down under any status but STARTED, and STOPPED, which after a
  stop comes only once the service is down and after an error or a panic comes
  first.
* The broadcasting of the status, the logging and the file of `EnableRawConfig`
  (when `configOptions` asks to save it) are left out.

### Tunnel, AbstractTunnel

A request with the handler that serves it is one step, except that it may also be
lost to a deadline and executed later (`late`). `Start` and `Stop` in the
privileged process are those of `CoreLifecycle` reduced to whether the instance
is up: the other process has one client at a time in nearly every behaviour, and
its own interleavings are those of `CoreLifecycle`.

| state | code |
|---|---|
| `tunnelServiceRunning` | the flag, set by activation and cleared only by a stop that fails |
| `core`, `again` | the core's call: building, in `DeactivateTunnelService`, waiting for its first or second stop request; and whether the call that stops goes on to start, as `Restart` and a `Start` over a core that runs do |
| `job`, `install` | the goroutines of `ActivateTunnelService` and of the stop nobody waits for, and whether the start may still install the service |
| `helper` | the privileged process: none, serving with nothing up, or up |
| `selfStop` | the stops the process sends to itself, the first request and the second |
| `wanted` | history: the core was started with the tunnel |
| `disturbed` | history: since the last start of the core that found nothing in flight and no tunnel, something was activated beside something in flight or over a tunnel, built without a start, stopped with a start in flight, or a request had no answer, a start failed for good, the process died |
| `abandoned` | history: since the last deactivation that found no start in flight, a start was in flight at one, a configuration was built after one, or a stop had no answer |
| `world` | what may go wrong, and how much may be in flight when the client calls (a bound): constant, chosen in the initial state from `Worlds` |

`CoreStart` begins a start of a STOPPED core, `Build` is the build inside it and
`BuildOnly` a build outside of any start, in whatever state the core is. `CoreStop` is
a stop, alone or as the first half of a `Start` or `Restart`, whose build follows at
once: nothing waits for the stop that the privileged process sends to itself, so
that it may arrive after the new start. `Install` and `RunHelper` may end without an
error and without a process that serves: four of the five wrappers that ask for
root run the executable without the arguments (`config/admin_service_cmd_runner.go:22-28`).

`AbstractTunnel` is the promise: the user changes what is wanted only when the
tunnel agrees, and the tunnel follows, in the end; after a disturbance it promises
nothing, until the tunnel is down and a start finds nothing in flight.
`KeepsPromise` maps `up` to `helper = "up"`.

### ConfigBuild

The data of a sing-box configuration is reduced to who names whom: tags,
members of groups, detours, targets of rules, DNS servers and rule sets.
`BuildConfig` is four steps because of the one package variable it shares:
`Route` reads `OutboundMainProxyTag`, `Reset` and `AddWarp` write it, `Patch`
completes the outbounds.

* An outbound's kind is `proxy` (anything sing-box dials), `wireguard`, `custom`
  (a WARP outbound still to be made) or `group`; its host is `ip`, `auto` or a
  domain. `isBlockedDomain` is taken as `auto`: both get an address invented by
  the build (`config/warp.go:186`).
* Rules of the outbound `proxy` are routed to `dns-out` (`config/config.go:534`):
  the model does as the code does.
* The switches on the outbound of a client's rule have no default
  (`config/config.go:528-535, 548-562`), and nothing validates the string: for any
  other outbound the target and the DNS server stay empty, `Nowhere` in the model.
  `RulesResolve` names that exception.
* The default of the selector is the mark `§default§` itself when a shown tag
  contains it (`config/config.go:211`); `GroupsResolve` names that exception.
* The generated WARP outbound's own server is not in the rule that is resolved
  directly, so `ServersAreForced` speaks of the client's outbounds.

### Standalone

Extends `CoreLifecycle`: `main` and `loop` are the steps of `RunStandalone` and
`updateConfigInterval`, `current` and `new` their variables; a goroutine they
spawn is a caller of the core, and `CoreStep` is one of its steps together with
what it means for the histories (which content an instance was made of, whether
the last request about the tunnel was to activate it). A content is a model
value with whether its interval is positive. With an interval of hours nothing
that was spawned is still running at the next refresh; with one of zero or less
`updateConfigInterval` returns at once, but only before its first round: a later
content with such an interval makes the loop read without a pause
(`v2/standalone.go:191, 196`). `hurried` marks the behaviours in which that loop has
read while a call of its last update went on. The loop does not know of the signal:
it goes on reading, building and spawning while the `Stop` of `RunStandalone` runs,
until the process ends.

The code compares the strings it has built (`v2/standalone.go:201`), and a build puts
a Clash secret into them that it draws anew each time, unless the options give
one or disable the Clash API (`config/config.go:265-273`). A content is therefore such a
string. Those of the constant `Drawn` have a drawn secret: `Refresh` never returns one
of them that is current or in a call or instance. So with the default options every
refresh that succeeds is an update and restarts the core, although the profile is
the same; only contents outside `Drawn` can be found unchanged (`KeepRunning`).

### DartBridge, Library

`dl` holds the pointers of `dart_api_dl.c`, all of them, under the names of the
three macro tables; `Dart_InitializeApiDL` is a test of the version and one
step per table of assignments. `FindFunctionPointer` is the search of the code
(the first entry of a name). A host is either Dart code that initialises the
bridge before anything else and perhaps again, at any moment, or a program that
calls only the exports of `custom.go`.

`Library` makes the exported functions sequences of steps around calls of the
core (`lib`), with the command client (`commandClient`, `peer`). `recovered` is
the history of a panic of the core that became a result. A step of the core that
posts a message while the pointer is null ends the process.

Seen while modelling, and not the subject of a run: the C string of
`SendStringToPort` is never freed (`bridge/bridge.go:30`), and a post that fails is
only printed; `startService` reports success when a panic in the start was
recovered, which is every start before `parseCli gen` has set the options; a
second `startService` without a `stopService` keeps the client of the old server.

### Parser

A task of the batch is the place of its outbound. At most two run at once, and
each stores its result under its tag. An outbound that asks for a new account
takes the steps of `GenerateWarpInfo` and `CreateIdentityOnly` (`DeleteDevice`,
`Register`, `UpdateAccount`), which the clients' `GenerateWarpConfig` takes as well.
`registered` is the WARP service's own state; a request can be refused, and be
carried out with its answer lost. `givenUp` is the history of the devices an error
left behind.

An object with an empty list of outbounds is accepted, a document of Clash with an
empty list is not.

Seen while modelling: a JSON object without outbounds is made an outbound of
itself, which cannot be encoded, and a JSON array is always refused
(`config/parser.go:43-56`: the decoder makes `[]interface{}`, never the type that is
looked for); a number in JSON is never a `uint16`, so the port of a WARP outbound is
always 0 (`config/warp.go:153`); an identity without peers, and a client id of two
bytes, panic in a goroutine of the batch, where nothing recovers, and end the
process.

### Streams, Mobile

`Streams` has one step of a handler per access to the shared clients and
observers. The three info handlers never return: `break` leaves their `select` and
not their loop, so their deferred disconnect never runs. A command client that
does connect calls its handler's `Connected`, which uses a logger that
`v2/commands.go:24` leaves nil: the process ends (`dead`). The two listeners are
right, and `ListenersReturn` is about them.

`Mobile` is the library of `mobile/mobile.go`, called from one thread. Its variable
`service` is only ever assigned nil (`mobile/mobile.go:55-57`) and read by nothing, so it
is left out. The two modules share nothing and are checked in one run.

## 4. The runs

| run | asks | what the answer is |
|---|---|---|
| `core_serial` | one client awaits each call; every entry point but `StartService`, every failure and panic, or none | status, box, server and instances agree, as `AbstractCore` says; a running box is never overwritten, and only `ServiceReload` gives up a listening server, until a `Close` in `Stop` fails; where nothing fails `Start` ends in STARTED and `Stop` in STOPPED |
| `core_racing` | two concurrent callers of `Start`, `StartService`, `Stop` | STARTING never stays, STOPPING only after a failed `Close`; `Box` never stays at a closed instance |
| `core_reload` (violation) | does a reload bring the service back | no, section 6 |
| `standalone` | updates, failing and panicking builds and the signal, in any order | an update leaves a `Box` of the current configuration or none; a refresh that builds the same string disturbs nothing; only builds panic; the signal's `Stop` leaves a tunnel only in the two races with the update loop that `raced` names |
| `library` | a host with and without Dart code | no null pointer is called once the bridge is initialised; success means what it says; the client follows the service |
| `bridge_null` (violation) | is the bridge initialised by using the library | no, section 6 |
| `tunnel` | starts, restarts, stops and builds, with up to two things in flight: a world where nothing fails, one where everything fails and the process dies, one where the tunnel fails and answers are late | tunnel and core agree and `AbstractTunnel` is implemented until something disturbs; a tunnel outlives its core only if it was abandoned; otherwise a stopped tunnel goes down; every start ends |
| `tunnel_failed` (violation) | does a failed start stop the core | no, section 6 |
| `build` | every combination of outbounds in every WARP mode, and of the options that make rules, one after another; builds in every WARP mode beside each other | groups, detours, targets, DNS servers and rule sets resolve, detours lead out, servers are resolved directly, DNS rules have conditions, only a short client id panics, the final outbound exists while no build has used `warp_over_proxy` |
| `build_over` (violation) | does that mode enter WARP | no, section 6 |
| `parser` | documents of up to three outbounds, the batch in any order, a client beside it, a WARP service that refuses and loses answers | results go where their tags are; every device is somebody's, and a client's account is registered unless its last request failed |
| `clients` | streams opened, half closed and cancelled at any step; calls of the mobile library with servers that fail to start or to close | listeners return; the first `Start` after a `Stop` serves its service |

**Bounds.** The core runs use one caller with two instances and two servers, or
two callers with three of each. A slot is used again once nothing refers to it,
and a call begins only when there is a free slot for every call in progress
(`Room`); so a run ends early only along behaviours in which calls lose
instances, which is why these configurations do not check for deadlock (a panic
that nothing recovers ends the process as well). One slot beyond what is in use
is what overwriting and losing an instance need, and all hazards of the list
are between two calls. The number of calls in a row is not bounded. In
`core_racing` the requests are raw ones that want the command server, so that a
build is not needed in a start: what it adds to an interleaving is one step on
the flag and one more place to fail. The three properties of that run are
theorems, for all entry points and any number of callers (section 5).
`core_serial` chooses in its initial state whether anything may fail, and its
liveness properties speak of the behaviours in which nothing does.

The tunnel run uses two goroutines and chooses one of three worlds in its initial
state (235,000 states). The client calls only with at most `maxPending` things in
flight: two in the world where nothing fails, so that an activation finds another
one, or both stops of the process to itself; one in the world where everything fails
and the process dies; none in the late one, which can still have a start, both stops
and late requests in flight. The number of starts, builds and stops is not bounded.
The theorems have no such bound.

`standalone` has three goroutines: `RunStandalone`'s and two that are spawned,
which is what one update needs; a spawn waits for a free one. It has three
instances, so that an update can leave one behind (4.3 million states). There are
two contents: one with an interval of hours and a secret of its own, one with
neither, which are enough for an update there and back, a loop that hurries and a
refresh without a change. A drawn content that follows a drawn content would be a
third name for the same steps; the theorems are about any contents.

`library` has one thread, as its hosts have, two instances and two servers, and
three VMs: one of the version with more symbols and in another order, one with a
lower minor version that repeats a symbol, and one of another major version.

`parser` has three devices, of which a client can hold one, and three places, of
which two run at once. Once all devices are registered, registrations fail: a
bound, named at `Device`. Every pair of outbounds with two tags and five keys
occurs, every outcome of the options, and the documents with three accounts.

`clients` has one stream of each kind and two mobile services and servers.

The build runs enumerate jobs: inputs of up to four outbounds: one per kind whose
treatment differs, in every combination of hosts, detours (to each other, to
the client's own group, to the selector), keys and marks that the code tests,
each with the options that decide the outbounds; and a few inputs with every
combination of the options that decide the rules, which no outbound affects.
The number of builds is not bounded. Only the jobs of `Together`, a few inputs in
every WARP mode, may be in progress beside another: the mode is all that
decides what builds share.

**Symmetry** is used for slots, callers and goroutines in the runs without
temporal properties that need fairness.

**Fairness.** The core runs: weak fairness of every call's steps. A goroutine that
can run is scheduled, and the calls into sing-box return; nothing makes a client
call. The tunnel runs: weak fairness of the core's call, of each goroutine and of what the
privileged process has accepted; every request has a deadline. Neither the
death of the process nor the client's calls are fair. `clients`: weak fairness of
each handler; a `select` with a branch that stays ready takes it in the end,
because it chooses at random.

**When properties hold.** Several core properties are conditional on
`Disciplined`: the client awaits each call and leaves `StartService` to `Start`
and `Restart`. Two concurrent `Start` calls really can overwrite a running
instance, and the code does nothing against that: the properties without that
condition (`NoStrandedStarting`, `NoStrandedStopping`, `BoxRuns`) are what is
left, and they are checked with two racing callers.

The tunnel's properties have exceptions, because the code really does go wrong
there, and each is a named history: TLC shows the orphan or the disagreement when
it is taken away. A tunnel comes up without a core when the core was stopped, or its
start failed after the build (`config/config.go:304`), with the start of the tunnel in
flight; when a configuration was built after the stop (`v2/custom.go:227-257`); when a
stop had no answer (`abandoned`). It may go down under its core when it was activated
with a stop in flight, as by `Restart` (`disturbed`). The properties say that there
is no other way. `NoTunnelLeft` is the same for the signal: the loop spawns a call
before the signal's `Stop` has passed its tests, or activates after it has
deactivated (`raced`). `Undisturbed` is about a refresh that fails or builds the very
string that is current; by default no refresh does (`Drawn`).

`BoxIsCurrent` excludes the behaviours in which the update loop does not wait
(`hurried`): there an old content can stay. `RulesResolve` excludes, for the rules
that name an unknown outbound, their target and DNS server. `FinalResolves` says
nothing once a build has used `warp_over_proxy`, where `build_over` shows what happens.
`ListenersReturn` is about the two listeners, not about the three info handlers.
`DevicesAreHeld` excludes documents that name a tag twice: there a device is
registered whose outbound is dropped.

## 5. What is proved

Every invariant and every safety property of a step that a passing run checks is
also a theorem. The theorems hold for any sets of callers, instances, servers,
entry points, requests, contents, VMs, jobs, documents, devices and clients, and
any number of calls, builds and goroutines. The assumptions are the named ones of
the modules:

| assumption | says |
|---|---|
| `EntryAssumption`, `FlagAssumption`, `NilAssumption` | entry points and requests are of their types, flags are Booleans, `Nil` is no instance or server |
| `StandaloneAssumption`, `ResultAssumption`, `DrawnAssumption` | the calls of the core that the mode makes, the type of what a read finds, the contents with a drawn secret are contents |
| `LibraryAssumption` | the library has one thread, which calls `Start`, `Stop` and `GenerateConfig` with the two requests that the source builds (`custom/custom.go`) |
| `NullAssumption`, `ApiAssumption`, `PostAssumption` | the null pointer is no function, a VM's table is of its type, and one of the major version has the symbol that messages are posted with |
| `NoneAssumption` | no service or server of the mobile library is `None` |
| `WorldAssumption`, `JobAssumption` | worlds are of their type, the goroutines in flight are finitely many |
| `DeviceAssumption`, `ClientAssumption`, `DocumentsAssumption` | devices are none of the other values that an outbound's WARP field can have, clients are not places, the outbounds of a document are at places |
| `TogetherAssumption` | the jobs that may run beside another are jobs |

**The core, for any interleaving** (`CoreLifecycleProofs`).

| theorem | says | argument |
|---|---|---|
| `TypeCorrect` | `[]TypeOK` | one lemma per shared step (`TestType`, `CloseBoxType`, ...), then one case per action |
| `StartingIsPending` | `[]NoStrandedStarting` | inductive with the types: each step out of `Bringing` sets another status, each step that sets STARTING enters it |
| `StoppingIsPending` | `[]NoStrandedStopping` | the same for `Ending`, where two steps leave it by failing, and set `closeFailed` |
| `BoxStaysUp` | `[]BoxRuns` | not inductive: a call might publish an instance somebody has closed. `OwnInv` adds that an instance a call has started and not published runs, is not `Box`, and is owned by no other call |
| `StartedServes` | `[]StartedMeansServing` | not inductive: a stop closes the box two steps after it has reported STOPPING. `SerialInv` says that at most one call is in progress and what the status is at each of its steps (`StatusAt`) |

**The core, for a client that awaits each call** (`CoreSerialProofs`). All from
`CoreInv`: at each step of the one call, whether `Box` runs (`HeldBox`), whether a
server listens (`HeldServer`) and whether anything is attached (`HeldService`); what is
left where no call has changed anything (`Calm`); that only the core's server has a
service, and that is `Box` (`Attachment`); that what runs is `Box` or about to be
published (`Kept`). A lemma per group of actions shows it of the caller that moves
(`Good`), with the others idle (`Solo`).

| theorem | says |
|---|---|
| `StoppedIsEmpty`, `InstancesAreKept`, `ServicesRun` | `[]StoppedMeansNoBox`, `[]NoLostInstance`, `[]NoDanglingService` |
| `RunningBoxStays`, `ListeningServerStays` | `NoOverwrittenBox`, `NoOverwrittenServer`: a step that changes `Box` or the reference to the server is one of a few, and the invariant says what those find |
| `StatusIsTrue` | `KeepsProtocol`, the refinement of `AbstractCore`: a lemma per group of actions says which of its steps each of them is, or that it changes neither status nor service (`Promised`). A panic must not report STOPPED over a service that STOPPING had announced the end of: no panic finds one. `PromiseIsTruthful`: `AbstractCore` alone makes STARTED mean a service that runs, so `core_serial` checks the promise and not `StartedMeansServing` beside it |

**The standalone mode** (`StandaloneProofs`).

| theorem | says | argument |
|---|---|---|
| `ImplementsCore` | `RunSpec => Spec` of the core | each action of `Standalone` is a call or a step of the core, a build outside of it, or leaves it alone |
| `UpdatesKeepBoxUp`, `UpdatesStrandNoStart` | `[]BoxRuns`, `[]NoStrandedStarting` in this mode | from `ImplementsCore` and the theorems about the core |
| `RunTypes` | `[]RunTypeOK` | |
| `UpdatesReachBox` | `[]BoxIsCurrent` | not inductive: the Stop and the StartService of an update are two goroutines. `RunInv` says which calls are in flight where (`CallInv`, `MainInv`, `FirstInv`), and that a `Box` of another content is there only while a call will replace or clear it (`UpdateInv`, `Replacing`) |
| `ShutdownStopsTunnel` | `[]NoTunnelLeft` | `OrderlyInv`: while nothing has raced, the orderly Stop still finds what it tests and no other call, or has not passed its deactivation, or there is no tunnel. It needs the calls that the loop spawns after the tests: they cannot bring a tunnel up |
| `RefreshesDoNotDisturb`, `CallsDoNotPanic` | `Undisturbed`, `OnlyBuildsPanic` | from `RunInv`: before the first update no call moves; a call has a raw request without a command server |

**The libraries** (`LibraryProofs`, `MobileProofs`).

| theorem | says | argument |
|---|---|---|
| `LibraryImplementsCore` | `LibrarySpec => Spec` of the core | as for the standalone mode |
| `LibraryServes`, `LibraryKeepsProtocol` | `[]StartedMeansServing`, `KeepsProtocol` in the library | from `LibraryImplementsCore`: the host's one thread is the client that awaits its calls |
| `InitialisedNeverNull` | `[]NoNullCall` | not inductive: the pointer is null until the first initialisation. The invariant adds that it is set from the first table on and never again null, because the search finds in the same table what it has found before (`FindFinds`, `PostIsFound`) |
| `LibraryTypes` | `[]LibraryTypeOK` | |
| `SuccessMeansServing`, `ClientIsConnected` | `[]SuccessIsTrue`, `[]ClientFollowsServer` | `HostInv`: the exported function and the call of the core it waits for are at matching steps (`ExportInv`), and a connected client has a server that listens (`ClientInv`); what the core says at those steps is `CoreInv` |
| `MobileIsServed` | `[]MobileServes` | nearly inductive: an epoch begins without a server |

**The tunnel** (`TunnelProofs`).

| theorem | says | argument |
|---|---|---|
| `TunnelTypes` | `[]TypeOK` | a lemma per request, then per action |
| `TunnelHasCause` | `[]NoOrphan` | `OrphanInv`: a core that has begun to stop and abandoned nothing has no start in flight and no late one. It holds in every world, for any number of goroutines and of things in flight |
| `QuietTunnelAgrees` | `[]QuietAgrees` | `SafeInv`: while nothing has disturbed, nothing is late and one of three holds: the tunnel is up for a core that wants it (`TunnelUp`), it is down for one that does not (`TunnelDown`), or exactly one start is in flight and no stop is (`Starting`) |
| `TunnelIsSafe` | `Promise!Safe`: the safety part of `AbstractTunnel` | from `SafeInv`, each step that does not disturb changes what is wanted only when the tunnel agrees, and the tunnel only to agree; a disturbance ends only with the tunnel down |

**Configurations** (`ConfigBuildProofs`, `ParserProofs`).

| theorem | says | argument |
|---|---|---|
| `FinalExists` | `[]FinalResolves` | not inductive: what a build reads was written by another. `FinalIInv` adds that the variable and every final outbound read from it are the selector until a build has run in the mode `warp_over_proxy`, and that a finished build has a selector |
| `BuildTypes`, `GroupsAreWhole`, `RulesAreWhole`, `ServersAreDirect`, `DnsRulesHaveConditions`, `PanicsNeedShortId` | `TypeOK` and the structure of a finished build | `ContentInv`: what a build has put in so far is what its job says at that step, whatever runs beside it (`OneBuild`); the rest is set theory about one input. `RulesAreWhole` names the rules for an unknown outbound |
| `DetoursAreGrounded` | `[]DetoursLeadOut` | from `ContentInv`; `LeadsTo` says where each kind of outbound leads, and every set of nodes that has the selector, the URL test, WARP or an outbound of the client has one that leads out of it |
| `PatchesGoByTag`, `NoDeviceIsLost` | `[]PatchedByTag`, `[]DevicesAreHeld` | `ParserInv`: a place has a request while its task runs (`PlaceInv`), a request has an identity from its registration to its answer (`RequestInv`), no device is in two hands (`DeviceInv`), and each result is one that a finished place has made for its tag (`BatchInv`) |

Every strengthening was checked with TLC before it was proved, as an invariant of
the run of its properties.

## 6. What the checks found

* **A reload never reloads** (`core_reload`). `ServiceReload` asks `StartService`
  for neither content nor path (`v2/old_command_server.go:28`); reading the
  file "" fails and the core ends STOPPED.
* **A tunnel that fails does not stop the core** (`tunnel_failed`). The log says
  "Start Tunnel Failed! Stopping core..." (`config/admin_service_commander.go:66`);
  the function returns and nothing stops.
* **Nothing in the repository initialises the bridge** (`bridge_null`). The header
  asks for it (`bridge/include/dart_api_dl.h:21-22`); the only call of
  `InitializeDartApi` is commented out (`custom/custom.go:26-29`), while
  `useFlutterBridge` is TRUE (`v2/coreinfo.go:28`). A host that calls `startService`
  and nothing else calls a null pointer with the first status; one that calls
  `Dart_InitializeApiDL` itself is safe (`InitialisedNeverNull`).
* **`warp_over_proxy` is applied one build late** (`build_over`).
  `setRoutingOptions` reads `OutboundMainProxyTag` before `setOutbounds` of the
  same build sets it: the first build routes to the selector, and the next one
  to WARP's tag, whether or not it has that outbound
  (`config/config.go:702, 132, 160`).

Seen while modelling, with no line of the repository that says otherwise, so that
they are exceptions of properties and not runs of their own: every build
activates the tunnel, also one that starts nothing (`config/config.go:303-304`);
`Restart` and the stop that the privileged process sends to itself race; by default
a refresh of an unchanged profile restarts the core (`config/config.go:265-273`,
`v2/standalone.go:201`); a client's rule for an unknown outbound is routed nowhere
(`config/config.go:528-535`); an installation can end without an error and have
installed nothing (`config/admin_service_cmd_runner.go:22-28`).

## 7. What is only model-checked, and what is not modelled

Only model-checked:

* liveness under fairness, which is out of the prover's reach: `StartSucceeds`,
  `StopSucceeds`, `StoppedGoesDown`, `StartsEnd`, `ListenersReturn`, and
  the liveness half of `KeepsPromise` (its safety half is `TunnelIsSafe`);
* the four violations of section 6: a counterexample is a run of one instance;
* nothing over recursive data: no module has a `RECURSIVE` operator.

Not modelled:

* the headers of the Dart SDK that `bridge/include` carries: `dart_api.h`,
  `dart_native_api.h`, `dart_tools_api.h`, `dart_embedder_api.h`,
  `analyze_snapshot_api.h` and `bin/dart_io_api.h` are 5,244 of the 5,522 lines of C
  in the repository, and all of them are declarations and their comments. The
  program calls one function of them, `Dart_PostCObject`. There is no behaviour in
  them to translate, so of the C code the models cover `dart_api_dl.c`, the macro
  tables of `dart_api_dl.h`, `dart_version.h` and `dart_api_dl_impl.h`, and a
  count of mapped lines over C files alone stays small. The program is the Go
  code, which the other modules model;
* the memory model below an access: Go gives no meaning to racing accesses; the
  models take each access to a pointer or a flag as atomic, which is what the
  supported platforms do for words;
* in `ConfigBuild`: TLS tricks, fragments and multiplexing of single outbounds,
  inbounds, and literal settings, none of which another part of the
  configuration refers to;
* in `CoreLifecycle`: which options a build uses after a change of the options
  that did not decode (`v2/custom.go:205` empties them first);
* in `Tunnel`: the control of the platform's service manager beyond
  `tunnel install`, the interleaving of two requests inside the privileged
  process, and requests from a third process: the subcommands
  `tunnel activate`, `deactivate` and `exit` of the command line;
* that the signal ends the process, as a property: with three instances, which the
  race of an update needs, and the loop going on during the `Stop`, the graph is beyond
  a check of liveness, and `standalone` is checked for safety;
* in `Standalone`: what becomes of a request about the tunnel once it was made.
  `tunnel` is the last one; the goroutines that carry requests out, and may do so late
  or never, are those of `Tunnel`, and the end of the process takes them with it;
* in `Streams`: what is sent, and the unary calls of `v2/commands.go`;
* the old command clients (`v2/old_commands.go`), `LoadOrCreateIdentity` and the
  identity file (`pkg/warp/account.go`): nothing in the repository calls them;
* generated code, cryptography, HTTP, the command line, address arithmetic,
  packaging: I/O or functions without state of the system's own.

## 8. The plan

Done, in this order: `CoreLifecycle` (the most important behaviour) and its
theorems; `Tunnel` and its promise; `ConfigBuild` and its theorem; `Standalone` on
the core, with theorems; `DartBridge` and `Library` on the core, with theorems;
`Streams` and `Mobile`; `Parser` with the WARP accounts; the theorems about a client
that awaits its calls, and with them those of the library; the safety of `Mobile`,
`Tunnel`, `ConfigBuild`, `Parser` and of the standalone mode's histories;
`AbstractCore` and its refinement.

Next:

1. the options of the core through a change that fails half-way
   (`v2/custom.go:205`), the one hazard of the list without a property, with a
   theorem about which options a build uses;
2. an invariant of `Streams`, which has only a liveness property: no subscription
   outlives its handler;
3. what `BoxIsCurrent` becomes for a loop that was hurried: the contents that may
   stay, and for how long;
4. that the signal ends the process, on an instance small enough for liveness;
5. the commands of the platform's service manager.
