------------------------- MODULE ConfigBuildProofs -------------------------
(***************************************************************************)
(* Theorems about ConfigBuild, for any callers and jobs.                   *)
(*                                                                         *)
(* FinalResolves is not inductive: what a build reads from the package     *)
(* variable was written by another one, any number of steps before.  The   *)
(* invariant adds that the variable, and every final outbound read from it *)
(* and not yet returned, is the selector until some build has put WARP     *)
(* over the proxies, and that a finished build has a selector.             *)
(*                                                                         *)
(* The other properties are about one build, and follow from ContentInv:   *)
(* what a build has put into its configuration so far is what its job says *)
(* at that step, whatever the builds beside it do.                         *)
(***************************************************************************)
EXTENDS ConfigBuild, TLAPS

Fields == {"final", "targets", "ruleSets", "servers", "dnsRules", "forced", "outbounds"}

Shape ==
  /\ config = [c \in Caller |-> config[c]]
  /\ \A c \in Caller : DOMAIN config[c] = Fields
  /\ pc = [c \in Caller |-> pc[c]]

TagInv   == OutboundMainProxyTag = Select \/ everOver
FinalInv == \A c \in Caller : config[c].final = Select \/ everOver
HasSelector == \A c \in Caller : Built(c) => Select \in Tags(c)

FinalIInv == Shape /\ TagInv /\ FinalInv /\ HasSelector

\* The groups of any input include the selector.
LEMMA SelectorIsGroup ==
  ASSUME NEW input
  PROVE  \E o \in Groups(input) : o.tag = Select
BY DEF Groups, Entry

LEMMA EmptyShape == DOMAIN Empty = Fields /\ Empty.final = Select
BY DEF Empty, Fields

LEMMA FinalInit == Init => FinalIInv
<1> SUFFICES ASSUME Init PROVE FinalIInv
  OBVIOUS
<1>1. Shape
  BY EmptyShape DEF Init, Shape
<1>2. TagInv /\ FinalInv
  BY EmptyShape DEF Init, TagInv, FinalInv
<1>3. HasSelector
  BY DEF Init, HasSelector, Built
<1> QED BY <1>1, <1>2, <1>3 DEF FinalIInv

\* Completing a configuration keeps its final outbound and adds the groups.
LEMMA CompletedShape ==
  ASSUME NEW cfg, DOMAIN cfg = Fields, NEW j
  PROVE  /\ DOMAIN Completed(cfg, j) = Fields
         /\ Completed(cfg, j).final = cfg.final
         /\ Groups(j.input) \subseteq Completed(cfg, j).outbounds
<1> DEFINE new == Completed(cfg, j)
<1>1. DOMAIN new = DOMAIN cfg
  BY DEF Completed
<1>2. new.final = cfg.final
  BY DEF Completed, Fields
<1>3. new.outbounds = cfg.outbounds \cup AllOutbounds(j)
  BY DEF Completed, Fields
<1>4. Groups(j.input) \subseteq cfg.outbounds \cup AllOutbounds(j)
  BY DEF AllOutbounds
<1> QED BY <1>1, <1>2, <1>3, <1>4

\* What a step of one build does to the configurations.
LEMMA FinalStep ==
  ASSUME FinalIInv, NEW c \in Caller, Step(c)
  PROVE  FinalIInv'
<1> USE DEF FinalIInv
<1>1. CASE BuildConfig(c)
  <2>1. Shape'
    BY <1>1, EmptyShape DEF BuildConfig, Goto, Shape
  <2>2. TagInv' /\ FinalInv'
    BY <1>1, EmptyShape DEF BuildConfig, TagInv, FinalInv, Shape
  <2>3. HasSelector'
    BY <1>1 DEF BuildConfig, Goto, HasSelector, Built, Tags, Shape
  <2> QED BY <2>1, <2>2, <2>3
<1>2. CASE Route(c)
  <2>1. Shape'
    BY <1>2 DEF Route, Goto, Shape
  <2>2. config'[c].final = OutboundMainProxyTag
    BY <1>2 DEF Route, Shape, Fields
  <2>3. \A d \in Caller \ {c} : config'[d] = config[d]
    BY <1>2 DEF Route, Shape
  <2>4. TagInv' /\ FinalInv'
    BY <1>2, <2>2, <2>3 DEF Route, TagInv, FinalInv
  <2>5. HasSelector'
    BY <1>2, <2>3 DEF Route, Goto, HasSelector, Built, Tags, Shape
  <2> QED BY <2>1, <2>4, <2>5
<1>3. CASE Reset(c)
  <2>1. Shape' /\ TagInv' /\ FinalInv'
    BY <1>3 DEF Reset, Goto, Shape, TagInv, FinalInv
  <2>2. HasSelector'
    BY <1>3 DEF Reset, Goto, HasSelector, Built, Tags, Shape
  <2> QED BY <2>1, <2>2
<1>4. CASE AddWarp(c)
  <2>1. \/ UNCHANGED config
        \/ \E x : config' = [config EXCEPT ![c].outbounds = x]
    BY <1>4 DEF AddWarp
  <2>2. \E step \in {"patch", "panicked", "failed"} : pc' = [pc EXCEPT ![c] = step]
    BY <1>4 DEF AddWarp, Goto
  <2>3. Shape'
    BY <2>1, <2>2 DEF Shape
  <2>4. \A d \in Caller : config'[d].final = config[d].final
    BY <2>1 DEF Shape, Fields
  <2>5. everOver => everOver'
    BY <1>4 DEF AddWarp
  <2>6. TagInv'
    <3>1. CASE UNCHANGED OutboundMainProxyTag
      BY <2>5, <3>1 DEF TagInv
    <3>2. CASE OutboundMainProxyTag' # OutboundMainProxyTag
      <4>1. MainTag(job[c]) # Select /\ everOver' = (everOver \/ job[c].opt.mode = "warp_over_proxy")
        BY <1>4, <3>2 DEF AddWarp, Select, Warp
      <4>2. job[c].opt.mode = "warp_over_proxy"
        BY <4>1 DEF MainTag
      <4> QED BY <4>1, <4>2 DEF TagInv
    <3> QED BY <3>1, <3>2
  <2>7. FinalInv'
    BY <2>4, <2>5 DEF FinalInv
  <2>8. HasSelector'
    <3> SUFFICES ASSUME NEW d \in Caller, Built(d)'
                 PROVE  (Select \in Tags(d))'
      BY DEF HasSelector
    <3>1. d # c
      BY <2>2 DEF Built, Shape
    <3>2. Built(d) /\ config'[d] = config[d]
      BY <2>1, <2>2, <3>1 DEF Built, Shape
    <3> QED BY <3>2 DEF HasSelector, Tags
  <2> QED BY <2>3, <2>6, <2>7, <2>8
<1>5. CASE Patch(c)
  <2>1. \A d \in Caller \ {c} : config'[d] = config[d] /\ pc'[d] = pc[d]
    BY <1>5 DEF Patch, Goto, Shape
  <2>2. Shape' /\ config'[c].final = config[c].final
    <3>1. \E step : pc' = [pc EXCEPT ![c] = step]
      BY <1>5 DEF Patch, Goto
    <3>2. CASE UNCHANGED config
      BY <3>1, <3>2 DEF Shape
    <3>3. CASE config' = [config EXCEPT ![c] = Completed(config[c], job[c])]
      <4> DEFINE new == Completed(config[c], job[c])
      <4>1. DOMAIN new = Fields /\ new.final = config[c].final
        BY CompletedShape DEF Shape
      <4> HIDE DEF new
      <4>2. config' = [config EXCEPT ![c] = new]
        BY <3>3 DEF new
      <4> QED BY <3>1, <4>1, <4>2 DEF Shape
    <3> QED BY <1>5, <3>2, <3>3 DEF Patch
  <2>3. TagInv' /\ FinalInv'
    BY <1>5, <2>1, <2>2 DEF Patch, TagInv, FinalInv
  <2>4. HasSelector'
    <3> SUFFICES ASSUME NEW d \in Caller, Built(d)'
                 PROVE  (Select \in Tags(d))'
      BY DEF HasSelector
    <3>1. CASE d # c
      BY <2>1, <3>1 DEF HasSelector, Built, Tags
    <3>2. CASE d = c
      <4>1. Groups(job[c].input) \subseteq config'[c].outbounds
        <5>1. pc'[c] = "built"
          BY <3>2 DEF Built
        <5>2. pc' # [pc EXCEPT ![c] = "failed"] /\ pc' # [pc EXCEPT ![c] = "panicked"]
          BY <5>1 DEF Shape
        <5>3. config' = [config EXCEPT ![c] = Completed(config[c], job[c])]
          BY <1>5, <5>2, Zenon DEF Patch, Goto
        <5>4. config'[c] = Completed(config[c], job[c])
          BY <5>3, Zenon DEF Shape
        <5> QED BY <5>4, CompletedShape DEF Shape
      <4> QED BY <3>2, <4>1, SelectorIsGroup DEF Tags
    <3> QED BY <3>1, <3>2
  <2> QED BY <2>2, <2>3, <2>4
<1>6. CASE Return(c)
  <2>1. Shape'
    BY <1>6, EmptyShape DEF Return, Goto, Shape
  <2>2. TagInv' /\ FinalInv'
    BY <1>6, EmptyShape DEF Return, TagInv, FinalInv, Shape
  <2>3. HasSelector'
    BY <1>6 DEF Return, Goto, HasSelector, Built, Tags, Shape
  <2> QED BY <2>1, <2>2, <2>3
<1> QED BY <1>1, <1>2, <1>3, <1>4, <1>5, <1>6 DEF Step

LEMMA FinalInvariant == Spec => []FinalIInv
<1>1. FinalIInv /\ [Next]_vars => FinalIInv'
  <2> SUFFICES ASSUME FinalIInv, [Next]_vars PROVE FinalIInv'
    OBVIOUS
  <2>1. CASE Next
    BY <2>1, FinalStep DEF Next
  <2>2. CASE UNCHANGED vars
    BY <2>2 DEF vars, FinalIInv, Shape, TagInv, FinalInv, HasSelector, Built, Tags
  <2> QED BY <2>1, <2>2
<1> QED BY FinalInit, <1>1, PTL DEF Spec

\* The final outbound of a finished build is one of its outbounds as long as no
\* build has run in the mode warp_over_proxy (config.go:702, 132, 160).
THEOREM FinalExists == Spec => []FinalResolves
<1>1. FinalIInv => FinalResolves
  BY DEF FinalIInv, FinalInv, HasSelector, FinalResolves
<1> QED BY FinalInvariant, <1>1, PTL

-----------------------------------------------------------------------------
(***************************************************************************)
(* What a build has made so far is determined by its job and its step,     *)
(* whatever other builds do.                                               *)
(***************************************************************************)
JobShape == job = [c \in Caller |-> job[c]]

ServersOf(opt) ==
  {DnsRemote, DnsTricks, DnsDirect, DnsLocal, DnsBlock} \cup IF opt.fakeDns THEN {DnsFake} ELSE {}

RoutedRules(opt) ==
  (IF opt.dnsRouting THEN {r \in DnsRules(opt) : Valid(r)} ELSE {})
    \cup IF opt.fakeDns THEN {DnsRule(DnsFake, {"inbound"})} ELSE {}

WarpEntries(j) ==
  IF Generated(j)
  THEN {Entry(Warp, {}, Server(WarpOutbound(j.opt)), WarpOutbound(j.opt).detour)} ELSE {}

\* A client id of two bytes, or a device that was registered and may have one.
ShortId(j) ==
  \/ j.opt.wireguard.clientId = "two" \/ j.opt.wireguard2.clientId = "two"
  \/ \E o \in j.input : o.key = "new"

Content(step, cfg, j) ==
  /\ step \in {"reset", "warp", "patch", "built"} =>
       cfg.targets = Targets(j.opt) /\ cfg.ruleSets = RouteSets(j.opt) /\ cfg.servers = ServersOf(j.opt)
  /\ step \in {"reset", "warp", "patch"} => cfg.dnsRules = RoutedRules(j.opt)
  /\ step \in {"route", "reset", "warp"} => cfg.outbounds = {}
  /\ step = "patch" => cfg.outbounds = WarpEntries(j)
  /\ step = "built" =>
       /\ cfg.outbounds = WarpEntries(j) \cup AllOutbounds(j)
       /\ cfg.forced = ForcedDomains(j)
       /\ cfg.dnsRules = RoutedRules(j.opt) \cup ForceRules(j)
  /\ step = "panicked" => ShortId(j)

BuildSteps == {"idle", "route", "reset", "warp", "patch", "built", "failed", "panicked"}

ContentInv ==
  /\ Shape /\ JobShape
  /\ OutboundMainProxyTag \in {Select, Warp} /\ everOver \in BOOLEAN
  /\ \A c \in Caller :
       /\ pc[c] \in BuildSteps
       /\ pc[c] # "idle" => job[c] \in Jobs
       /\ Content(pc[c], config[c], job[c])

\* A step of c is a step of the build of c alone.
LEMMA OneBuild ==
  ASSUME Shape, JobShape, NEW c \in Caller, Step(c), NEW d \in Caller \ {c}
  PROVE  pc'[d] = pc[d] /\ config'[d] = config[d] /\ job'[d] = job[d]
BY DEF Shape, JobShape, Step, BuildConfig, Route, Reset, AddWarp, Patch, Return, Goto

\* The WARP outbound of the options always has a detour, so that its address is
\* never static.
LEMMA WarpHasDetour ==
  ASSUME NEW opt
  PROVE  ~NeedsStaticIP(WarpOutbound(opt))
BY DEF NeedsStaticIP, WarpOutbound, Select, Direct

LEMMA PanicNeedsId ==
  ASSUME NEW j, NEW o \in j.input, "panic" \in PatchOutcomes(o, j.opt)
  PROVE  ShortId(j)
BY DEF PatchOutcomes, GenerateOutcome, ShortId

LEMMA EmptyContent ==
  ASSUME NEW j, NEW step \in {"idle", "route"}
  PROVE  Content(step, Empty, j)
BY DEF Content, Empty

\* What the step of c makes of its build.
LEMMA ContentStep ==
  ASSUME ContentInv, NEW c \in Caller, Step(c)
  PROVE  /\ Shape' /\ JobShape'
         /\ OutboundMainProxyTag' \in {Select, Warp} /\ everOver' \in BOOLEAN
         /\ pc'[c] \in BuildSteps
         /\ pc'[c] # "idle" => job'[c] \in Jobs
         /\ Content(pc'[c], config'[c], job'[c])
<1> USE DEF ContentInv, Shape, JobShape, Goto, BuildSteps
<1> DEFINE j == job[c]
<1>1. CASE BuildConfig(c)
  <2>1. pc'[c] = "route" /\ config'[c] = Empty /\ UNCHANGED <<OutboundMainProxyTag, everOver>>
    BY <1>1 DEF BuildConfig
  <2>2. job'[c] \in Jobs /\ JobShape'
    BY <1>1, TogetherAssumption DEF BuildConfig
  <2>3. Shape'
    BY <1>1, EmptyShape DEF BuildConfig
  <2> QED BY <2>1, <2>2, <2>3, EmptyContent
<1>2. CASE Route(c)
  <2>1. pc[c] = "route" /\ pc'[c] = "reset" /\ UNCHANGED <<OutboundMainProxyTag, job, everOver>>
    BY <1>2 DEF Route
  <2>2. Shape'
    BY <1>2 DEF Route
  <2>3. /\ config'[c].targets = Targets(j.opt) /\ config'[c].ruleSets = RouteSets(j.opt)
        /\ config'[c].servers = ServersOf(j.opt) /\ config'[c].dnsRules = RoutedRules(j.opt)
        /\ config'[c].outbounds = config[c].outbounds
    BY <1>2 DEF Route, Fields, ServersOf, RoutedRules
  <2> QED BY <2>1, <2>2, <2>3 DEF Content
<1>3. CASE Reset(c)
  BY <1>3 DEF Reset, Content
<1>4. CASE AddWarp(c)
  <2> DEFINE out == WarpOutbound(j.opt)
  <2>1. UNCHANGED job /\ pc[c] = "warp"
    BY <1>4 DEF AddWarp
  <2>2. Shape' /\ OutboundMainProxyTag' \in {Select, Warp} /\ everOver' \in BOOLEAN
    BY <1>4 DEF AddWarp
  <2>3. \/ ~Generated(j) /\ pc'[c] = "patch" /\ UNCHANGED config
        \/ /\ Generated(j) /\ pc'[c] = "patch"
           /\ config' = [config EXCEPT ![c].outbounds =
                config[c].outbounds \cup {Entry(Warp, {}, Server(out), out.detour)}]
        \/ pc'[c] = "failed"
        \/ pc'[c] = "panicked" /\ GenerateOutcome(j.opt.wireguard) = "panic"
    BY <1>4, WarpHasDetour DEF AddWarp
  <2>4. CASE ~Generated(j) /\ pc'[c] = "patch" /\ UNCHANGED config
    BY <2>1, <2>2, <2>4 DEF Content, WarpEntries
  <2>5. CASE /\ Generated(j) /\ pc'[c] = "patch"
             /\ config' = [config EXCEPT ![c].outbounds =
                  config[c].outbounds \cup {Entry(Warp, {}, Server(out), out.detour)}]
    <3>1. config'[c].outbounds = config[c].outbounds \cup {Entry(Warp, {}, Server(out), out.detour)}
      BY <2>5 DEF Fields
    <3>2. \A f \in Fields \ {"outbounds"} : config'[c][f] = config[c][f]
      BY <2>5
    <3>3. config'[c].outbounds = WarpEntries(j)
      BY <2>1, <2>5, <3>1 DEF Content, WarpEntries
    <3> QED BY <2>1, <2>2, <2>5, <3>2, <3>3 DEF Content, Fields
  <2>6. CASE pc'[c] = "failed"
    BY <2>1, <2>2, <2>6 DEF Content
  <2>7. CASE pc'[c] = "panicked" /\ GenerateOutcome(j.opt.wireguard) = "panic"
    BY <2>1, <2>2, <2>7 DEF Content, GenerateOutcome, ShortId
  <2> QED BY <2>3, <2>4, <2>5, <2>6, <2>7
<1>5. CASE Patch(c)
  <2>1. UNCHANGED <<OutboundMainProxyTag, job, everOver>> /\ pc[c] = "patch"
    BY <1>5 DEF Patch
  <2>2. \/ pc'[c] = "built" /\ config' = [config EXCEPT ![c] = Completed(config[c], j)]
        \/ pc'[c] = "failed" /\ UNCHANGED config
        \/ pc'[c] = "panicked" /\ UNCHANGED config /\ ShortId(j)
    BY <1>5, PanicNeedsId DEF Patch
  <2>3. CASE pc'[c] = "built" /\ config' = [config EXCEPT ![c] = Completed(config[c], j)]
    <3> DEFINE new == Completed(config[c], j)
    <3>1. DOMAIN new = Fields
      BY CompletedShape
    <3>2. /\ new.outbounds = config[c].outbounds \cup AllOutbounds(j)
          /\ new.forced = ForcedDomains(j)
          /\ new.dnsRules = config[c].dnsRules \cup ForceRules(j)
          /\ new.targets = config[c].targets /\ new.ruleSets = config[c].ruleSets
          /\ new.servers = config[c].servers
      BY DEF Completed, Fields
    <3> HIDE DEF new
    <3>3. config' = [config EXCEPT ![c] = new]
      BY <2>3 DEF new
    <3>4. config'[c] = new
      BY <3>3
    <3>5. Shape'
      BY <1>5, <3>1, <3>3 DEF Patch
    <3> QED BY <2>1, <2>3, <3>2, <3>4, <3>5 DEF Content
  <2>4. CASE pc'[c] # "built" /\ UNCHANGED config
    <3>1. Shape'
      BY <1>5, <2>4 DEF Patch
    <3> QED BY <2>1, <2>2, <2>4, <3>1 DEF Content
  <2> QED BY <2>2, <2>3, <2>4
<1>6. CASE Return(c)
  <2>1. pc'[c] = "idle" /\ config'[c] = Empty /\ UNCHANGED <<OutboundMainProxyTag, everOver>>
    BY <1>6 DEF Return
  <2>2. Shape' /\ JobShape'
    BY <1>6, EmptyShape DEF Return
  <2> QED BY <2>1, <2>2, EmptyContent
<1> QED BY <1>1, <1>2, <1>3, <1>4, <1>5, <1>6 DEF Step

LEMMA ContentInvariant == Spec => []ContentInv
<1>1. Init => ContentInv
  BY EmptyShape, EmptyContent DEF Init, ContentInv, Shape, JobShape, BuildSteps
<1>2. ContentInv /\ [Next]_vars => ContentInv'
  <2>1. ASSUME ContentInv, NEW c \in Caller, Step(c)
        PROVE  ContentInv'
    <3>1. \A d \in Caller \ {c} : pc'[d] = pc[d] /\ config'[d] = config[d] /\ job'[d] = job[d]
      BY <2>1, OneBuild DEF ContentInv
    <3> QED BY <2>1, <3>1, ContentStep DEF ContentInv
  <2>2. ContentInv /\ UNCHANGED vars => ContentInv'
    BY DEF ContentInv, Shape, JobShape, vars
  <2> QED BY <2>1, <2>2 DEF Next
<1> QED BY <1>1, <1>2, PTL DEF Spec

\* Every variable of the builds keeps its type.
THEOREM BuildTypes == Spec => []TypeOK
<1>1. ContentInv => TypeOK
  BY DEF ContentInv, Shape, TypeOK, BuildSteps, Empty, Fields
<1> QED BY <1>1, ContentInvariant, PTL

-----------------------------------------------------------------------------
(***************************************************************************)
(* What a finished build is, for every input and all options.              *)
(***************************************************************************)
\* The outbounds of a finished build: those of the client that are kept, WARP, the
\* two groups and the built-in ones.
LEMMA Finished ==
  ASSUME ContentInv, NEW c \in Caller, Built(c)
  PROVE  /\ config[c].outbounds = WarpEntries(job[c]) \cup AllOutbounds(job[c])
         /\ config[c].forced = ForcedDomains(job[c])
         /\ config[c].dnsRules = RoutedRules(job[c].opt) \cup ForceRules(job[c])
         /\ config[c].targets = Targets(job[c].opt)
         /\ config[c].ruleSets = RouteSets(job[c].opt)
         /\ config[c].servers = ServersOf(job[c].opt)
BY DEF ContentInv, Content, Built

TagsOf(outbounds) == {o.tag : o \in outbounds}

LEMMA TagsOfAll ==
  ASSUME NEW j
  PROVE  /\ OwnTags(j.input) \subseteq TagsOf(AllOutbounds(j))
         /\ Builtin \subseteq TagsOf(AllOutbounds(j))
         /\ {Select, URLTest} \subseteq TagsOf(AllOutbounds(j))
<1>1. \A o \in Kept(j.input) : Patched(o, j) \in AllOutbounds(j) /\ Patched(o, j).tag = o.tag
  BY DEF AllOutbounds, Patched, Entry
<1>2. \A t \in Builtin : Plain(t) \in AllOutbounds(j) /\ Plain(t).tag = t
  BY DEF AllOutbounds, Plain, Entry
<1>3. \A t \in {Select, URLTest} : \E o \in Groups(j.input) : o.tag = t
  BY DEF Groups, Entry
<1>4. Groups(j.input) \subseteq AllOutbounds(j)
  BY DEF AllOutbounds
<1> QED BY <1>1, <1>2, <1>3, <1>4 DEF TagsOf, OwnTags

LEMMA FinishedTags ==
  ASSUME ContentInv, NEW c \in Caller, Built(c)
  PROVE  OwnTags(job[c].input) \cup Builtin \cup {Select, URLTest} \subseteq Tags(c)
<1> DEFINE j == job[c]
<1>1. TagsOf(AllOutbounds(j)) \subseteq Tags(c)
  BY Finished DEF TagsOf, Tags
<1>2. /\ OwnTags(j.input) \subseteq TagsOf(AllOutbounds(j))
      /\ Builtin \subseteq TagsOf(AllOutbounds(j))
      /\ {Select, URLTest} \subseteq TagsOf(AllOutbounds(j))
  BY TagsOfAll
<1> QED BY <1>1, <1>2

\* What an outbound of a finished build can be.
LEMMA OutboundIs ==
  ASSUME NEW j, NEW o \in WarpEntries(j) \cup AllOutbounds(j)
  PROVE  \/ /\ o.tag = Warp /\ o.members = {} /\ Generated(j)
            /\ o.detour = WarpOutbound(j.opt).detour
         \/ \E p \in Kept(j.input) : o = Patched(p, j)
         \/ o.tag = Select /\ o.server = "" /\ o.detour = ""
              /\ o.members = ShownTags(j.input) \cup {URLTest, DefaultOf(j.input)}
         \/ o.tag = URLTest /\ o.server = "" /\ o.detour = "" /\ o.members = ShownTags(j.input)
         \/ o.tag \in Builtin /\ o.members = {} /\ o.server = "" /\ o.detour = ""
<1>1. CASE o \in WarpEntries(j)
  <2>1. Generated(j) /\ o = Entry(Warp, {}, Server(WarpOutbound(j.opt)), WarpOutbound(j.opt).detour)
    BY <1>1 DEF WarpEntries
  <2>2. o.tag = Warp /\ o.members = {} /\ o.detour = WarpOutbound(j.opt).detour
    BY <2>1 DEF Entry
  <2> QED BY <2>1, <2>2
<1>2. CASE o \in Groups(j.input)
  <2>1. CASE o = Entry(Select, ShownTags(j.input) \cup {URLTest, DefaultOf(j.input)}, "", "")
    <3>1. /\ o.tag = Select /\ o.server = "" /\ o.detour = ""
          /\ o.members = ShownTags(j.input) \cup {URLTest, DefaultOf(j.input)}
      BY <2>1 DEF Entry
    <3> QED BY <3>1
  <2>2. CASE o = Entry(URLTest, ShownTags(j.input), "", "")
    <3>1. o.tag = URLTest /\ o.server = "" /\ o.detour = "" /\ o.members = ShownTags(j.input)
      BY <2>2 DEF Entry
    <3> QED BY <3>1
  <2> QED BY <1>2, <2>1, <2>2 DEF Groups
<1>3. ASSUME NEW t \in Builtin, o = Plain(t)
      PROVE  o.tag \in Builtin /\ o.members = {} /\ o.server = "" /\ o.detour = ""
  BY <1>3 DEF Plain, Entry
<1> QED BY <1>1, <1>2, <1>3 DEF AllOutbounds

LEMMA ShownIsOwn == ASSUME NEW input PROVE ShownTags(input) \subseteq OwnTags(input)
BY DEF ShownTags, OwnTags

\* The groups of a finished build name its outbounds, whatever the build has dropped
\* of the client's configuration, but for the mark of a default.
THEOREM GroupsAreWhole == Spec => []GroupsResolve
<1>1. ContentInv => GroupsResolve
  <2> SUFFICES ASSUME ContentInv, NEW c \in Caller, Built(c),
                      NEW o \in config[c].outbounds, NEW t \in o.members
               PROVE  t \in Tags(c) \cup ({DefaultOf(job[c].input)} \ {URLTest})
    BY DEF GroupsResolve
  <2> DEFINE j == job[c]
  <2>1. o \in WarpEntries(j) \cup AllOutbounds(j)
    BY Finished
  <2>2. \A p \in Kept(j.input) : Patched(p, j).members = {}
    BY DEF Patched, Entry
  <2>3. t \in ShownTags(j.input) \cup {URLTest, DefaultOf(j.input)}
    BY <2>1, <2>2, OutboundIs
  <2>4. ShownTags(j.input) \cup {URLTest} \subseteq Tags(c)
    BY FinishedTags, ShownIsOwn
  <2> QED BY <2>3, <2>4
<1> QED BY <1>1, ContentInvariant, PTL

\* The rules of a finished build route to its outbounds, ask its DNS servers and
\* match its rule sets.  A rule of the client for an outbound that is no name the
\* switches know leads nowhere, and is the one exception.
THEOREM RulesAreWhole == Spec => []RulesResolve
<1>1. ContentInv => RulesResolve
  <2> DEFINE unknown(c) == \E r \in job[c].opt.rules : r.outbound \notin KnownRule
             nowhere(c) == IF unknown(c) THEN {Nowhere} ELSE {}
  <2> SUFFICES ASSUME ContentInv, NEW c \in Caller, Built(c)
               PROVE  /\ config[c].targets \subseteq Tags(c) \cup nowhere(c)
                      /\ \A r \in config[c].dnsRules :
                           /\ r.server \in config[c].servers \cup nowhere(c)
                           /\ r.conditions \cap (RegionSets \cup AdSets) \subseteq config[c].ruleSets
    BY DEF RulesResolve
  <2> DEFINE opt == job[c].opt
  <2>1. \A r \in opt.rules : /\ RouteTarget(r) \in Builtin \cup nowhere(c)
                             /\ DnsServer(r) \in ServersOf(opt) \cup nowhere(c)
    BY DEF RouteTarget, DnsServer, Builtin, ServersOf, KnownRule, Nowhere
  <2>2. Targets(opt) \subseteq Builtin \cup nowhere(c)
    BY <2>1 DEF Targets, Builtin
  <2>3. config[c].targets \subseteq Tags(c) \cup nowhere(c)
    BY <2>2, Finished, FinishedTags
  <2>4. ASSUME NEW r \in RoutedRules(opt) \cup ForceRules(job[c])
        PROVE  /\ r.server \in ServersOf(opt) \cup nowhere(c)
               /\ r.conditions \cap (RegionSets \cup AdSets) \subseteq RouteSets(opt)
    <3>1. CASE r \in DnsRules(opt)
      <4>1. r.server \in ServersOf(opt) \cup nowhere(c)
        <5>1. \/ \E q \in opt.rules : r.server = DnsServer(q)
              \/ opt.fakeDns /\ r.server = DnsFake
              \/ r.server \in {DnsRemote, DnsDirect}
          BY <3>1 DEF DnsRules, DnsRule
        <5> QED BY <5>1, <2>1 DEF ServersOf
      <4>2. r.conditions \cap (RegionSets \cup AdSets) \subseteq RouteSets(opt)
        BY <3>1 DEF DnsRules, DnsRule, MakeDNSRule, RouteSets, RegionSets, AdSets
      <4> QED BY <4>1, <4>2
    <3>2. CASE r \in ForceRules(job[c]) \/ (opt.fakeDns /\ r = DnsRule(DnsFake, {"inbound"}))
      BY <3>2 DEF ForceRules, DnsRule, ServersOf, RegionSets, AdSets
    <3> QED BY <3>1, <3>2 DEF RoutedRules
  <2> QED BY <2>3, <2>4, Finished
<1>2. QED BY <1>1, ContentInvariant, PTL

\* The servers of the client's outbounds, the random domain of WARP included, are
\* resolved without a proxy.
THEOREM ServersAreDirect == Spec => []ServersAreForced
<1>1. ContentInv => ServersAreForced
  <2> SUFFICES ASSUME ContentInv, NEW c \in Caller, Built(c), NEW o \in config[c].outbounds,
                      IsDomain(o.server), o.tag # Warp
               PROVE  o.server \in config[c].forced
    BY DEF ServersAreForced
  <2>1. o \in WarpEntries(job[c]) \cup AllOutbounds(job[c])
    BY Finished
  <2>2. PICK p \in Kept(job[c].input) : o = Patched(p, job[c])
    BY <2>1, OutboundIs DEF IsDomain
  <2>3. o.server = Server(p)
    BY <2>2 DEF Patched, Entry
  <2> QED BY <2>3, Finished DEF ForcedDomains
<1> QED BY <1>1, ContentInvariant, PTL

\* A DNS rule has a condition, unless the remote DNS server is a domain and no
\* outbound's server is.
THEOREM DnsRulesHaveConditions == Spec => []DnsRulesAreValid
<1>1. ContentInv => DnsRulesAreValid
  <2> SUFFICES ASSUME ContentInv, NEW c \in Caller, Built(c),
                      config[c].forced # {} \/ ~IsDomain(job[c].opt.remoteDns)
               PROVE  \A r \in config[c].dnsRules : r.conditions # {}
    BY DEF DnsRulesAreValid
  <2>1. \A r \in RoutedRules(job[c].opt) : r.conditions # {}
    BY DEF RoutedRules, Valid, DnsRule
  <2>2. \A r \in ForceRules(job[c]) : r.conditions # {}
    BY Finished DEF ForceRules, DnsRule
  <2> QED BY <2>1, <2>2, Finished
<1> QED BY <1>1, ContentInvariant, PTL

\* A build panics on nothing but a client id: in particular the map it passes as nil
\* is never written.
THEOREM PanicsNeedShortId == Spec => []PanicsOnShortId
<1>1. ContentInv => PanicsOnShortId
  BY DEF ContentInv, Content, ShortId, PanicsOnShortId
<1> QED BY <1>1, ContentInvariant, PTL

-----------------------------------------------------------------------------
(***************************************************************************)
(* The detours and groups of a finished build lead out of it.  With WARP   *)
(* behind the proxies the order is the selector, the URL test, the         *)
(* client's outbounds, WARP; with WARP in front of them WARP comes first.  *)
(***************************************************************************)
Used(j) == {o \in WarpEntries(j) \cup AllOutbounds(j) : o.detour # "" \/ o.members # {}}

\* What an outbound names: its members and its detour.
Beyond(o) == o.members \cup ({o.detour} \ {""})

\* WARP is what the client's outbounds without a detour go over.
Behind(j) == WarpEnabled(j) /\ j.opt.mode = "proxy_over_warp"

\* Where an outbound leads to.
LEMMA LeadsTo ==
  ASSUME NEW j, OwnDetours(j.input), NEW o \in Used(j), NEW u \in Beyond(o)
  PROVE  \/ /\ o.tag = Select /\ o.detour = ""
            /\ u \in OwnTags(j.input) \cup {URLTest, DefaultOf(j.input)}
         \/ o.tag = URLTest /\ o.detour = "" /\ u \in OwnTags(j.input)
         \/ /\ o.tag = Warp /\ Generated(j) /\ u = o.detour
            /\ u = IF j.opt.mode = "warp_over_proxy" THEN Select ELSE Direct
         \/ /\ o.tag \in OwnTags(j.input) /\ u = o.detour
            /\ <<o.tag, u>> \in OwnLinks(j.input) \/ (u = Warp /\ Behind(j))
<1>1. o \in WarpEntries(j) \cup AllOutbounds(j)
  BY DEF Used
<1>2. CASE o.tag \in Builtin /\ o.members = {} /\ o.server = "" /\ o.detour = ""
  BY <1>2 DEF Beyond
<1>3. CASE \E p \in Kept(j.input) : o = Patched(p, j)
  <2>1. PICK p \in Kept(j.input) : o = Patched(p, j)
    BY <1>3
  <2>2. o.tag = p.tag /\ o.members = {} /\ o.detour = WarpDetour(p, j)
    BY <2>1 DEF Patched, Entry
  <2>3. u = o.detour /\ u # ""
    BY <2>2 DEF Beyond
  <2>4. CASE p.detour # ""
    BY <2>2, <2>3, <2>4 DEF WarpDetour, OwnLinks, OwnTags
  <2>5. CASE p.detour = ""
    BY <2>2, <2>3, <2>5 DEF WarpDetour, OwnTags, Behind
  <2> QED BY <2>4, <2>5
<1>4. CASE o.tag = Warp /\ o.members = {} /\ Generated(j) /\ o.detour = WarpOutbound(j.opt).detour
  BY <1>4 DEF Beyond, WarpOutbound
<1>5. CASE \/ o.tag = Select /\ o.server = "" /\ o.detour = ""
                /\ o.members = ShownTags(j.input) \cup {URLTest, DefaultOf(j.input)}
           \/ o.tag = URLTest /\ o.server = "" /\ o.detour = "" /\ o.members = ShownTags(j.input)
  BY <1>5, ShownIsOwn DEF Beyond
<1> QED BY <1>1, <1>2, <1>3, <1>4, <1>5, OutboundIs

LEMMA UsedTags ==
  ASSUME NEW j, OwnDetours(j.input), NEW o \in Used(j)
  PROVE  o.tag \in OwnTags(j.input) \cup {Select, URLTest, Warp}
<1>1. \E u : u \in Beyond(o)
  BY DEF Used, Beyond
<1> QED BY <1>1, LeadsTo

\* WARP is generated wherever something leads to it.
LEMMA DetoursExist ==
  ASSUME NEW j, OwnDetours(j.input), NEW o \in Used(j)
  PROVE  o.detour \in TagsOf(WarpEntries(j) \cup AllOutbounds(j)) \cup {""}
<1> DEFINE all == TagsOf(WarpEntries(j) \cup AllOutbounds(j))
<1>1. OwnTags(j.input) \cup Builtin \cup {Select, URLTest} \subseteq all
  <2>1. /\ OwnTags(j.input) \subseteq TagsOf(AllOutbounds(j))
        /\ Builtin \subseteq TagsOf(AllOutbounds(j))
        /\ {Select, URLTest} \subseteq TagsOf(AllOutbounds(j))
    BY TagsOfAll
  <2>2. TagsOf(AllOutbounds(j)) \subseteq all
    BY DEF TagsOf
  <2> QED BY <2>1, <2>2
<1>2. SUFFICES ASSUME o.detour # "" PROVE o.detour \in all
  OBVIOUS
<1>3. o.detour \in Beyond(o)
  BY <1>2 DEF Beyond
<1>4. OwnLinks(j.input) \subseteq OwnTags(j.input) \X OwnTags(j.input)
  BY DEF OwnDetours
<1>5. CASE o.detour = Warp /\ Behind(j)
  <2>1. Entry(Warp, {}, Server(WarpOutbound(j.opt)), WarpOutbound(j.opt).detour) \in WarpEntries(j)
    BY <1>5 DEF Behind, Generated, WarpEntries
  <2> QED BY <1>5, <2>1 DEF TagsOf, Entry
<1>6. CASE <<o.tag, o.detour>> \in OwnLinks(j.input)
  BY <1>1, <1>4, <1>6
<1>7. CASE o.detour \in {Select, Direct}
  BY <1>1, <1>7 DEF Builtin
<1> QED BY <1>2, <1>3, <1>5, <1>6, <1>7, LeadsTo

LinksOf(used) == UNION {{<<o.tag, u>> : u \in Beyond(o)} : o \in used}

\* WARP leads to the selector or out, so that no set of outbounds is closed.
LEMMA BuildIsGrounded ==
  ASSUME NEW j, OwnDetours(j.input), Grounded(OwnTags(j.input), OwnLinks(j.input))
  PROVE  Grounded(TagsOf(Used(j)), LinksOf(Used(j)))
<1> DEFINE own == OwnTags(j.input)
<1>1. own \cap Reserved = {}
  BY DEF OwnDetours
<1>2. Select \notin own /\ URLTest \notin own /\ Warp \notin own /\ Direct \notin own
  BY <1>1 DEF Reserved, Builtin
<1>3. OwnLinks(j.input) \subseteq own \X own
  BY DEF OwnDetours
<1>4. ASSUME NEW t, NEW u, <<t, u>> \in LinksOf(Used(j))
      PROVE  \/ t = Select /\ u \in own \cup {URLTest, DefaultOf(j.input)}
             \/ t = URLTest /\ u \in own
             \/ /\ t = Warp /\ Generated(j)
                /\ u = IF j.opt.mode = "warp_over_proxy" THEN Select ELSE Direct
             \/ t \in own /\ (<<t, u>> \in OwnLinks(j.input) \/ (u = Warp /\ Behind(j)))
  <2>1. PICK o \in Used(j) : t = o.tag /\ u \in Beyond(o)
    BY <1>4 DEF LinksOf
  <2> QED BY <2>1, LeadsTo
<1>5. TagsOf(Used(j)) \subseteq own \cup {Select, URLTest, Warp}
  BY UsedTags DEF TagsOf
<1>6. DefaultOf(j.input) # Select
  BY DEF DefaultOf, Select, URLTest
<1>7. SUFFICES ASSUME NEW S \in SUBSET TagsOf(Used(j)), S # {}
               PROVE  \E t \in S : \A u \in S : <<t, u>> \notin LinksOf(Used(j))
  BY DEF Grounded
<1>8. Select # URLTest /\ Select # Warp /\ URLTest # Warp /\ Direct # Select /\ Direct # URLTest
        /\ Direct # Warp
  BY DEF Select, URLTest, Warp, Direct
<1>9. CASE Warp \in S /\ j.opt.mode # "warp_over_proxy"
  <2>1. Direct \notin S
    BY <1>2, <1>5, <1>8
  <2> QED BY <1>2, <1>4, <1>8, <1>9, <2>1
<1>10. CASE S \cap own # {} /\ (Warp \notin S \/ j.opt.mode = "warp_over_proxy")
  <2>1. PICK t \in S \cap own : \A u \in S \cap own : <<t, u>> \notin OwnLinks(j.input)
    BY <1>10 DEF Grounded
  <2>2. ASSUME NEW u \in S, <<t, u>> \in LinksOf(Used(j))
        PROVE  FALSE
    <3>1. <<t, u>> \in OwnLinks(j.input) \/ (u = Warp /\ Behind(j))
      BY <1>2, <1>4, <2>1, <2>2
    <3>2. ~ (u = Warp /\ Behind(j))
      BY <1>10 DEF Behind
    <3> QED BY <1>3, <2>1, <3>1, <3>2
  <2> QED BY <2>1, <2>2
<1>11. CASE S \cap own = {} /\ (Warp \notin S \/ j.opt.mode = "warp_over_proxy")
  <2>1. CASE URLTest \in S
    BY <1>2, <1>4, <1>8, <1>11, <2>1
  <2>2. CASE URLTest \notin S /\ Select \in S
    <3>1. \A u \in S : u \in {Select, Warp}
      BY <1>5, <1>11, <2>2
    <3>2. DefaultOf(j.input) # Warp
      BY DEF DefaultOf, URLTest, Warp
    <3> QED BY <1>2, <1>4, <1>6, <1>8, <1>11, <2>2, <3>1, <3>2
  <2>3. CASE URLTest \notin S /\ Select \notin S
    <3>1. S = {Warp}
      BY <1>5, <1>7, <1>11, <2>3
    <3> QED BY <1>2, <1>4, <1>8, <1>11, <3>1
  <2> QED BY <2>1, <2>2, <2>3
<1> QED BY <1>9, <1>10, <1>11

\* When the client's detours lead to its own outbounds and nowhere in circles, so do
\* those of the finished build, in every WARP mode.
THEOREM DetoursAreGrounded == Spec => []DetoursLeadOut
<1>1. ContentInv => DetoursLeadOut
  <2> SUFFICES ASSUME ContentInv, NEW c \in Caller, Built(c),
                      OwnDetours(job[c].input),
                      Grounded(OwnTags(job[c].input), OwnLinks(job[c].input))
               PROVE  LET used  == {o \in config[c].outbounds : o.detour # "" \/ o.members # {}}
                          links == UNION {{<<o.tag, u>> :
                                             u \in o.members \cup ({o.detour} \ {""})} : o \in used}
                      IN  /\ \A o \in used : o.detour \in Tags(c) \cup {""}
                          /\ Grounded({o.tag : o \in used}, links)
    BY DEF DetoursLeadOut
  <2> DEFINE used == {o \in config[c].outbounds : o.detour # "" \/ o.members # {}}
  <2>1. used = Used(job[c])
    BY Finished DEF Used
  <2>2. UNION {{<<o.tag, u>> : u \in o.members \cup ({o.detour} \ {""})} : o \in used}
          = LinksOf(Used(job[c]))
    BY <2>1 DEF LinksOf, Beyond
  <2>3. {o.tag : o \in used} = TagsOf(Used(job[c]))
    BY <2>1 DEF TagsOf
  <2>4. Tags(c) = TagsOf(WarpEntries(job[c]) \cup AllOutbounds(job[c]))
    BY Finished DEF Tags, TagsOf
  <2>5. \A o \in Used(job[c]) : o.detour \in Tags(c) \cup {""}
    BY <2>4, DetoursExist
  <2>6. Grounded(TagsOf(Used(job[c])), LinksOf(Used(job[c])))
    BY BuildIsGrounded
  <2> QED BY <2>1, <2>2, <2>3, <2>5, <2>6
<1> QED BY <1>1, ContentInvariant, PTL
=============================================================================
