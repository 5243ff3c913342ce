---------------------------- MODULE ConfigBuild ----------------------------
(***************************************************************************)
(* config.BuildConfig: from the outbounds of a client's configuration and  *)
(* the options of the core to the configuration sing-box runs              *)
(* (config/config.go, warp.go, outbound.go, rules.go).                     *)
(*                                                                         *)
(* Builds run in the goroutines of the calls that need one (Start,         *)
(* GenerateConfig, the command line, the hourly update of the standalone   *)
(* mode).  A build works on copies of the options and the input, with one  *)
(* exception: the package variable OutboundMainProxyTag, which the routing *)
(* reads before the outbounds of the same build set it.                    *)
(*                                                                         *)
(* A configuration is what refers to what: the tags of its outbounds, the  *)
(* tags rules, groups and detours name, the DNS servers and rule sets that *)
(* rules use.  Addresses are "ip", "auto" (chosen by the build, a blocked  *)
(* host included) or a domain's name.                                      *)
(***************************************************************************)
EXTENDS FiniteSets

CONSTANTS
  Caller,   \* the goroutines that build
  Jobs,     \* what they may build from: the outbounds of a client's
            \*   configuration (input) and the options (opt)
  Together  \* the jobs that may be in progress beside another (a bound)

ASSUME TogetherAssumption == Together \subseteq Jobs

VARIABLES
  OutboundMainProxyTag,  \* the package variable
  pc,                    \* Caller -> the next step of its build
  job,                   \* Caller -> the input and the options of its build
  config,                \* Caller -> the configuration it builds
  everOver               \* history: some build has set the tag to Warp's

vars == <<OutboundMainProxyTag, pc, job, config, everOver>>

Select == "select"
URLTest == "auto"
Warp   == "Hiddify Warp"
Direct == "direct"
Bypass == "bypass"
Block  == "block"
Dns    == "dns-out"
Fragment == "direct-fragment"

Builtin  == {Dns, Direct, Fragment, Bypass, Block}
Reserved == Builtin \cup {Select, URLTest, Warp}
RandomDomain == "random"

DnsRemote == "dns-remote"
DnsDirect == "dns-direct"
DnsLocal  == "dns-local"
DnsBlock  == "dns-block"
DnsFake   == "dns-fake"
DnsTricks == "dns-trick-direct"

\* An outbound of a configuration that is being built.
Entry(tag, members, server, detour) ==
  [tag |-> tag, members |-> members, server |-> server, detour |-> detour]
Plain(tag) == Entry(tag, {}, "", "")

Empty == [final |-> Select, targets |-> {}, ruleSets |-> {}, servers |-> {},
          dnsRules |-> {}, forced |-> {}, outbounds |-> {}]

NoJob == [input |-> {}, opt |-> [mode |-> "none"]]

TypeOK ==
  /\ OutboundMainProxyTag \in {Select, Warp}
  /\ pc \in [Caller -> {"idle", "route", "reset", "warp", "patch", "built",
                        "failed", "panicked"}]
  /\ \A c \in Caller :
       /\ pc[c] # "idle" => job[c] \in Jobs
       /\ DOMAIN config[c] = DOMAIN Empty
  /\ everOver \in BOOLEAN

Init ==
  /\ OutboundMainProxyTag = Select
  /\ pc = [c \in Caller |-> "idle"]
  /\ job = [c \in Caller |-> NoJob]
  /\ config = [c \in Caller |-> Empty]
  /\ everOver = FALSE

Goto(c, step) == pc' = [pc EXCEPT ![c] = step]

IsDomain(server) == server \notin {"", "ip", "auto"}

RegionSets == {"geoip-region", "geosite-region"}
AdSets     == {"geosite-ads", "geosite-malware", "geosite-phishing",
               "geosite-cryptominers", "geoip-malware", "geoip-phishing"}

-----------------------------------------------------------------------------
(***************************************************************************)
(* Mutants: wrong forms of the definitions below, each the way a slip in   *)
(* the code would change them.  Nothing uses them but the checks that the  *)
(* properties notice such slips.                                           *)
(***************************************************************************)

\* A rule is taken without a look at its conditions; the region's rule sets
\* are named and not declared.
MutantValid(rule)    == TRUE
MutantRouteSets(opt) == IF opt.blockAds THEN AdSets ELSE {}

\* Groups name what the configuration drops; the options' WARP is used beside
\* the client's own; servers are collected before they are patched.
MutantShownTags(input) == {o.tag : o \in input}
MutantWarpDetour(o, j) ==
  IF j.opt.enableWarp /\ j.opt.mode = "proxy_over_warp" /\ o.detour = "" THEN Warp ELSE o.detour
MutantForcedDomains(j) == {o \in {o.host : o \in j.input} : IsDomain(o)}

\* WARP under the proxies needs no detour; it is the main outbound in any mode.
MutantWarpOutbound(opt) ==
  [tag |-> Warp, kind |-> "wireguard", host |-> opt.cleanIP,
   detour |-> IF opt.mode = "warp_over_proxy" THEN Select ELSE ""]
MutantMainTag(j) == IF j.opt.enableWarp THEN Warp ELSE Select

\* The main outbound is the URL test.
MutantReset(c) ==
  /\ pc[c] = "reset"
  /\ OutboundMainProxyTag' = URLTest
  /\ Goto(c, "warp")
  /\ UNCHANGED <<job, config, everOver>>

-----------------------------------------------------------------------------
(***************************************************************************)
(* Rules.  A client's rule has an outbound, which nobody checks, and        *)
(* conditions, of which "domains" are the only ones a DNS rule knows.  For *)
(* an outbound that is none of the three that are known, a rule is made    *)
(* that leads nowhere.                                                     *)
(***************************************************************************)
Nowhere   == ""
KnownRule == {"bypass", "block", "proxy"}

RouteTarget(rule) ==
  IF rule.outbound = "bypass" THEN Bypass
  ELSE IF rule.outbound = "block" THEN Block
  ELSE IF rule.outbound = "proxy" THEN Dns ELSE Nowhere

DnsServer(rule) ==
  IF rule.outbound = "bypass" THEN DnsDirect
  ELSE IF rule.outbound = "block" THEN DnsBlock
  ELSE IF rule.outbound = "proxy" THEN DnsRemote ELSE Nowhere

MakeRule(rule)    == rule.conditions
MakeDNSRule(rule) == rule.conditions \cap {"domains"}

DnsRule(server, conditions) == [server |-> server, conditions |-> conditions]

\* What setRoutingOptions collects: a rule of the client, its twin for fake
\* addresses, the address of the connection test, and those of the region.
DnsRules(opt) ==
  {DnsRule(DnsServer(r), MakeDNSRule(r)) : r \in opt.rules}
    \cup {DnsRule(DnsFake, MakeDNSRule(r) \cup {"inbound"}) :
            r \in {r \in opt.rules : opt.fakeDns /\ r.outbound = "proxy"}}
    \cup {DnsRule(DnsRemote, {"domains"})}
    \cup IF opt.region THEN {DnsRule(DnsDirect, {"domains"}), DnsRule(DnsDirect, RegionSets)}
                       ELSE {}

Valid(rule) == rule.conditions # {}

RouteSets(opt) == (IF opt.blockAds THEN AdSets ELSE {}) \cup
                  (IF opt.region THEN RegionSets ELSE {})

Targets(opt) ==
  {Dns} \cup (IF opt.bypass THEN {Bypass} ELSE {})
        \cup {RouteTarget(r) : r \in {r \in opt.rules : MakeRule(r) # {}}}
        \cup (IF opt.blockAds THEN {Block} ELSE {})
        \cup (IF opt.region THEN {Direct} ELSE {})

-----------------------------------------------------------------------------
(***************************************************************************)
(* Outbounds.                                                              *)
(***************************************************************************)

\* The client's own configuration has a WARP outbound: the one of the options
\* is then not used.
HasOwnWarp(input) ==
  \E o \in input : o.key = "p1" /\ o.kind \in {"custom", "wireguard"}

WarpEnabled(j) == j.opt.enableWarp /\ ~HasOwnWarp(j.input)

Generated(j) == WarpEnabled(j) /\ j.opt.mode \in {"warp_over_proxy", "proxy_over_warp"}

\* GenerateWarpSingbox: what comes of a WireGuard configuration.  A client id
\* of two bytes is indexed out of its range.
GenerateOutcome(wireguard) ==
  IF wireguard.clientId = "two" THEN "panic"
  ELSE IF ~wireguard.addresses THEN "error" ELSE "ok"

\* patchWarp turns a custom WARP outbound into a WireGuard one.
Unwrapped(o) ==
  IF o.kind = "custom" /\ o.key # "" THEN [o EXCEPT !.kind = "wireguard"] ELSE o

NeedsAddress(o) == o.kind = "wireguard" /\ o.host = "auto"

\* An address chosen by the build is a fixed IP behind a detour and otherwise
\* a random domain with static IPs.
NeedsStaticIP(o) == NeedsAddress(o) /\ o.detour = ""

Server(o) ==
  IF ~NeedsAddress(o) THEN o.host ELSE IF o.detour = "" THEN RandomDomain ELSE "ip"

\* The custom WARP outbounds of the input, by what their patch may come to:
\* "p1" and "p2" use the options' two configurations, another key registers a
\* new device over the network.
PatchOutcomes(o, opt) ==
  IF o.kind # "custom" THEN {"ok"}
  ELSE IF o.key = "p1" THEN {GenerateOutcome(opt.wireguard)}
  ELSE IF o.key = "p2" THEN {GenerateOutcome(opt.wireguard2)}
  ELSE IF o.key = "new" THEN {"ok", "error", "panic"} ELSE {"ok"}

\* The outbounds of the input the configuration keeps.
Kept(input) == {o \in {Unwrapped(o) : o \in input} : o.kind \in {"proxy", "wireguard"}}

\* patchHiddifyWarpFromConfig: an outbound without a detour goes over WARP.
WarpDetour(o, j) ==
  IF WarpEnabled(j) /\ j.opt.mode = "proxy_over_warp" /\ o.detour = "" THEN Warp ELSE o.detour

Patched(o, j) == Entry(o.tag, {}, Server(o), WarpDetour(o, j))

ShownTags(input) == {o.tag : o \in {o \in Kept(input) : o.mark # "hide"}}

\* The default of the selector when a shown tag contains the mark is the mark,
\* not that tag.
DefaultOf(input) ==
  IF \E o \in Kept(input) : o.mark = "default" THEN "§default§" ELSE URLTest

Groups(input) ==
  {Entry(Select, ShownTags(input) \cup {URLTest, DefaultOf(input)}, "", ""),
   Entry(URLTest, ShownTags(input), "", "")}

\* The outbound made from the options' WARP configuration, as patchWarp gets it.
WarpOutbound(opt) ==
  [tag |-> Warp, kind |-> "wireguard", host |-> opt.cleanIP,
   detour |-> IF opt.mode = "warp_over_proxy" THEN Select ELSE Direct]

\* OutboundMainProxyTag once the outbounds are set.
MainTag(j) == IF Generated(j) /\ j.opt.mode = "warp_over_proxy" THEN Warp ELSE Select

\* addForceDirect: the servers of the outbounds, and the remote DNS server,
\* are resolved directly.  The latter is given without a kind of match and is
\* not in the rule.
ForcedDomains(j) == {o \in {Server(o) : o \in Kept(j.input)} : IsDomain(o)}

ForceRules(j) ==
  IF ForcedDomains(j) # {} THEN {DnsRule(DnsDirect, {"domains"})}
  ELSE IF IsDomain(j.opt.remoteDns) THEN {DnsRule(DnsDirect, {})} ELSE {}

-----------------------------------------------------------------------------
(***************************************************************************)
(* A build.                                                                *)
(***************************************************************************)
BuildConfig(c) ==
  /\ pc[c] = "idle"
  /\ \A d \in Caller : pc[d] # "idle" => job[d] \in Together
  /\ \E j \in IF \E d \in Caller : pc[d] # "idle" THEN Together ELSE Jobs :
       job' = [job EXCEPT ![c] = j]
  /\ config' = [config EXCEPT ![c] = Empty]
  /\ Goto(c, "route")
  /\ UNCHANGED <<OutboundMainProxyTag, everOver>>

\* setDns, setRoutingOptions and setFakeDns.
Route(c) ==
  LET opt == job[c].opt
      old == config[c]
  IN  /\ pc[c] = "route"
      /\ config' = [config EXCEPT ![c] =
           [old EXCEPT
              !.final    = OutboundMainProxyTag,
              !.targets  = Targets(opt),
              !.ruleSets = RouteSets(opt),
              !.servers  = {DnsRemote, DnsTricks, DnsDirect, DnsLocal, DnsBlock}
                             \cup IF opt.fakeDns THEN {DnsFake} ELSE {},
              !.dnsRules = (IF opt.dnsRouting THEN {r \in DnsRules(opt) : Valid(r)} ELSE {})
                             \cup IF opt.fakeDns THEN {DnsRule(DnsFake, {"inbound"})} ELSE {}]]
      /\ Goto(c, "reset")
      /\ UNCHANGED <<OutboundMainProxyTag, job, everOver>>

\* setOutbounds begins.
Reset(c) ==
  /\ pc[c] = "reset"
  /\ OutboundMainProxyTag' = Select
  /\ Goto(c, "warp")
  /\ UNCHANGED <<job, config, everOver>>

\* The WARP outbound of the options.  patchWarp gets no map for static IPs
\* here and would write to it.
AddWarp(c) ==
  LET j   == job[c]
      out == WarpOutbound(j.opt)
  IN  /\ pc[c] = "warp"
      /\ \/ /\ ~Generated(j)
            /\ Goto(c, "patch")
            /\ UNCHANGED <<OutboundMainProxyTag, config, everOver>>
         \/ /\ Generated(j)
            /\ GenerateOutcome(j.opt.wireguard) = "ok"
            /\ \/ MainTag(j) = Select /\ UNCHANGED OutboundMainProxyTag
               \/ MainTag(j) = Warp /\ OutboundMainProxyTag' = Warp
            /\ everOver' = (everOver \/ j.opt.mode = "warp_over_proxy")
            /\ IF NeedsStaticIP(out)
               THEN Goto(c, "panicked") /\ UNCHANGED config
               ELSE /\ Goto(c, "patch")
                    /\ config' = [config EXCEPT ![c].outbounds =
                         config[c].outbounds \cup {Entry(Warp, {}, Server(out), out.detour)}]
         \/ /\ Generated(j)
            /\ GenerateOutcome(j.opt.wireguard) # "ok"
            /\ Goto(c, IF GenerateOutcome(j.opt.wireguard) = "panic" THEN "panicked" ELSE "failed")
            /\ UNCHANGED <<OutboundMainProxyTag, config, everOver>>
      /\ UNCHANGED job

\* The outbounds of the input, the groups and the built-in ones.
AllOutbounds(j) ==
  {Patched(o, j) : o \in Kept(j.input)} \cup Groups(j.input) \cup {Plain(t) : t \in Builtin}

Completed(cfg, j) ==
  [cfg EXCEPT !.outbounds = cfg.outbounds \cup AllOutbounds(j),
              !.forced    = ForcedDomains(j),
              !.dnsRules  = cfg.dnsRules \cup ForceRules(j)]

Patch(c) ==
  LET j == job[c]
  IN  /\ pc[c] = "patch"
      /\ \/ /\ \A o \in j.input : "ok" \in PatchOutcomes(o, j.opt)
            /\ config' = [config EXCEPT ![c] = Completed(config[c], j)]
            /\ Goto(c, "built")
         \/ /\ \E o \in j.input : "error" \in PatchOutcomes(o, j.opt)
            /\ Goto(c, "failed")
            /\ UNCHANGED config
         \/ /\ \E o \in j.input : "panic" \in PatchOutcomes(o, j.opt)
            /\ Goto(c, "panicked")
            /\ UNCHANGED config
      /\ UNCHANGED <<OutboundMainProxyTag, job, everOver>>

\* The caller takes the result.
Return(c) ==
  /\ pc[c] \in {"built", "failed", "panicked"}
  /\ Goto(c, "idle")
  /\ job' = [job EXCEPT ![c] = NoJob]
  /\ config' = [config EXCEPT ![c] = Empty]
  /\ UNCHANGED <<OutboundMainProxyTag, everOver>>

Step(c) == BuildConfig(c) \/ Route(c) \/ Reset(c) \/ AddWarp(c) \/ Patch(c) \/ Return(c)

Next == \E c \in Caller : Step(c)

Spec == Init /\ [][Next]_vars

-----------------------------------------------------------------------------
\* ------ What a finished build is.
Built(c) == pc[c] = "built"
Tags(c)  == {o.tag : o \in config[c].outbounds}

\* The groups name outbounds of the configuration only, whatever the build has
\* dropped of the input, and so does the default unless a shown tag is marked
\* as the default: then it is the mark (config.go:168-223).
GroupsResolve ==
  \A c \in Caller : Built(c) =>
    UNION {o.members : o \in config[c].outbounds}
      \subseteq Tags(c) \cup ({DefaultOf(job[c].input)} \ {URLTest})

\* What the rules route to, the DNS servers they ask and the rule sets they
\* match are defined in the same configuration, as long as every rule of the
\* client has one of the three outbounds the code knows: from any other it makes
\* a rule without a target, and a DNS rule without a server (config.go:388-727,
\* rules.go:17).
RulesResolve ==
  \A c \in Caller : Built(c) =>
    LET unknown == \E r \in job[c].opt.rules : r.outbound \notin KnownRule
        nowhere == IF unknown THEN {Nowhere} ELSE {}
    IN
    /\ config[c].targets \subseteq Tags(c) \cup nowhere
    /\ \A r \in config[c].dnsRules :
         /\ r.server \in config[c].servers \cup nowhere
         /\ r.conditions \cap (RegionSets \cup AdSets) \subseteq config[c].ruleSets

\* The detours of the client's configuration, among the outbounds it keeps.
OwnTags(input)  == {o.tag : o \in Kept(input)}
OwnLinks(input) == {<<o.tag, o.detour>> : o \in {o \in Kept(input) : o.detour # ""}}
OwnDetours(input) ==
  /\ OwnTags(input) \cap Reserved = {}
  /\ OwnLinks(input) \subseteq OwnTags(input) \X OwnTags(input)

\* Every set of nodes has one that leads out of it: there is no cycle.
Grounded(nodes, links) ==
  \A S \in SUBSET nodes : S # {} => \E t \in S : \A u \in S : <<t, u>> \notin links

\* When the client's detours lead to its own outbounds and nowhere in circles,
\* so does what the build makes of them, WARP in front of or behind them
\* included (config.go:152-190, 729-778).
DetoursLeadOut ==
  \A c \in Caller :
    LET used  == {o \in config[c].outbounds : o.detour # "" \/ o.members # {}}
        links == UNION {{<<o.tag, u>> : u \in o.members \cup ({o.detour} \ {""})} : o \in used}
        input == job[c].input
    IN  Built(c) /\ OwnDetours(input) /\ Grounded(OwnTags(input), OwnLinks(input)) =>
          /\ \A o \in used : o.detour \in Tags(c) \cup {""}
          /\ Grounded({o.tag : o \in used}, links)

\* The servers of the client's outbounds are resolved by the direct DNS
\* server, the domains the build invents for WARP included: resolving them
\* never needs a proxy (config.go:168-177, 83-124).
ServersAreForced ==
  \A c \in Caller : Built(c) =>
    \A o \in config[c].outbounds :
      IsDomain(o.server) /\ o.tag # Warp => o.server \in config[c].forced

\* A DNS rule of a configuration has a condition, unless the remote DNS server
\* is a domain and no outbound's server is (config.go:83-124, 713-725).
DnsRulesAreValid ==
  \A c \in Caller : Built(c) =>
    \/ \A r \in config[c].dnsRules : r.conditions # {}
    \/ config[c].forced = {} /\ IsDomain(job[c].opt.remoteDns)

\* A build panics only on a client id of two bytes, in the options or in what
\* registering a device returned: the map it passes as nil is never written
\* (warp.go:32-48, 186-205, config.go:152-164).
PanicsOnShortId ==
  \A c \in Caller : pc[c] = "panicked" =>
    \/ job[c].opt.wireguard.clientId = "two" \/ job[c].opt.wireguard2.clientId = "two"
    \/ \E o \in job[c].input : o.key = "new"

\* The final outbound is one of the configuration as long as no build has ever
\* put WARP over the proxies: a build reads what the one before, or one beside
\* it, left in the package variable (config.go:702, 132, 160).
FinalResolves ==
  \A c \in Caller : Built(c) => config[c].final \in Tags(c) \/ everOver

\* "inbound==warp over proxies" (config.go:133): in that mode, what comes in
\* goes to WARP.
OverEntersWarp ==
  \A c \in Caller :
    Built(c) /\ Generated(job[c]) /\ job[c].opt.mode = "warp_over_proxy" =>
      config[c].final = Warp
=============================================================================
