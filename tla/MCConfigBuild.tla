--------------------------- MODULE MCConfigBuild ---------------------------
(***************************************************************************)
(* Small instances of ConfigBuild for TLC: inputs with at most one         *)
(* outbound per tag, each of the kinds that builds treat differently.      *)
(***************************************************************************)
EXTENDS ConfigBuild, TLC

CONSTANTS c1, c2

OneCaller  == {c1}
TwoCallers == {c1, c2}

CallerSymmetry == Permutations(Caller)

Out(tag, kind, host, detour, key, mark) ==
  [tag |-> tag, kind |-> kind, host |-> host, detour |-> detour, key |-> key, mark |-> mark]

\* A proxy with any mark, behind another or not; what another tag may be; a
\* custom outbound; a group.
Proxies    == {Out("a", "proxy", "d1", "", "", ""), Out("a", "proxy", "ip", "b", "", ""),
               Out("a", "proxy", "d1", "g", "", "hide"), Out("a", "proxy", "ip", "", "", "default")}
WireGuards == {Out("b", "wireguard", h, d, k, "") :
                 h \in {"auto", "d2"}, d \in {"", "w"}, k \in {"", "p1"}}
                \cup {Out("b", "proxy", "d2", Select, "", "")}
Customs    == {Out("w", "custom", "auto", d, k, "") : d \in {"", "a"}, k \in {"p1", "p2", "new"}}
                \cup {Out("w", "custom", "ip", "", "", "")}
SomeGroups == {Out("g", "group", "", "", "", "")}

AtMostOne(S) == {{}} \cup {{o} : o \in S}

ManyInputs == {p \cup w \cup u \cup g : p \in AtMostOne(Proxies), w \in AtMostOne(WireGuards),
                                     u \in AtMostOne(Customs), g \in AtMostOne(SomeGroups)}
FewInputs  == {p \cup w : p \in AtMostOne({Out("a", "proxy", "ip", "", "", "")}),
                         w \in AtMostOne({Out("b", "wireguard", "auto", "", "p1", "")})}

Rule(outbound, conditions) == [outbound |-> outbound, conditions |-> conditions]

Base == [enableWarp |-> FALSE, mode |-> "proxy_over_warp", cleanIP |-> "auto",
         wireguard  |-> [clientId |-> "three", addresses |-> TRUE],
         wireguard2 |-> [clientId |-> "three", addresses |-> TRUE],
         rules |-> {Rule("proxy", {"domains"})}, fakeDns |-> FALSE, dnsRouting |-> FALSE,
         blockAds |-> FALSE, bypass |-> TRUE, region |-> FALSE, remoteDns |-> "ip"]

WireGuardConfigs == [clientId : {"short", "two"}, addresses : BOOLEAN]

\* What decides the outbounds, and what decides the rules.
WarpOptions ==
  {[Base EXCEPT !.enableWarp = e, !.mode = m] :
     e \in BOOLEAN, m \in {"warp_over_proxy", "proxy_over_warp", "other"}}
WarpFailures ==
  {[Base EXCEPT !.enableWarp = TRUE, !.wireguard = g, !.wireguard2 = h] :
     g \in WireGuardConfigs, h \in WireGuardConfigs}
OutboundOptions == WarpOptions \cup WarpFailures \cup {[Base EXCEPT !.remoteDns = "d3"]}
RuleOptions ==
  {[Base EXCEPT !.rules = r, !.fakeDns = f, !.dnsRouting = d, !.blockAds = b,
                !.region = g, !.remoteDns = a] :
     r \in SUBSET {Rule("proxy", {"domains"}), Rule("proxy", {"ip"}),
                   Rule("block", {}), Rule("bypass", {"ip", "domains"}),
                   Rule("unknown", {"domains"})},
     f \in BOOLEAN, d \in BOOLEAN, b \in BOOLEAN, g \in BOOLEAN, a \in {"ip", "d3"}}
JobsOf(inputs, options) == [input : inputs, opt : options]

\* Every input with the options that decide the outbounds, a few with those
\* that decide the rules, and a few that may be in progress together: in every
\* WARP mode, which is all that decides what builds share.
WarpJobs == JobsOf(FewInputs, WarpOptions)
AllJobs  == JobsOf(ManyInputs, OutboundOptions) \cup JobsOf(FewInputs, RuleOptions)
              \cup WarpJobs
=============================================================================
