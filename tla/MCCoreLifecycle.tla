-------------------------- MODULE MCCoreLifecycle --------------------------
(***************************************************************************)
(* Instances of CoreLifecycle for TLC.  The entry points of each run and   *)
(* the symmetry of the slots.                                              *)
(***************************************************************************)
EXTENDS CoreLifecycle, TLC

CONSTANTS c1, c2, i1, i2, i3, s1, s2, s3

\* Everything a client can call that keeps StartService for Start and Restart,
\* the reload of the command server included.
ReloadEntries == {"Start", "Stop", "Restart", "Parse", "GenerateConfig",
                  "ChangeConfigOptions", "Reload"}

\* Two calls at a time: entry points that touch Box and the command server,
\* guarded and unguarded ones.
RacingEntries == {"Start", "StartService", "Stop"}

\* A raw request that wants the command server.
RawWithServer == {[cmd |-> TRUE, raw |-> TRUE, config |-> "content"]}

OneCaller  == {c1}
TwoCallers == {c1, c2}

TwoInstances == {i1, i2}
ThreeInstances == {i1, i2, i3}
TwoServers == {s1, s2}
ThreeServers == {s1, s2, s3}

\* Callers, instances and servers are told apart only by what refers to them.
SlotSymmetry == Permutations(Caller) \cup Permutations(Instance)
                  \cup Permutations(Server)
=============================================================================
