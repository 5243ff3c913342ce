---------------------------- MODULE MCStandalone ----------------------------
(***************************************************************************)
(* Instances of Standalone for TLC.                                        *)
(***************************************************************************)
EXTENDS Standalone, TLC

CONSTANTS m, g1, g2, i1, i2, i3, s1, s2, s3

Goroutines == {m, g1, g2}
Servers    == {s1, s2, s3}

\* A third instance lets an update leave one behind.
ThreeInstances == {i1, i2, i3}

Entries  == {"StartService", "Stop"}
Raw      == {StartRequest}

\* One content names an interval of hours and gives its secret, the other does
\* neither.
Results   == {[config |-> "old", timed |-> TRUE], [config |-> "drawn", timed |-> FALSE]}
DrawnOnes == {"drawn"}
=============================================================================
