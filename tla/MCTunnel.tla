------------------------------ MODULE MCTunnel ------------------------------
(***************************************************************************)
(* Small instances of Tunnel for TLC.                                      *)
(***************************************************************************)
EXTENDS Tunnel, TLC

CONSTANTS j1, j2

TwoJobs == {j1, j2}

\* Nothing fails, and everything may be called while two things are in flight.
BusyWorld == [maxPending |-> 2, failing |-> {}, crashing |-> FALSE, timeouts |-> FALSE]

\* Only the tunnel may fail, and what the user calls finds nothing in flight.
FailingWorld == [BusyWorld EXCEPT !.maxPending = 0, !.failing = {"tunnel"}]

\* Every start may fail and the privileged process dies.
CrashingWorld == [BusyWorld EXCEPT !.maxPending = 1, !.failing = {"core", "tunnel"},
                                   !.crashing = TRUE]

\* The tunnel may fail, and requests are answered late.
LateWorld == [FailingWorld EXCEPT !.timeouts = TRUE]

AllWorlds     == {BusyWorld, CrashingWorld, LateWorld}
FailingWorlds == {FailingWorld}
=============================================================================
