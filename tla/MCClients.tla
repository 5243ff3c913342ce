----------------------------- MODULE MCClients -----------------------------
(***************************************************************************)
(* An instance of Streams and one of Mobile, side by side: the two never   *)
(* meet in one process, and share nothing here.                            *)
(***************************************************************************)
EXTENDS Streams, Mobile

CONSTANTS c1, l1, g1, b1, b2, d1, d2

AllStreams == {c1, l1, g1}
Kinds == [s \in AllStreams |->
            IF s = c1 THEN "CoreInfoListener" ELSE IF s = l1 THEN "LogListener" ELSE "GetSystemInfo"]
Boxes   == {b1, b2}
Servers == {d1, d2}

ClientsInit == StreamsInit /\ MobileInit
ClientsNext ==
  \/ StreamsNext /\ UNCHANGED mobileVars
  \/ MobileNext /\ UNCHANGED streamVars

ClientsSpec ==
  ClientsInit /\ [][ClientsNext]_<<streamVars, mobileVars>> /\ StreamsFairness
=============================================================================
