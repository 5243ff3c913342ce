---------------------------- MODULE MobileProofs ----------------------------
(***************************************************************************)
(* The theorem about the mobile library: for any number of services and of *)
(* command servers, and any sequence of calls of the app.                  *)
(***************************************************************************)
EXTENDS Mobile, TLAPS

MobileTypeOK ==
  /\ commandServer \in CommandServer \cup {None}
  /\ commandClient \in BOOLEAN
  /\ peer \in CommandServer \cup {None}
  /\ servers \in [CommandServer -> {"off", "listening", "faulty"}]
  /\ service \in [CommandServer -> BoxService \cup {None}]

\* MobileServes needs that nothing is left where an epoch begins.
MobileInv ==
  /\ MobileTypeOK
  /\ epoch = "fresh" => commandServer = None
  /\ MobileServes

LEMMA StartKeeps ==
  ASSUME MobileInv, NEW box \in BoxService, NEW connect \in BOOLEAN, Start(box, connect)
  PROVE  MobileInv'
<1> USE NoneAssumption
    DEF MobileInv, MobileTypeOK, MobileServes, Start, Connects, NoServerStarts
<1>1. CASE commandServer # None
  BY <1>1 DEF StartCommandServer
<1>2. CASE commandServer = None
  <2>1. PICK s \in Fresh :
          /\ commandServer' = s
          /\ service' = [service EXCEPT ![s] = box]
          /\ \E outcome \in {"listening", "off"} :
               servers' = [servers EXCEPT ![s] = outcome]
    BY <1>2 DEF StartCommandServer
  <2>2. s \in CommandServer /\ peer = None
    BY <1>2 DEF Fresh
  <2>3. /\ \A d \in CommandServer \ {s} : servers'[d] # "listening"
        /\ service'[s] = box
    BY <1>2, <2>1, <2>2
  <2>4. MobileTypeOK'
    BY <2>1, <2>2
  <2>5. /\ epoch' \in {"good", "stale"}
        /\ epoch' = "good" => servers'[s] = "listening"
    BY <1>2, <2>1
  <2>6. peer' # None => peer' = s /\ servers'[s] = "listening"
    BY <2>1, <2>2
  <2> QED BY <2>1, <2>2, <2>3, <2>4, <2>5, <2>6
<1> QED BY <1>1, <1>2

LEMMA ConnectKeeps ==
  ASSUME MobileInv, StartCommandClient
  PROVE  MobileInv'
BY DEF MobileInv, MobileTypeOK, MobileServes, StartCommandClient, Connects

LEMMA StopKeeps ==
  ASSUME MobileInv, Stop
  PROVE  MobileInv'
<1> USE NoneAssumption DEF MobileInv, MobileTypeOK, MobileServes, Stop, CloseCommandServer
<1>1. \A s \in CommandServer : servers'[s] # "listening"
  OBVIOUS
<1>2. MobileTypeOK'
  OBVIOUS
<1> QED BY <1>1, <1>2

\* The first Start after a Stop serves the service it is given, if its command
\* server starts; a client is connected to the command server of the library or to
\* none; and no other server listens.
THEOREM MobileIsServed == MobileSpec => []MobileServes
<1>1. MobileInit => MobileInv
  BY NoneAssumption DEF MobileInit, MobileInv, MobileTypeOK, MobileServes
<1>2. MobileInv /\ [MobileNext]_mobileVars => MobileInv'
  <2>1. MobileInv /\ UNCHANGED mobileVars => MobileInv'
    BY DEF MobileInv, MobileTypeOK, MobileServes, mobileVars
  <2> QED BY <2>1, StartKeeps, ConnectKeeps, StopKeeps DEF MobileNext
<1>3. MobileInv => MobileServes
  BY DEF MobileInv
<1> QED BY <1>1, <1>2, <1>3, PTL DEF MobileSpec
=============================================================================
