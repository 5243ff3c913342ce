------------------------------- MODULE Mobile -------------------------------
(***************************************************************************)
(* The mobile library (mobile/mobile.go).  The app runs the service itself *)
(* and gives it to the library, which keeps a command server for it and a  *)
(* command client.  The app calls from one thread: a call is one step.     *)
(***************************************************************************)
CONSTANTS
  BoxService,     \* the services of the app
  CommandServer,  \* the command servers NewCommandServer can return (a bound)
  None            \* the nil pointer

ASSUME NoneAssumption == None \notin BoxService \cup CommandServer

VARIABLES
  commandServer,   \* commandServer
  commandClient,   \* is commandClient set
  peer,            \* the command server the client is connected to
  serviceStarted,  \* serviceStarted
  servers,         \* CommandServer -> off, listening, or faulty after its Close
  service,         \* CommandServer -> what SetService gave it
  given,           \* history: the service of the last Start
  epoch            \* history: the Starts since the last Stop: none (fresh), one
                   \*   in which no server failed to start (good), or else (stale)

mobileVars ==
  <<commandServer, commandClient, peer, serviceStarted, servers, service, given, epoch>>

MobileInit ==
  /\ commandServer = None
  /\ commandClient = FALSE
  /\ peer = None
  /\ serviceStarted = FALSE
  /\ servers = [s \in CommandServer |-> "off"]
  /\ service = [s \in CommandServer |-> None]
  /\ given = None
  /\ epoch = "fresh"

Fresh == {s \in CommandServer : servers[s] # "listening" /\ s # commandServer}

\* startCommandServer: a server that is there is kept, with the service it has;
\* one whose Start fails stays there.
StartCommandServer(box) ==
  \/ /\ commandServer # None
     /\ UNCHANGED <<commandServer, servers, service>>
  \/ /\ commandServer = None
     /\ \E s \in Fresh :
          /\ commandServer' = s
          /\ service' = [service EXCEPT ![s] = box]
          /\ \E outcome \in {"listening", "off"} :
               servers' = [servers EXCEPT ![s] = outcome]

\* StartCommandClient: a client that is there is kept; one that could not connect
\* stays there.
Connects(s) ==
  /\ commandClient' = TRUE
  /\ \/ commandClient /\ UNCHANGED peer
     \/ ~commandClient /\ peer' = None
     \/ ~commandClient /\ s # None /\ servers'[s] = "listening" /\ peer' = s

-----------------------------------------------------------------------------
(***************************************************************************)
(* Mutant: the command server is closed and not forgotten.                 *)
(***************************************************************************)
MutantCloseCommandServer ==
  /\ IF commandServer = None THEN UNCHANGED <<servers, service>>
     ELSE /\ \E outcome \in {"off", "faulty"} :
               servers' = [servers EXCEPT ![commandServer] =
                             IF @ = "listening" THEN outcome ELSE @]
          /\ service' = [service EXCEPT ![commandServer] = None]
  /\ UNCHANGED commandServer

CloseCommandServer ==
  /\ IF commandServer = None THEN UNCHANGED <<servers, service>>
     ELSE /\ \E outcome \in {"off", "faulty"} :
               servers' = [servers EXCEPT ![commandServer] =
                             IF @ = "listening" THEN outcome ELSE @]
          /\ service' = [service EXCEPT ![commandServer] = None]
  /\ commandServer' = None

-----------------------------------------------------------------------------
NoServerStarts == commandServer = None /\ servers'[commandServer'] # "listening"

\* The errors of both steps are ignored.
Start(box, connectCommandClient) ==
  /\ StartCommandServer(box)
  /\ IF connectCommandClient THEN Connects(commandServer') ELSE UNCHANGED <<commandClient, peer>>
  /\ serviceStarted' = TRUE
  /\ given' = box
  /\ epoch' = IF epoch = "fresh" /\ ~NoServerStarts THEN "good" ELSE "stale"

StartCommandClient ==
  /\ UNCHANGED <<commandServer, serviceStarted, servers, service, given, epoch>>
  /\ Connects(commandServer)

Stop ==
  /\ CloseCommandServer
  /\ commandClient' = FALSE
  /\ peer' = None
  /\ serviceStarted' = FALSE
  /\ given' = None
  /\ epoch' = "fresh"

MobileNext ==
  \/ \E box \in BoxService, connect \in BOOLEAN : Start(box, connect)
  \/ StartCommandClient
  \/ Stop

MobileSpec == MobileInit /\ [][MobileNext]_mobileVars

-----------------------------------------------------------------------------
\* The first Start after a Stop serves the service it is given, if its command
\* server starts; a server that failed to start, or that serves the service of an
\* earlier Start, is in the way only until the next Stop.  A client is never
\* connected to a server the library no longer has, and after a Stop no server
\* listens that could be closed (mobile.go:54-92).
MobileServes ==
  /\ epoch = "good" =>
       /\ serviceStarted
       /\ commandServer # None /\ servers[commandServer] = "listening"
       /\ service[commandServer] = given
  /\ peer # None => peer = commandServer /\ servers[peer] = "listening"
  /\ \A s \in CommandServer : servers[s] = "listening" => s = commandServer
=============================================================================
