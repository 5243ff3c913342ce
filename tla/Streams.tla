------------------------------ MODULE Streams ------------------------------
(***************************************************************************)
(* The streaming calls of the core's gRPC service: CoreInfoListener and    *)
(* LogListener (v2/coreinfo.go, v2/logproto.go), and GetSystemInfo,        *)
(* OutboundsInfo and MainOutboundsInfo (v2/commands.go), which share one   *)
(* command client per kind among all their streams.                        *)
(*                                                                         *)
(* A handler runs on a goroutine of its own; a step is the code between    *)
(* two accesses to the shared clients and observers.  What is sent on a    *)
(* stream is left out: an iteration of a handler's loop that only sends,   *)
(* or finds nothing, changes nothing here.                                 *)
(***************************************************************************)
CONSTANTS
  Stream,  \* the streams
  kind     \* Stream -> the call that opens it

Listeners == {"CoreInfoListener", "LogListener"}
InfoCalls == {"GetSystemInfo", "OutboundsInfo", "MainOutboundsInfo"}

ASSUME KindAssumption == kind \in [Stream -> Listeners \cup InfoCalls]

VARIABLES
  at,          \* Stream -> the next step of its handler
  cancelled,   \* the streams whose context is done
  halfClosed,  \* the streams whose Recv has returned (stopch is closed)
  subscribed,  \* the streams whose handler has a subscription
  shared,      \* the calls whose command client is set
  listening,   \* can a command client connect
  dead         \* has the process ended in a panic

streamVars == <<at, cancelled, halfClosed, subscribed, shared, listening, dead>>

Busy == {"find", "make", "connect", "subscribe", "loop", "unsubscribe"}

StreamsInit ==
  /\ at = [s \in Stream |-> "none"]
  /\ cancelled = {} /\ halfClosed = {} /\ subscribed = {} /\ shared = {}
  /\ listening \in BOOLEAN
  /\ dead = FALSE

Proceed(s, from, to) == ~dead /\ at[s] = from /\ at' = [at EXCEPT ![s] = to]

-----------------------------------------------------------------------------
\* ------ The clients of the service, and the core.
Open(s) ==
  /\ Proceed(s, "none", IF kind[s] \in Listeners THEN "subscribe" ELSE "find")
  /\ UNCHANGED <<cancelled, halfClosed, subscribed, shared, listening, dead>>

\* A client closes its side of a stream, or the stream is over; once its handler
\* has returned it may be opened again.
CloseSide(s) ==
  /\ ~dead /\ at[s] \in Busy
  /\ \/ halfClosed' = halfClosed \cup {s} /\ UNCHANGED cancelled
     \/ cancelled' = cancelled \cup {s} /\ halfClosed' = halfClosed \cup {s}
  /\ UNCHANGED <<at, subscribed, shared, listening, dead>>

CoreChanges ==
  /\ ~dead
  /\ listening' = ~listening
  /\ UNCHANGED <<at, cancelled, halfClosed, subscribed, shared, dead>>

-----------------------------------------------------------------------------
(***************************************************************************)
(* Mutant: a listener leaves the select and not the loop, as the other     *)
(* handlers do.                                                            *)
(***************************************************************************)
MutantEnds(s) == FALSE

-----------------------------------------------------------------------------
\* ------ The handlers.

\* if statusClient == nil: the test, and the assignment.
Find(s) ==
  /\ Proceed(s, "find", IF kind[s] \in shared THEN "subscribe" ELSE "make")
  /\ UNCHANGED <<cancelled, halfClosed, subscribed, shared, listening, dead>>

Make(s) ==
  /\ Proceed(s, "make", "connect")
  /\ shared' = shared \cup {kind[s]}
  /\ UNCHANGED <<cancelled, halfClosed, subscribed, listening, dead>>

(***************************************************************************)
(* Connect.  Its error is ignored.  When it succeeds libbox tells the      *)
(* handler, which logs that with a logger that commands.go:24 does not     *)
(* give it: a nil pointer, in a goroutine where nothing recovers.          *)
(***************************************************************************)
Connect(s) ==
  /\ Proceed(s, "connect", "subscribe")
  /\ dead' = listening
  /\ UNCHANGED <<cancelled, halfClosed, subscribed, shared, listening>>

Subscribe(s) ==
  /\ Proceed(s, "subscribe", "loop")
  /\ subscribed' = subscribed \cup {s}
  /\ UNCHANGED <<cancelled, halfClosed, shared, listening, dead>>

\* What ends the loop.  LogListener does not look at stopch, and a break in the
\* three info calls leaves only the select: they go on.
Ends(s) ==
  \/ kind[s] \in Listeners /\ s \in cancelled
  \/ kind[s] = "CoreInfoListener" /\ s \in halfClosed

Leave(s) ==
  /\ Ends(s)
  /\ Proceed(s, "loop", "unsubscribe")
  /\ UNCHANGED <<cancelled, halfClosed, subscribed, shared, listening, dead>>

\* The deferred UnSubscribe; the handler returns and the stream is over.
UnSubscribe(s) ==
  /\ Proceed(s, "unsubscribe", "none")
  /\ subscribed' = subscribed \ {s}
  /\ cancelled' = cancelled \ {s}
  /\ halfClosed' = halfClosed \ {s}
  /\ UNCHANGED <<shared, listening, dead>>

-----------------------------------------------------------------------------
Handler(s) ==
  Find(s) \/ Make(s) \/ Connect(s) \/ Subscribe(s) \/ Leave(s) \/ UnSubscribe(s)

StreamsNext ==
  CoreChanges \/ \E s \in Stream : Open(s) \/ CloseSide(s) \/ Handler(s)

\* Handlers are scheduled.  In the loop a branch that is ready for good is chosen
\* in the end: select chooses at random, and Send on a stream that is over returns.
StreamsFairness == \A s \in Stream : WF_streamVars(Handler(s))

-----------------------------------------------------------------------------
\* The handler of a listener whose stream is over returns, and its subscription
\* with it, whatever it was doing and whatever the others do, unless the process
\* dies.  The three info calls are the exception: their loops have no end
\* (coreinfo.go:44-54, logproto.go:39-47, commands.go:44-54).
ListenersReturn ==
  \A s \in Stream :
    kind[s] \in Listeners /\ s \in cancelled ~> (at[s] = "none" /\ s \notin subscribed) \/ dead
=============================================================================
