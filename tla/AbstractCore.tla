---------------------------- MODULE AbstractCore ----------------------------
(***************************************************************************)
(* What the core promises a client that awaits each call: the statuses it  *)
(* may see, in which order, and what they say of the service behind them.  *)
(* A service comes up only while STARTING and is reported once it is up;   *)
(* nothing takes it down while STARTED; an end that was announced as       *)
(* STOPPING is reported when it is over; and nothing brings up a second    *)
(* service beside one that was not taken over.                             *)
(***************************************************************************)
VARIABLES status, serving

Init == status = "STOPPED" /\ serving = FALSE

\* A start where nothing serves, or a reload of what serves.
Begin ==
  /\ status # "STARTING"
  /\ serving => status = "STARTED"
  /\ status' = "STARTING"
  /\ UNCHANGED serving

\* The service is up, and then it is reported.
ComeUp == status = "STARTING" /\ ~serving /\ serving' = TRUE /\ UNCHANGED status
Report == status = "STARTING" /\ serving /\ status' = "STARTED" /\ UNCHANGED serving

\* A stop begins where something serves.
Stop == status = "STARTED" /\ serving /\ status' = "STOPPING" /\ UNCHANGED serving

\* The service goes down, under any status but STARTED.
GoDown == status # "STARTED" /\ serving /\ serving' = FALSE /\ UNCHANGED status

\* STOPPED is reported: after a stop once the service is down, and at once where
\* something failed or panicked.
Stopped ==
  /\ status # "STOPPED"
  /\ status = "STOPPING" => ~serving
  /\ status' = "STOPPED"
  /\ UNCHANGED serving

Next == Begin \/ ComeUp \/ Report \/ Stop \/ GoDown \/ Stopped

Spec == Init /\ [][Next]_<<status, serving>>

\* What the client may conclude: a core that says it is started serves.
Truthful == status = "STARTED" => serving
=============================================================================
