--------------------------- MODULE AbstractTunnel ---------------------------
(***************************************************************************)
(* What the tunnel promises the user of the core: it follows what the user *)
(* wants.  The user changes what he wants only once the tunnel agrees with *)
(* it; the tunnel changes only to agree, and does so in the end.           *)
(*                                                                         *)
(* The promise binds until something disturbs it.  From then on anything   *)
(* may happen, until the user starts anew with the tunnel down.            *)
(***************************************************************************)
VARIABLES wanted, up, disturbed

state == <<wanted, up, disturbed>>

Init == wanted = FALSE /\ up \in BOOLEAN /\ disturbed = up

\* The user starts a core with the tunnel, or stops the core.
Want ==
  /\ ~disturbed /\ up = wanted
  /\ wanted' = ~wanted
  /\ UNCHANGED <<up, disturbed>>

\* The tunnel comes up or goes down.
Follow ==
  /\ ~disturbed /\ up # wanted
  /\ up' = wanted
  /\ UNCHANGED <<wanted, disturbed>>

Disturb == disturbed' = TRUE /\ wanted' \in BOOLEAN /\ up' \in BOOLEAN

\* The user starts a core, with or without the tunnel, and there is none.
Anew ==
  /\ disturbed /\ disturbed' = FALSE
  /\ ~up /\ ~up'
  /\ ~wanted /\ wanted' \in BOOLEAN

\* What may happen, and what must.
Safe == Init /\ [][Want \/ Follow \/ Disturb \/ Anew]_state
Spec == Safe /\ WF_state(Follow)
=============================================================================
