---------------------------- MODULE LinkPromise ----------------------------
(***************************************************************************)
(* What XTBClient promises a user of its link who does not disconnect,     *)
(* without the tickets, sockets, requests, tasks and flags that keep the   *)
(* promise: a link reported as up was accepted by the server, it is given  *)
(* up only for a real loss, a loss is always followed by reconnecting, and *)
(* that ends with a new link or with the give-up after exactly MaxAttempts *)
(* failures in a row.  Where MayDeafen, a live link may go deaf: it is     *)
(* still reported as up, and nothing is promised of it any more.  A link   *)
(* that has broken may not.                                                *)
(***************************************************************************)
EXTENDS Integers

CONSTANTS
  MaxAttempts,
  MayDeafen     \* may the client stop reading a link that is up?

VARIABLES
  phase,  \* what the client is about
  alive,  \* is there a connection the server has accepted a login on?
  failed  \* reconnection attempts that have failed in a row

vars == <<phase, alive, failed>>

Init ==
  /\ phase = "none"
  /\ alive = FALSE
  /\ failed = 0

Connecting == phase \in {"connecting", "reconnecting"}

Connect ==
  /\ phase \in {"none", "gaveUp"}
  /\ phase' = "connecting"
  /\ UNCHANGED <<alive, failed>>

ConnectFails ==
  /\ phase = "connecting" /\ ~alive
  /\ phase' = "none"
  /\ UNCHANGED <<alive, failed>>

(* The server accepts the login; the client learns of it. *)
Accept ==
  /\ Connecting /\ ~alive
  /\ alive' = TRUE
  /\ UNCHANGED <<phase, failed>>

Succeed ==
  /\ Connecting /\ alive
  /\ phase' = "up"
  /\ failed' = 0
  /\ UNCHANGED alive

(* The connection is lost; the client learns of it. *)
Break ==
  /\ phase \in {"up", "deaf"} /\ alive
  /\ alive' = FALSE
  /\ UNCHANGED <<phase, failed>>

Deafen ==
  /\ MayDeafen
  /\ phase = "up" /\ alive
  /\ phase' = "deaf"
  /\ alive' \in BOOLEAN
  /\ UNCHANGED failed

Notice ==
  /\ phase = "up" /\ ~alive
  /\ phase' = "reconnecting"
  /\ UNCHANGED <<alive, failed>>

AttemptFails ==
  /\ phase = "reconnecting" /\ ~alive
  /\ failed' = failed + 1
  /\ phase' = IF failed' < MaxAttempts THEN "reconnecting" ELSE "gaveUp"
  /\ UNCHANGED alive

Next ==
  \/ Connect \/ ConnectFails \/ Accept \/ Succeed
  \/ Break \/ Deafen \/ Notice \/ AttemptFails

Spec == Init /\ [][Next]_vars
=============================================================================
