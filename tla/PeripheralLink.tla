--------------------------- MODULE PeripheralLink ---------------------------
(***************************************************************************)
(* What SimpleBLE::Peripheral promises the user of connect() about its     *)
(* callbacks: no disconnection is announced while connect() makes its      *)
(* attempts, a connection is announced only by a connect() that found the  *)
(* device connected, and a deleted peripheral announces nothing.           *)
(***************************************************************************)
VARIABLES
    phase,          \* "idle", "attempting", "deciding", "accepted", "refused", "deleted"
    event           \* the last callback: "none", "connected", "disconnected"

LinkInit == phase = "idle" /\ event = "none"

Silent(from, to) == phase = from /\ phase' = to /\ UNCHANGED event

StartAttempts == Silent("idle", "attempting")
EndAttempts == Silent("attempting", "deciding")
Accept == Silent("deciding", "accepted")
Refuse == Silent("deciding", "refused")
Fail == Silent("refused", "idle")
Delete == Silent("idle", "deleted")

Connected == phase = "accepted" /\ phase' = "idle" /\ event' = "connected"

Disconnected ==
    /\ phase \notin {"attempting", "deleted"}
    /\ event' = "disconnected"
    /\ UNCHANGED phase

(* The process ends and is run again. *)
NewProcess == phase' = "idle" /\ event' = "none"

LinkNext ==
    \/ StartAttempts \/ EndAttempts \/ Accept \/ Refuse \/ Fail \/ Delete
    \/ Connected \/ Disconnected \/ NewProcess

LinkSpec == LinkInit /\ [][LinkNext]_<<phase, event>>
=============================================================================
