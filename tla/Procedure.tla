----------------------------- MODULE Procedure -----------------------------
(***************************************************************************)
(* The contract of a procedure (topologies/common/procedures/procedures.h) *)
(* as its client sees it: once started it answers exactly once, with a     *)
(* completion if it was not cancelled and with a confirmation of the       *)
(* cancellation if it was.                                                 *)
(***************************************************************************)
VARIABLES
    phase,   \* "idle", "started" or "cancelling"
    last     \* the last callback the client received

vars == <<phase, last>>

Init == phase = "idle" /\ last = "none"

Start   == phase = "idle"       /\ phase' = "started"    /\ last' = "none"
Cancel  == phase = "started"    /\ phase' = "cancelling" /\ last' = "none"
Finish  == phase = "started"    /\ phase' = "idle"       /\ last' = "complete"
Confirm == phase = "cancelling" /\ phase' = "idle"       /\ last' = "cancelled"

Next == Start \/ Cancel \/ Finish \/ Confirm

Safety == Init /\ [][Next]_vars

\* A procedure that has been started, or cancelled, eventually answers.
Spec == Safety /\ WF_vars(Finish \/ Confirm)
=============================================================================
