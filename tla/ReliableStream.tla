--------------------------- MODULE ReliableStream ---------------------------
(***************************************************************************)
(* What the sender of a transfer relies on (a DFU image over RWCP): the    *)
(* payloads 1, 2, 3, ... come out in order and once each, and nothing is   *)
(* confirmed to the sender before it came out.  A transfer may be given    *)
(* up and started again from the first payload.                            *)
(***************************************************************************)
EXTENDS Naturals, Sequences

VARIABLES
    out,        \* the payloads that came out, oldest first
    confirmed   \* how many of them the sender knows of

vars == <<out, confirmed>>

Init == out = <<>> /\ confirmed = 0

Deliver == out' = Append(out, Len(out) + 1) /\ UNCHANGED confirmed

Confirm == confirmed' \in confirmed + 1 .. Len(out) /\ UNCHANGED out

GiveUp == confirmed' = 0 /\ UNCHANGED out

Restart == confirmed = 0 /\ out' = <<>> /\ UNCHANGED confirmed

Next == Deliver \/ Confirm \/ GiveUp \/ Restart

Spec == Init /\ [][Next]_vars
=============================================================================
