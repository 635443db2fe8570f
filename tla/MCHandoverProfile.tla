------------------------- MODULE MCHandoverProfile --------------------------
(* Two earbuds for TLC. *)
EXTENDS HandoverProfile
CONSTANTS left, right
=============================================================================
