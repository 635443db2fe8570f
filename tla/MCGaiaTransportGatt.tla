------------------------- MODULE MCGaiaTransportGatt -------------------------
(* Small instances of GaiaTransportGatt. *)
EXTENDS GaiaTransportGatt
=============================================================================
