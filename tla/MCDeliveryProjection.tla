------------------------ MODULE MCDeliveryProjection ------------------------
(***************************************************************************)
(* Small instance of DeliveryProjection: every kind of rebuild meets every *)
(* other and itself.                                                       *)
(***************************************************************************)
EXTENDS DeliveryProjection

=============================================================================
