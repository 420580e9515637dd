-------------------------- MODULE MCEventConsumer --------------------------
(***************************************************************************)
(* Small instance of EventConsumer: two replicas, two events that can be   *)
(* unwrapped and one that cannot.                                          *)
(***************************************************************************)
EXTENDS EventConsumer

=============================================================================
