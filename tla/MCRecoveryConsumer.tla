------------------------- MODULE MCRecoveryConsumer -------------------------
(***************************************************************************)
(* Small instances of RecoveryConsumer: two replicas that take one         *)
(* partition from each other, and one replica with two partitions.         *)
(***************************************************************************)
EXTENDS RecoveryConsumer

=============================================================================
