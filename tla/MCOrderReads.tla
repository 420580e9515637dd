----------------------------- MODULE MCOrderReads -----------------------------
(***************************************************************************)
(* Small instance of OrderReads: one call at a time, while the commands    *)
(* and consumers of other calls write what it reads between its steps.     *)
(* Nothing tells the two parties apart, nor two picture files.             *)
(***************************************************************************)
EXTENDS OrderReads, TLC

Symmetry == Permutations(Parties) \cup Permutations(Files)

=============================================================================
