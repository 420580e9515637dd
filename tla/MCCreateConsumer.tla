--------------------------- MODULE MCCreateConsumer ---------------------------
(***************************************************************************)
(* Two commands for one order with keys of their own, one for another      *)
(* order under the first one's key, one event that cannot be unwrapped and *)
(* one whose payload is no command.  The table of orders is empty first,   *)
(* or has the other order under the first one's key.  The two replicas     *)
(* differ in nothing, and only invariants are checked under their symmetry.*)
(***************************************************************************)
EXTENDS CreateConsumer, TLC

CONSTANTS e1, again, e2, bad, garbled, o1, o2, k1, k2

MCEvents == {e1, again, e2, bad, garbled}
MCOrderOf == [e \in MCEvents |-> IF e = e2 THEN o2 ELSE o1]
MCKeyOf == [e \in MCEvents |-> IF e = again THEN k2 ELSE k1]

Empty == [o \in {o1, o2} |-> Null]
MCBefore == {Empty, [Empty EXCEPT ![o2] = k1]}

Symmetry == Permutations(Replicas)

=============================================================================
