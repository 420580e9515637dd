------------------------ MODULE MCOrderRequirements ------------------------
(***************************************************************************)
(* Small instance of OrderRequirements: a draft that asks a required and   *)
(* an optional question, one that asks nothing, and the recovery's.        *)
(***************************************************************************)
EXTENDS OrderRequirements, TLC

CONSTANTS q1, q2, v1, v2, blank, text

Ask(q, r) == [question |-> q, required |-> r]
Reply(q, v) == [question |-> q, value |-> v]

MCDrafts ==
  {[questions |-> <<Ask(q1, TRUE), Ask(q2, FALSE)>>, skip |-> FALSE],
   [questions |-> <<>>, skip |-> FALSE],
   [questions |-> <<>>, skip |-> TRUE]}

MCBatches == {<<Reply(q2, v1), Reply(q1, v1)>>, <<Reply(q1, v2)>>}

MCSymmetry == Permutations(Calls)

=============================================================================
