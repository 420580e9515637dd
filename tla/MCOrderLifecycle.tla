-------------------------- MODULE MCOrderLifecycle --------------------------
(***************************************************************************)
(* Small instance of OrderLifecycle.  The second command repeats the order *)
(* of the first with other parties and other gig content, the third asks   *)
(* for another order under the key of the first.                           *)
(***************************************************************************)
EXTENDS OrderLifecycle, TLC

CONSTANTS o1, o2, ann, bob, k1, g1, g2

Command(o, b, s, k, g) ==
  [order |-> o, buyer |-> b, seller |-> s, key |-> k, gig |-> g]

MCCreates ==
  {Command(o1, ann, bob, k1, g1), Command(o1, bob, ann, k1, g2),
   Command(o2, bob, ann, k1, g1)}

(* Intents and calls are interchangeable: no command names one. *)
MCSymmetry == Permutations(Intents) \cup Permutations(Calls)

=============================================================================
