----------------------------- MODULE OrderRecord -----------------------------
(***************************************************************************)
(* What an order promises to its parties, whatever table holds it and in   *)
(* whatever sequence the saga calls: the terms it was opened under are     *)
(* never changed, no other order has its key, it never returns to where it *)
(* started, and what has happened to it is never forgotten.                *)
(*                                                                         *)
(* OrderLifecycle implements this specification (ImplementsRecord).        *)
(***************************************************************************)
EXTENDS Naturals

CONSTANTS
  OrderIds, Users, Keys, Gigs, Files,
  Null            \* not opened

(* The terms of an order. *)
Terms == [buyer: Users, seller: Users, key: Keys, gig: Gigs]

(* What can have happened to an order. *)
Facts == {"delivered", "completed", "disputed"}

VARIABLES
  terms,     \* the terms of each order
  moved,     \* the orders that have left their first status
  facts,     \* what has happened to each order
  revised,   \* how often a revision of it was asked for
  handed     \* the files that were delivered

vars == <<terms, moved, facts, revised, handed>>

Opened(o) == terms[o] # Null

Init ==
  /\ terms = [o \in OrderIds |-> Null]
  /\ moved = {}
  /\ facts = [o \in OrderIds |-> {}]
  /\ revised = [o \in OrderIds |-> 0]
  /\ handed = [o \in OrderIds |-> {}]

(* A new order, under a key that no other one has. *)
Open(o, t) ==
  /\ ~Opened(o)
  /\ \A p \in OrderIds : Opened(p) => terms[p].key # t.key
  /\ terms' = [terms EXCEPT ![o] = t]
  /\ UNCHANGED <<moved, facts, revised, handed>>

(* A transition that records nothing. *)
Move(o) ==
  /\ Opened(o)
  /\ moved' = moved \cup {o}
  /\ UNCHANGED <<terms, facts, revised, handed>>

(* A transition that records a fact, and the files of a delivery with it.  *)
Happen(o, fact, attached) ==
  /\ Opened(o)
  /\ fact = "delivered" \/ attached = {}
  /\ moved' = moved \cup {o}
  /\ facts' = [facts EXCEPT ![o] = @ \cup {fact}]
  /\ handed' = [handed EXCEPT ![o] = @ \cup attached]
  /\ UNCHANGED <<terms, revised>>

Revise(o) ==
  /\ Opened(o)
  /\ moved' = moved \cup {o}
  /\ revised' = [revised EXCEPT ![o] = @ + 1]
  /\ UNCHANGED <<terms, facts, handed>>

Next ==
  \E o \in OrderIds :
    \/ \E t \in Terms : Open(o, t)
    \/ Move(o)
    \/ \E fact \in Facts, attached \in SUBSET Files : Happen(o, fact, attached)
    \/ Revise(o)

Spec == Init /\ [][Next]_vars

=============================================================================
