---------------------------- MODULE OrderLifecycle ----------------------------
(***************************************************************************)
(* The write model of an order: the orders row and the tables that hold    *)
(* the evidence of its transitions (gig snapshot, checkout session,        *)
(* delivery and its files, revision request, dispute), changed by the      *)
(* PostgreSQL repository one transaction at a time.                        *)
(*                                                                         *)
(* A repository method that runs in one transaction, or is one statement,  *)
(* is one action.  SaveCheckoutSession runs two statements without a       *)
(* transaction: it is two actions, and a third one for the call that ends  *)
(* between them (an error of the second statement, a crash).  A method     *)
(* whose UPDATE matches no row returns ErrOrderNotFound and changes        *)
(* nothing, so its action is not enabled.                                  *)
(*                                                                         *)
(* None of the UPDATEs looks at the status it overwrites: the order in     *)
(* which the saga calls is not a guard of this code, and every action may  *)
(* follow every other.                                                     *)
(***************************************************************************)
EXTENDS Integers

CONSTANTS
  OrderIds, Users, Keys, Gigs, Intents, Releases, Reasons, Files,
  Creates,        \* the create commands the saga and the recovery send
  Calls,          \* MarkPaymentPending calls that may be in flight at once
  MaxRevisions,   \* bound on revision_count_used
  Null            \* no row, or an SQL NULL

(* One create command carries the identity of the order and the gig        *)
(* content to snapshot; the same command may be sent again.                *)
CreateCommand ==
  [order: OrderIds, buyer: Users, seller: Users, key: Keys, gig: Gigs]

ASSUME CreatesAssumption == Creates \subseteq CreateCommand

ASSUME MaxRevisionsAssumption == MaxRevisions \in Nat

(* The statuses this service writes; draft, paid and the intermediate      *)
(* requirement statuses of the enumeration are never written.              *)
Statuses ==
  {"requirements_pending", "payment_pending", "funded", "failed",
   "delivered", "release_pending", "revision_requested", "disputed",
   "completed", "dispute_resolved", "release_failed"}

(* A row of orders.  The timestamps delivered_at, completed_at and         *)
(* disputed_at are set or not: no code compares their values.              *)
OrderRow ==
  [buyer: Users, seller: Users, key: Keys, gig: Gigs, status: Statuses,
   intent: Intents \cup {Null}, release: Releases \cup {Null},
   reason: Reasons \cup {Null}, delivered_at: BOOLEAN,
   completed_at: BOOLEAN, disputed_at: BOOLEAN, revision_count_used: Nat]

(* The columns no statement ever assigns again: the terms of the order. *)
OrderTerms == [buyer: Users, seller: Users, key: Keys, gig: Gigs]

DisputeRow == [buyer: Users, initiator: Users, role: {"buyer", "seller"}]

CheckoutCall == [order: OrderIds, intent: Intents]

ASSUME NullAssumption ==
  Null \notin OrderRow \cup OrderTerms \cup DisputeRow \cup CheckoutCall
              \cup Users \cup Gigs \cup Intents \cup Releases \cup Reasons

VARIABLES
  orders,      \* table orders
  snapshot,    \* table order_gig_snapshot: the gig content of the order
  checkout,    \* table order_checkout_sessions: the intent its URL pays
  deliveries,  \* table order_deliveries: the seller of the delivery
  files,       \* table order_delivery_files
  revisions,   \* table order_revision_requests: the buyer who asked
  disputes,    \* table order_disputes
  calls,       \* SaveCheckoutSession calls between their two statements
  torn         \* history: orders with overlapping or cut checkout calls

evidence == <<deliveries, files, revisions, disputes>>
payment == <<checkout, calls, torn>>
vars == <<orders, snapshot, evidence, payment>>

Exists(o) == orders[o] # Null

(* The orders row as INSERT writes it. *)
NewOrder(cmd) ==
  [buyer |-> cmd.buyer, seller |-> cmd.seller, key |-> cmd.key,
   gig |-> cmd.gig, status |-> "requirements_pending", intent |-> Null,
   release |-> Null, reason |-> Null, delivered_at |-> FALSE,
   completed_at |-> FALSE, disputed_at |-> FALSE, revision_count_used |-> 0]

KeyNeverChecked(cmd) == TRUE

(* idempotency_key is UNIQUE: an INSERT with the key of another order      *)
(* fails, an INSERT of an order that exists takes the conflict branch.     *)
KeyIsFree(cmd) ==
  \A o \in OrderIds : Exists(o) => orders[o].key # cmd.key

Init ==
  /\ orders = [o \in OrderIds |-> Null]
  /\ snapshot = [o \in OrderIds |-> Null]
  /\ checkout = [o \in OrderIds |-> Null]
  /\ deliveries = [o \in OrderIds |-> Null]
  /\ files = [o \in OrderIds |-> {}]
  /\ revisions = [o \in OrderIds |-> Null]
  /\ disputes = [o \in OrderIds |-> Null]
  /\ calls = [c \in Calls |-> Null]
  /\ torn = {}

-----------------------------------------------------------------------------

InsertedOrderOverwritingParties(cmd) ==
  IF Exists(cmd.order)
  THEN [orders[cmd.order] EXCEPT !.buyer = cmd.buyer, !.seller = cmd.seller]
  ELSE NewOrder(cmd)

InsertedOrderResettingStatus(cmd) == NewOrder(cmd)

(* The row an INSERT ... ON CONFLICT (order_id) leaves in orders: the      *)
(* conflict branch assigns updated_at to itself and keeps the row.         *)
InsertedOrder(cmd) ==
  IF Exists(cmd.order) THEN orders[cmd.order] ELSE NewOrder(cmd)

(* Create: the orders row and the gig snapshot in one transaction.  The    *)
(* snapshot's own conflict branch overwrites every column.                 *)
Create(cmd) ==
  /\ Exists(cmd.order) \/ KeyIsFree(cmd)
  /\ orders' = [orders EXCEPT ![cmd.order] = InsertedOrder(cmd)]
  /\ snapshot' = [snapshot EXCEPT ![cmd.order] = cmd.gig]
  /\ UNCHANGED <<evidence, payment>>

MarkFundedForgettingIntent(o, i) ==
  /\ Exists(o)
  /\ orders' = [orders EXCEPT ![o] = [@ EXCEPT !.status = "funded"]]
  /\ UNCHANGED <<snapshot, evidence, payment>>

(* MarkFunded: reached from the confirm command and from MarkOrderFunded. *)
MarkFunded(o, i) ==
  /\ Exists(o)
  /\ orders' = [orders EXCEPT
       ![o] = [@ EXCEPT !.status = "funded", !.intent = i]]
  /\ UNCHANGED <<snapshot, evidence, payment>>

(* MarkFailed: reached from the fail command and from MarkPaymentFailed. *)
MarkFailed(o, r) ==
  /\ Exists(o)
  /\ orders' = [orders EXCEPT
       ![o] = [@ EXCEPT !.status = "failed", !.reason = r]]
  /\ UNCHANGED <<snapshot, evidence, payment>>

-----------------------------------------------------------------------------
(* MarkPaymentPending: SaveCheckoutSession and its two statements.         *)

InFlight(o) == \E c \in Calls : calls[c] # Null /\ calls[c].order = o

(* The first statement commits status and intent on its own. *)
BeginCheckout(c, o, i) ==
  /\ Exists(o)
  /\ calls[c] = Null
  /\ orders' = [orders EXCEPT
       ![o] = [@ EXCEPT !.status = "payment_pending", !.intent = i]]
  /\ calls' = [calls EXCEPT ![c] = [order |-> o, intent |-> i]]
  /\ torn' = IF InFlight(o) THEN torn \cup {o} ELSE torn
  /\ UNCHANGED <<snapshot, checkout, evidence>>

EndCheckoutKeepingTheFirstUrl(c) ==
  /\ calls[c] # Null
  /\ checkout' = [checkout EXCEPT
       ![calls[c].order] = IF @ = Null THEN calls[c].intent ELSE @]
  /\ calls' = [calls EXCEPT ![c] = Null]
  /\ UNCHANGED <<orders, snapshot, evidence, torn>>

(* The second statement upserts the checkout session. *)
EndCheckout(c) ==
  /\ calls[c] # Null
  /\ checkout' = [checkout EXCEPT ![calls[c].order] = calls[c].intent]
  /\ calls' = [calls EXCEPT ![c] = Null]
  /\ UNCHANGED <<orders, snapshot, evidence, torn>>

(* The call ends after its first statement: the second one failed, or the  *)
(* process stopped.  Nothing undoes the status.                            *)
CutCheckout(c) ==
  /\ calls[c] # Null
  /\ torn' = torn \cup {calls[c].order}
  /\ calls' = [calls EXCEPT ![c] = Null]
  /\ UNCHANGED <<orders, snapshot, checkout, evidence>>

-----------------------------------------------------------------------------

SaveDeliveryWithoutDeliveryRow(o, seller, attached) ==
  /\ Exists(o)
  /\ orders' = [orders EXCEPT
       ![o] = [@ EXCEPT !.status = "delivered", !.delivered_at = TRUE]]
  /\ files' = [files EXCEPT ![o] = @ \cup attached]
  /\ UNCHANGED <<snapshot, deliveries, revisions, disputes, payment>>

(* SaveDelivery: status, delivery row and one row per attachment in one    *)
(* transaction; a second delivery replaces the delivery row and adds its   *)
(* files to those of the first.                                            *)
SaveDelivery(o, seller, attached) ==
  /\ Exists(o)
  /\ orders' = [orders EXCEPT
       ![o] = [@ EXCEPT !.status = "delivered", !.delivered_at = TRUE]]
  /\ deliveries' = [deliveries EXCEPT ![o] = seller]
  /\ files' = [files EXCEPT ![o] = @ \cup attached]
  /\ UNCHANGED <<snapshot, revisions, disputes, payment>>

(* RequestRevision: the UPDATE matches the order only for its buyer. *)
RequestRevision(o, buyer) ==
  /\ Exists(o)
  /\ orders[o].buyer = buyer
  /\ orders[o].revision_count_used < MaxRevisions
  /\ orders' = [orders EXCEPT
       ![o] = [@ EXCEPT !.status = "revision_requested",
                        !.revision_count_used = orders[o].revision_count_used + 1]]
  /\ revisions' = [revisions EXCEPT ![o] = buyer]
  /\ UNCHANGED <<snapshot, deliveries, files, disputes, payment>>

RoleLeftEmpty(row, initiator) ==
  IF initiator = row.buyer THEN "buyer" ELSE ""

(* Whoever is not the buyer opens the dispute as the seller. *)
InitiatorRole(row, initiator) ==
  IF initiator = row.buyer THEN "buyer" ELSE "seller"

(* OpenDispute: status and dispute row in one transaction. *)
OpenDispute(o, initiator) ==
  /\ Exists(o)
  /\ orders' = [orders EXCEPT
       ![o] = [@ EXCEPT !.status = "disputed", !.disputed_at = TRUE]]
  /\ disputes' = [disputes EXCEPT
       ![o] = [buyer |-> orders[o].buyer, initiator |-> initiator,
               role |-> InitiatorRole(orders[o], initiator)]]
  /\ UNCHANGED <<snapshot, deliveries, files, revisions, payment>>

(* MarkReleasePending; an empty release id is stored as NULL. *)
MarkReleasePending(o, r) ==
  /\ Exists(o)
  /\ orders' = [orders EXCEPT
       ![o] = [@ EXCEPT !.status = "release_pending", !.release = r]]
  /\ UNCHANGED <<snapshot, evidence, payment>>

MarkCompleted(o, r) ==
  /\ Exists(o)
  /\ orders' = [orders EXCEPT
       ![o] = [@ EXCEPT !.status = "completed", !.release = r,
                        !.completed_at = TRUE]]
  /\ UNCHANGED <<snapshot, evidence, payment>>

MarkDisputeResolved(o, r) ==
  /\ Exists(o)
  /\ orders' = [orders EXCEPT
       ![o] = [@ EXCEPT !.status = "dispute_resolved", !.release = r]]
  /\ UNCHANGED <<snapshot, evidence, payment>>

MarkReleaseFailed(o, r) ==
  /\ Exists(o)
  /\ orders' = [orders EXCEPT
       ![o] = [@ EXCEPT !.status = "release_failed", !.reason = r]]
  /\ UNCHANGED <<snapshot, evidence, payment>>

Next ==
  \/ \E cmd \in Creates : Create(cmd)
  \/ \E o \in OrderIds, i \in Intents : MarkFunded(o, i)
  \/ \E o \in OrderIds, r \in Reasons : MarkFailed(o, r)
  \/ \E c \in Calls, o \in OrderIds, i \in Intents : BeginCheckout(c, o, i)
  \/ \E c \in Calls : EndCheckout(c)
  \/ \E c \in Calls : CutCheckout(c)
  \/ \E o \in OrderIds, u \in Users, f \in SUBSET Files : SaveDelivery(o, u, f)
  \/ \E o \in OrderIds, u \in Users : RequestRevision(o, u)
  \/ \E o \in OrderIds, u \in Users : OpenDispute(o, u)
  \/ \E o \in OrderIds, r \in Releases \cup {Null} : MarkReleasePending(o, r)
  \/ \E o \in OrderIds, r \in Releases \cup {Null} : MarkCompleted(o, r)
  \/ \E o \in OrderIds, r \in Releases \cup {Null} : MarkDisputeResolved(o, r)
  \/ \E o \in OrderIds, r \in Reasons : MarkReleaseFailed(o, r)

Spec == Init /\ [][Next]_vars

-----------------------------------------------------------------------------
(* Properties.                                                             *)

(* Every table holds rows of its type. *)
TypeOK ==
  /\ orders \in [OrderIds -> OrderRow \cup {Null}]
  /\ snapshot \in [OrderIds -> Gigs \cup {Null}]
  /\ checkout \in [OrderIds -> Intents \cup {Null}]
  /\ deliveries \in [OrderIds -> Users \cup {Null}]
  /\ files \in [OrderIds -> SUBSET Files]
  /\ revisions \in [OrderIds -> Users \cup {Null}]
  /\ disputes \in [OrderIds -> DisputeRow \cup {Null}]
  /\ calls \in [Calls -> CheckoutCall \cup {Null}]
  /\ torn \in SUBSET OrderIds

(* The orders row and the evidence tables agree in both directions: an     *)
(* order has its gig snapshot, delivered_at is set exactly when a delivery *)
(* row exists, disputed_at exactly when a dispute row exists, revisions    *)
(* were counted exactly when a revision request is stored, and no child    *)
(* row (checkout session, delivery file) exists without its parent.        *)
EvidenceMatchesRow ==
  \A o \in OrderIds :
    /\ Exists(o) <=> snapshot[o] # Null
    /\ deliveries[o] # Null <=> Exists(o) /\ orders[o].delivered_at
    /\ disputes[o] # Null <=> Exists(o) /\ orders[o].disputed_at
    /\ revisions[o] # Null <=> Exists(o) /\ orders[o].revision_count_used > 0
    /\ files[o] # {} => deliveries[o] # Null
    /\ checkout[o] # Null => Exists(o)

(* What a row must have recorded to carry its status. *)
RowBacked(row) ==
  /\ row.status \in {"payment_pending", "funded"} => row.intent # Null
  /\ row.status \in {"failed", "release_failed"} => row.reason # Null
  /\ row.status = "delivered" => row.delivered_at
  /\ row.status = "revision_requested" => row.revision_count_used > 0
  /\ row.status = "disputed" => row.disputed_at
  /\ row.status = "completed" => row.completed_at

(* A status that claims a fact is backed by the column that records it,    *)
(* whatever sequence of calls led there.                                   *)
StatusBacked ==
  \A o \in OrderIds : Exists(o) => RowBacked(orders[o])

(* The parties copied into the evidence are those of the order: a revision *)
(* was asked by the buyer, and a dispute names the buyer and gives the     *)
(* initiator the role it has in the order, also after the create command   *)
(* was sent again with other parties.                                      *)
PartiesAgree ==
  \A o \in OrderIds :
    /\ revisions[o] # Null => revisions[o] = orders[o].buyer
    /\ disputes[o] # Null =>
         /\ disputes[o].buyer = orders[o].buyer
         /\ disputes[o].role = "buyer"
              <=> disputes[o].initiator = orders[o].buyer

(* One idempotency key makes at most one order. *)
OneOrderPerKey ==
  \A o, p \in OrderIds :
    Exists(o) /\ Exists(p) /\ orders[o].key = orders[p].key => o = p

(* Between two checkout calls that neither overlapped nor were cut short,  *)
(* the stored checkout URL pays the intent stored on the order.            *)
CheckoutPaysIntent ==
  \A o \in OrderIds :
    Exists(o) /\ orders[o].status = "payment_pending"
      /\ ~InFlight(o) /\ o \notin torn
      => checkout[o] = orders[o].intent

(* The columns that carry what an order promises, as OrderRecord sees them. *)
TermsOf(row) ==
  [buyer |-> row.buyer, seller |-> row.seller, key |-> row.key, gig |-> row.gig]

FactsOf(row) ==
  (IF row.delivered_at THEN {"delivered"} ELSE {})
  \cup (IF row.completed_at THEN {"completed"} ELSE {})
  \cup (IF row.disputed_at THEN {"disputed"} ELSE {})

TermsNow == [o \in OrderIds |-> IF Exists(o) THEN TermsOf(orders[o]) ELSE Null]

MovedNow ==
  {o \in OrderIds : Exists(o) /\ orders[o].status # "requirements_pending"}

FactsNow == [o \in OrderIds |-> IF Exists(o) THEN FactsOf(orders[o]) ELSE {}]

RevisedNow ==
  [o \in OrderIds |-> IF Exists(o) THEN orders[o].revision_count_used ELSE 0]

Record == INSTANCE OrderRecord WITH
  terms <- TermsNow, moved <- MovedNow, facts <- FactsNow,
  revised <- RevisedNow, handed <- files

(* The tables keep what an order promises: a create command that is sent   *)
(* again neither changes its terms nor takes it back to its first status,  *)
(* no second order gets its key, and no transition, however late or often  *)
(* repeated, clears a timestamp, lowers the revision count or drops a      *)
(* delivered file.                                                         *)
ImplementsRecord == Record!Spec

(* The gig snapshot of an order never changes, as the comment on           *)
(* OrderGigSnapshot says ("the immutable gig snapshot persisted with an    *)
(* order").  The upsert in Create overwrites it when a create command      *)
(* comes again with other gig content.                                     *)
SnapshotImmutable ==
  [][\A o \in OrderIds :
       snapshot[o] # Null => snapshot'[o] = snapshot[o]]_vars

=============================================================================
