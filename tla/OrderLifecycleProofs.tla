------------------------- MODULE OrderLifecycleProofs -------------------------
(***************************************************************************)
(* Proofs about OrderLifecycle, for any sets of orders, users, commands    *)
(* and concurrent calls.                                                   *)
(***************************************************************************)
EXTENDS OrderLifecycle, TLAPS

(* Replacing one order's row by a row keeps the table typed. *)
LEMMA PutRow ==
  ASSUME TypeOK, NEW o \in OrderIds, NEW row \in OrderRow,
         orders' = [orders EXCEPT ![o] = row]
  PROVE  orders' \in [OrderIds -> OrderRow \cup {Null}]
BY DEF TypeOK

(* Type correctness: no transition writes a row outside its table's type,  *)
(* in particular no status outside Statuses and no role but the two.       *)
THEOREM TypeCorrect == Spec => []TypeOK
<1> USE NullAssumption, CreatesAssumption
<1>1. Init => TypeOK
  BY DEF Init, TypeOK
<1>2. TypeOK /\ [Next]_vars => TypeOK'
  <2> SUFFICES ASSUME TypeOK, [Next]_vars
               PROVE  TypeOK'
    OBVIOUS
  <2> USE DEF TypeOK
  <2>1. ASSUME NEW cmd \in Creates, Create(cmd)
        PROVE  TypeOK'
    <3>1. cmd \in CreateCommand
      OBVIOUS
    <3>2. NewOrder(cmd) \in OrderRow
      BY <3>1 DEF NewOrder, OrderRow, CreateCommand, Statuses
    <3>3. InsertedOrder(cmd) \in OrderRow
      BY <3>1, <3>2 DEF InsertedOrder, Exists, CreateCommand
    <3> QED
      BY <2>1, <3>1, <3>3 DEF Create, CreateCommand, evidence, payment
  <2>2. ASSUME NEW o \in OrderIds, NEW i \in Intents,
              MarkFunded(o, i)
        PROVE  TypeOK'
    <3>1. orders[o] \in OrderRow
      BY <2>2 DEF MarkFunded, Exists
    <3>2. [orders[o] EXCEPT !.status = "funded", !.intent = i] \in OrderRow
      BY <3>1 DEF OrderRow, Statuses
    <3>3. orders' \in [OrderIds -> OrderRow \cup {Null}]
      BY <2>2, <3>2, PutRow DEF MarkFunded
    <3> QED
      BY <2>2, <3>3 DEF MarkFunded, evidence, payment
  <2>3. ASSUME NEW o \in OrderIds, NEW r \in Reasons,
              MarkFailed(o, r)
        PROVE  TypeOK'
    <3>1. orders[o] \in OrderRow
      BY <2>3 DEF MarkFailed, Exists
    <3>2. [orders[o] EXCEPT !.status = "failed", !.reason = r] \in OrderRow
      BY <3>1 DEF OrderRow, Statuses
    <3>3. orders' \in [OrderIds -> OrderRow \cup {Null}]
      BY <2>3, <3>2, PutRow DEF MarkFailed
    <3> QED
      BY <2>3, <3>3 DEF MarkFailed, evidence, payment
  <2>4. ASSUME NEW c \in Calls, NEW o \in OrderIds, NEW i \in Intents,
              BeginCheckout(c, o, i)
        PROVE  TypeOK'
    <3>1. orders[o] \in OrderRow
      BY <2>4 DEF BeginCheckout, Exists
    <3>2. [orders[o] EXCEPT !.status = "payment_pending", !.intent = i] \in OrderRow
      BY <3>1 DEF OrderRow, Statuses
    <3>3. orders' \in [OrderIds -> OrderRow \cup {Null}]
      BY <2>4, <3>2, PutRow DEF BeginCheckout
    <3>4. calls' \in [Calls -> CheckoutCall \cup {Null}]
      BY <2>4 DEF BeginCheckout, CheckoutCall
    <3> QED
      BY <2>4, <3>3, <3>4 DEF BeginCheckout, evidence
  <2>5. ASSUME NEW c \in Calls, EndCheckout(c)
        PROVE  TypeOK'
    BY <2>5 DEF EndCheckout, CheckoutCall, evidence
  <2>6. ASSUME NEW c \in Calls, CutCheckout(c)
        PROVE  TypeOK'
    BY <2>6 DEF CutCheckout, CheckoutCall, evidence
  <2>7. ASSUME NEW o \in OrderIds, NEW u \in Users, NEW f \in SUBSET Files,
              SaveDelivery(o, u, f)
        PROVE  TypeOK'
    <3>1. orders[o] \in OrderRow
      BY <2>7 DEF SaveDelivery, Exists
    <3>2. [orders[o] EXCEPT !.status = "delivered", !.delivered_at = TRUE] \in OrderRow
      BY <3>1 DEF OrderRow, Statuses
    <3>3. orders' \in [OrderIds -> OrderRow \cup {Null}]
      BY <2>7, <3>2, PutRow DEF SaveDelivery
    <3> QED
      BY <2>7, <3>3 DEF SaveDelivery, payment
  <2>8. ASSUME NEW o \in OrderIds, NEW u \in Users,
              RequestRevision(o, u)
        PROVE  TypeOK'
    <3>1. orders[o] \in OrderRow
      BY <2>8 DEF RequestRevision, Exists
    <3> DEFINE n == orders[o].revision_count_used + 1
    <3>0. n \in Nat
      BY <3>1 DEF OrderRow
    <3>2. [orders[o] EXCEPT !.status = "revision_requested",
                             !.revision_count_used = n] \in OrderRow
      <4> HIDE DEF n
      <4> QED
        BY <3>0, <3>1 DEF OrderRow, Statuses
    <3>3. orders' \in [OrderIds -> OrderRow \cup {Null}]
      BY <2>8, <3>2, PutRow DEF RequestRevision
    <3> QED
      BY <2>8, <3>3 DEF RequestRevision, payment
  <2>9. ASSUME NEW o \in OrderIds, NEW u \in Users,
              OpenDispute(o, u)
        PROVE  TypeOK'
    <3>1. orders[o] \in OrderRow
      BY <2>9 DEF OpenDispute, Exists
    <3>2. [orders[o] EXCEPT !.status = "disputed", !.disputed_at = TRUE] \in OrderRow
      BY <3>1 DEF OrderRow, Statuses
    <3>3. orders' \in [OrderIds -> OrderRow \cup {Null}]
      BY <2>9, <3>2, PutRow DEF OpenDispute
    <3>4. [buyer |-> orders[o].buyer, initiator |-> u,
           role |-> InitiatorRole(orders[o], u)] \in DisputeRow
      BY <3>1 DEF OrderRow, DisputeRow, InitiatorRole
    <3>5. disputes' \in [OrderIds -> DisputeRow \cup {Null}]
      BY <2>9, <3>4 DEF OpenDispute
    <3> QED
      BY <2>9, <3>3, <3>5 DEF OpenDispute, payment
  <2>10. ASSUME NEW o \in OrderIds, NEW r \in Releases \cup {Null},
              MarkReleasePending(o, r)
        PROVE  TypeOK'
    <3>1. orders[o] \in OrderRow
      BY <2>10 DEF MarkReleasePending, Exists
    <3>2. [orders[o] EXCEPT !.status = "release_pending", !.release = r] \in OrderRow
      BY <3>1 DEF OrderRow, Statuses
    <3>3. orders' \in [OrderIds -> OrderRow \cup {Null}]
      BY <2>10, <3>2, PutRow DEF MarkReleasePending
    <3> QED
      BY <2>10, <3>3 DEF MarkReleasePending, evidence, payment
  <2>11. ASSUME NEW o \in OrderIds, NEW r \in Releases \cup {Null},
              MarkCompleted(o, r)
        PROVE  TypeOK'
    <3>1. orders[o] \in OrderRow
      BY <2>11 DEF MarkCompleted, Exists
    <3>2. [orders[o] EXCEPT !.status = "completed", !.release = r,
                             !.completed_at = TRUE] \in OrderRow
      BY <3>1 DEF OrderRow, Statuses
    <3>3. orders' \in [OrderIds -> OrderRow \cup {Null}]
      BY <2>11, <3>2, PutRow DEF MarkCompleted
    <3> QED
      BY <2>11, <3>3 DEF MarkCompleted, evidence, payment
  <2>12. ASSUME NEW o \in OrderIds, NEW r \in Releases \cup {Null},
              MarkDisputeResolved(o, r)
        PROVE  TypeOK'
    <3>1. orders[o] \in OrderRow
      BY <2>12 DEF MarkDisputeResolved, Exists
    <3>2. [orders[o] EXCEPT !.status = "dispute_resolved", !.release = r] \in OrderRow
      BY <3>1 DEF OrderRow, Statuses
    <3>3. orders' \in [OrderIds -> OrderRow \cup {Null}]
      BY <2>12, <3>2, PutRow DEF MarkDisputeResolved
    <3> QED
      BY <2>12, <3>3 DEF MarkDisputeResolved, evidence, payment
  <2>13. ASSUME NEW o \in OrderIds, NEW r \in Reasons,
              MarkReleaseFailed(o, r)
        PROVE  TypeOK'
    <3>1. orders[o] \in OrderRow
      BY <2>13 DEF MarkReleaseFailed, Exists
    <3>2. [orders[o] EXCEPT !.status = "release_failed", !.reason = r] \in OrderRow
      BY <3>1 DEF OrderRow, Statuses
    <3>3. orders' \in [OrderIds -> OrderRow \cup {Null}]
      BY <2>13, <3>2, PutRow DEF MarkReleaseFailed
    <3> QED
      BY <2>13, <3>3 DEF MarkReleaseFailed, evidence, payment
  <2>14. CASE UNCHANGED vars
    BY <2>14 DEF vars, evidence, payment
  <2> QED
    BY <2>1, <2>2, <2>3, <2>4, <2>5, <2>6, <2>7, <2>8, <2>9, <2>10, <2>11,
       <2>12, <2>13, <2>14 DEF Next
<1> QED
  BY <1>1, <1>2, PTL DEF Spec

-----------------------------------------------------------------------------
(***************************************************************************)
(* The safety invariants.  RowsInv is inductive as it stands, but for the  *)
(* checkout rows: that a checkout session has an order needs that a call   *)
(* between its two statements has one.                                     *)
(***************************************************************************)

CallsHaveOrder ==
  \A c \in Calls : calls[c] # Null => Exists(calls[c].order)

RowsInv ==
  /\ EvidenceMatchesRow
  /\ StatusBacked
  /\ PartiesAgree
  /\ OneOrderPerKey

IInv == TypeOK /\ RowsInv /\ CallsHaveOrder

(* A transition that rewrites only status, intent, release, reason or      *)
(* completed_at of an existing order preserves RowsInv if the new row      *)
(* backs its new status.                                                   *)
LEMMA RowChange ==
  ASSUME TypeOK, RowsInv, NEW o \in OrderIds, Exists(o), NEW row \in OrderRow,
         row.buyer = orders[o].buyer, row.key = orders[o].key,
         row.delivered_at = orders[o].delivered_at,
         row.disputed_at = orders[o].disputed_at,
         row.revision_count_used = orders[o].revision_count_used,
         RowBacked(row),
         orders' = [orders EXCEPT ![o] = row],
         UNCHANGED <<snapshot, checkout, evidence>>
  PROVE  RowsInv'
<1> USE NullAssumption
<1>1. /\ orders'[o] = row
      /\ \A p \in OrderIds \ {o} : orders'[p] = orders[p]
      /\ row # Null
  BY DEF TypeOK
<1>2. EvidenceMatchesRow'
  BY <1>1 DEF RowsInv, EvidenceMatchesRow, Exists, evidence
<1>3. StatusBacked'
  <2> SUFFICES ASSUME NEW p \in OrderIds, Exists(p)'
               PROVE  RowBacked(orders'[p])
    BY DEF StatusBacked
  <2>1. CASE p = o
    BY <2>1, <1>1
  <2>2. CASE p # o
    BY <2>2, <1>1 DEF RowsInv, StatusBacked, Exists
  <2> QED
    BY <2>1, <2>2
<1>4. PartiesAgree'
  BY <1>1 DEF RowsInv, PartiesAgree, EvidenceMatchesRow, Exists, evidence
<1>5. OneOrderPerKey'
  BY <1>1 DEF RowsInv, OneOrderPerKey, Exists
<1> QED
  BY <1>2, <1>3, <1>4, <1>5 DEF RowsInv

(* The step of the safety invariant. *)
LEMMA IInvStep == IInv /\ TypeOK' /\ [Next]_vars => IInv'
<1> SUFFICES ASSUME IInv, TypeOK', [Next]_vars
             PROVE  RowsInv' /\ CallsHaveOrder'
  BY DEF IInv
<1> USE NullAssumption, CreatesAssumption DEF IInv
<1>1. CASE Next
  <2>1. ASSUME NEW cmd \in Creates, Create(cmd)
        PROVE  RowsInv' /\ CallsHaveOrder'
    <3> DEFINE o == cmd.order
               row == InsertedOrder(cmd)
    <3>1. cmd \in CreateCommand /\ o \in OrderIds /\ cmd.gig \in Gigs
      BY DEF CreateCommand
    <3>2. /\ orders' = [orders EXCEPT ![o] = row]
          /\ snapshot' = [snapshot EXCEPT ![o] = cmd.gig]
          /\ UNCHANGED <<checkout, deliveries, files, revisions, disputes, calls>>
      BY <2>1 DEF Create, evidence, payment
    <3>3. CASE Exists(o)
      <4>1. row = orders[o]
        BY <3>3 DEF InsertedOrder
      <4>2. orders' = orders
        BY <3>1, <3>2, <4>1 DEF TypeOK
      <4>3. EvidenceMatchesRow'
        BY <3>1, <3>2, <3>3, <4>2 DEF RowsInv, EvidenceMatchesRow, Exists, TypeOK
      <4> QED
        BY <3>2, <4>2, <4>3 DEF RowsInv, StatusBacked, PartiesAgree,
           OneOrderPerKey, CallsHaveOrder, Exists
    <3>4. CASE ~Exists(o)
      <4>1. row = NewOrder(cmd) /\ KeyIsFree(cmd)
        BY <2>1, <3>4 DEF InsertedOrder, Create
      <4>2. /\ row.key = cmd.key /\ row.status = "requirements_pending"
            /\ ~row.delivered_at /\ ~row.disputed_at
            /\ row.revision_count_used = 0
            /\ row \in OrderRow
        BY <3>1, <4>1 DEF NewOrder, OrderRow, CreateCommand, Statuses
      <4> HIDE DEF row, o
      <4>3. /\ orders'[o] = row /\ row # Null
            /\ \A p \in OrderIds \ {o} : orders'[p] = orders[p]
        BY <3>1, <3>2, <4>2 DEF TypeOK
      <4>4. EvidenceMatchesRow'
        BY <3>1, <3>2, <3>4, <4>2, <4>3
           DEF RowsInv, EvidenceMatchesRow, Exists, TypeOK
      <4>5. StatusBacked'
        BY <4>2, <4>3 DEF RowsInv, StatusBacked, RowBacked, Exists
      <4>6. PartiesAgree'
        BY <3>2, <3>4, <4>3 DEF RowsInv, PartiesAgree, EvidenceMatchesRow, Exists
      <4>7. OneOrderPerKey'
        BY <4>1, <4>2, <4>3 DEF RowsInv, OneOrderPerKey, KeyIsFree, Exists
      <4>8. CallsHaveOrder'
        BY <3>2, <4>3 DEF CallsHaveOrder, Exists, TypeOK, CheckoutCall
      <4> QED
        BY <4>4, <4>5, <4>6, <4>7, <4>8 DEF RowsInv
    <3> QED
      BY <3>3, <3>4
  <2>2. ASSUME NEW o \in OrderIds, NEW i \in Intents,
              MarkFunded(o, i)
        PROVE  RowsInv' /\ CallsHaveOrder'
    <3> DEFINE row == [orders[o] EXCEPT !.status = "funded", !.intent = i]
    <3>1. Exists(o) /\ orders[o] \in OrderRow
      BY <2>2 DEF MarkFunded, Exists, TypeOK
    <3>2. /\ row \in OrderRow
          /\ row.buyer = orders[o].buyer /\ row.key = orders[o].key
          /\ row.delivered_at = orders[o].delivered_at
          /\ row.disputed_at = orders[o].disputed_at
          /\ row.revision_count_used = orders[o].revision_count_used
          /\ RowBacked(row)
      BY <3>1 DEF OrderRow, Statuses, RowBacked
    <3>3. orders' = [orders EXCEPT ![o] = row]
      BY <2>2 DEF MarkFunded
    <3> HIDE DEF row
    <3>4. RowsInv'
      BY <2>2, <3>1, <3>2, <3>3, RowChange DEF MarkFunded, evidence, payment
    <3>5. CallsHaveOrder'
      BY <2>2, <3>1, <3>2, <3>3 DEF MarkFunded, CallsHaveOrder, Exists, TypeOK,
         CheckoutCall, payment
    <3> QED
      BY <3>4, <3>5
  <2>3. ASSUME NEW o \in OrderIds, NEW r \in Reasons,
              MarkFailed(o, r)
        PROVE  RowsInv' /\ CallsHaveOrder'
    <3> DEFINE row == [orders[o] EXCEPT !.status = "failed", !.reason = r]
    <3>1. Exists(o) /\ orders[o] \in OrderRow
      BY <2>3 DEF MarkFailed, Exists, TypeOK
    <3>2. /\ row \in OrderRow
          /\ row.buyer = orders[o].buyer /\ row.key = orders[o].key
          /\ row.delivered_at = orders[o].delivered_at
          /\ row.disputed_at = orders[o].disputed_at
          /\ row.revision_count_used = orders[o].revision_count_used
          /\ RowBacked(row)
      BY <3>1 DEF OrderRow, Statuses, RowBacked
    <3>3. orders' = [orders EXCEPT ![o] = row]
      BY <2>3 DEF MarkFailed
    <3> HIDE DEF row
    <3>4. RowsInv'
      BY <2>3, <3>1, <3>2, <3>3, RowChange DEF MarkFailed, evidence, payment
    <3>5. CallsHaveOrder'
      BY <2>3, <3>1, <3>2, <3>3 DEF MarkFailed, CallsHaveOrder, Exists, TypeOK,
         CheckoutCall, payment
    <3> QED
      BY <3>4, <3>5
  <2>4. ASSUME NEW c \in Calls, NEW o \in OrderIds, NEW i \in Intents,
              BeginCheckout(c, o, i)
        PROVE  RowsInv' /\ CallsHaveOrder'
    <3> DEFINE row == [orders[o] EXCEPT !.status = "payment_pending", !.intent = i]
    <3>1. Exists(o) /\ orders[o] \in OrderRow
      BY <2>4 DEF BeginCheckout, Exists, TypeOK
    <3>2. /\ row \in OrderRow
          /\ row.buyer = orders[o].buyer /\ row.key = orders[o].key
          /\ row.delivered_at = orders[o].delivered_at
          /\ row.disputed_at = orders[o].disputed_at
          /\ row.revision_count_used = orders[o].revision_count_used
          /\ RowBacked(row)
      BY <3>1 DEF OrderRow, Statuses, RowBacked
    <3>3. orders' = [orders EXCEPT ![o] = row]
      BY <2>4 DEF BeginCheckout
    <3> HIDE DEF row
    <3>4. RowsInv'
      BY <2>4, <3>1, <3>2, <3>3, RowChange DEF BeginCheckout, evidence, payment
    <3>5. CallsHaveOrder'
      BY <2>4, <3>1, <3>2, <3>3 DEF BeginCheckout, CallsHaveOrder, Exists, TypeOK,
         CheckoutCall, payment
    <3> QED
      BY <3>4, <3>5
  <2>5. ASSUME NEW c \in Calls, EndCheckout(c)
        PROVE  RowsInv' /\ CallsHaveOrder'
    <3>1. calls[c].order \in OrderIds /\ Exists(calls[c].order)
      BY <2>5 DEF EndCheckout, CallsHaveOrder, TypeOK, CheckoutCall
    <3>2. EvidenceMatchesRow'
      BY <2>5, <3>1 DEF EndCheckout, RowsInv, EvidenceMatchesRow, Exists,
         evidence, TypeOK
    <3> QED
      BY <2>5, <3>2 DEF EndCheckout, RowsInv, StatusBacked, PartiesAgree,
         OneOrderPerKey, CallsHaveOrder, Exists, evidence, TypeOK
  <2>6. ASSUME NEW c \in Calls, CutCheckout(c)
        PROVE  RowsInv' /\ CallsHaveOrder'
    BY <2>6 DEF CutCheckout, RowsInv, EvidenceMatchesRow, StatusBacked,
       PartiesAgree, OneOrderPerKey, CallsHaveOrder, Exists, evidence, TypeOK
  <2>7. ASSUME NEW o \in OrderIds, NEW u \in Users, NEW f \in SUBSET Files,
              SaveDelivery(o, u, f)
        PROVE  RowsInv' /\ CallsHaveOrder'
    <3> DEFINE row == [orders[o] EXCEPT !.status = "delivered", !.delivered_at = TRUE]
    <3>1. Exists(o) /\ orders[o] \in OrderRow
      BY <2>7 DEF SaveDelivery, Exists, TypeOK
    <3>2. /\ row \in OrderRow
          /\ row.buyer = orders[o].buyer /\ row.key = orders[o].key
          /\ row.delivered_at
          /\ row.disputed_at = orders[o].disputed_at
          /\ row.revision_count_used = orders[o].revision_count_used
          /\ RowBacked(row)
      BY <3>1 DEF OrderRow, Statuses, RowBacked
    <3>3. orders' = [orders EXCEPT ![o] = row]
      BY <2>7 DEF SaveDelivery
    <3> HIDE DEF row
    <3>4. /\ orders'[o] = row /\ row # Null
          /\ \A p \in OrderIds \ {o} : orders'[p] = orders[p]
      BY <3>2, <3>3 DEF TypeOK
    <3>5. /\ deliveries'[o] = u /\ u # Null
          /\ \A p \in OrderIds \ {o} : /\ deliveries'[p] = deliveries[p]
                                      /\ files'[p] = files[p]
      BY <2>7 DEF SaveDelivery, TypeOK
    <3>6. EvidenceMatchesRow'
      BY <2>7, <3>1, <3>2, <3>4, <3>5
         DEF SaveDelivery, RowsInv, EvidenceMatchesRow, Exists, TypeOK, payment
    <3>7. StatusBacked'
      BY <3>2, <3>4 DEF RowsInv, StatusBacked, Exists
    <3>8. PartiesAgree'
      BY <2>7, <3>1, <3>2, <3>4, <3>5
         DEF SaveDelivery, RowsInv, PartiesAgree, EvidenceMatchesRow, Exists
    <3>9. OneOrderPerKey'
      BY <3>1, <3>2, <3>4 DEF RowsInv, OneOrderPerKey, Exists
    <3>10. CallsHaveOrder'
      BY <2>7, <3>4 DEF SaveDelivery, CallsHaveOrder, Exists, TypeOK,
         CheckoutCall, payment
    <3> QED
      BY <3>6, <3>7, <3>8, <3>9, <3>10 DEF RowsInv
  <2>8. ASSUME NEW o \in OrderIds, NEW u \in Users,
              RequestRevision(o, u)
        PROVE  RowsInv' /\ CallsHaveOrder'
    <3> DEFINE n == orders[o].revision_count_used + 1
               row == [orders[o] EXCEPT !.status = "revision_requested",
                                        !.revision_count_used = n]
    <3>1. Exists(o) /\ orders[o] \in OrderRow
      BY <2>8 DEF RequestRevision, Exists, TypeOK
    <3>0. n \in Nat /\ n > 0
      BY <3>1 DEF OrderRow
    <3>2. /\ row \in OrderRow
          /\ row.buyer = orders[o].buyer /\ row.key = orders[o].key
          /\ row.delivered_at = orders[o].delivered_at
          /\ row.disputed_at = orders[o].disputed_at
          /\ row.revision_count_used > 0
          /\ RowBacked(row)
      <4> HIDE DEF n
      <4> QED
        BY <3>0, <3>1 DEF OrderRow, Statuses, RowBacked
    <3>3. orders' = [orders EXCEPT ![o] = row]
      BY <2>8 DEF RequestRevision
    <3> HIDE DEF n, row
    <3>4. /\ orders'[o] = row /\ row # Null
          /\ \A p \in OrderIds \ {o} : orders'[p] = orders[p]
      BY <3>2, <3>3 DEF TypeOK
    <3>5. /\ revisions'[o] = u /\ u # Null /\ u = orders[o].buyer
          /\ \A p \in OrderIds \ {o} : revisions'[p] = revisions[p]
      BY <2>8 DEF RequestRevision, TypeOK
    <3>6. EvidenceMatchesRow'
      <4> SUFFICES ASSUME NEW p \in OrderIds
                   PROVE  EvidenceMatchesRow!(p)'
        BY DEF EvidenceMatchesRow
      <4>1. CASE p = o
        BY <2>8, <3>1, <3>2, <3>4, <3>5, <4>1
           DEF RequestRevision, RowsInv, EvidenceMatchesRow, Exists, payment
      <4>2. CASE p # o
        BY <2>8, <3>4, <3>5, <4>2
           DEF RequestRevision, RowsInv, EvidenceMatchesRow, Exists, payment
      <4> QED
        BY <4>1, <4>2
    <3>7. StatusBacked'
      BY <3>2, <3>4 DEF RowsInv, StatusBacked, Exists
    <3>8. PartiesAgree'
      BY <2>8, <3>1, <3>2, <3>4, <3>5
         DEF RequestRevision, RowsInv, PartiesAgree, EvidenceMatchesRow, Exists
    <3>9. OneOrderPerKey'
      BY <3>1, <3>2, <3>4 DEF RowsInv, OneOrderPerKey, Exists
    <3>10. CallsHaveOrder'
      BY <2>8, <3>4 DEF RequestRevision, CallsHaveOrder, Exists, TypeOK,
         CheckoutCall, payment
    <3> QED
      BY <3>6, <3>7, <3>8, <3>9, <3>10 DEF RowsInv
  <2>9. ASSUME NEW o \in OrderIds, NEW u \in Users,
              OpenDispute(o, u)
        PROVE  RowsInv' /\ CallsHaveOrder'
    <3> DEFINE row == [orders[o] EXCEPT !.status = "disputed", !.disputed_at = TRUE]
    <3>1. Exists(o) /\ orders[o] \in OrderRow
      BY <2>9 DEF OpenDispute, Exists, TypeOK
    <3>2. /\ row \in OrderRow
          /\ row.buyer = orders[o].buyer /\ row.key = orders[o].key
          /\ row.delivered_at = orders[o].delivered_at
          /\ row.disputed_at
          /\ row.revision_count_used = orders[o].revision_count_used
          /\ RowBacked(row)
      BY <3>1 DEF OrderRow, Statuses, RowBacked
    <3>3. orders' = [orders EXCEPT ![o] = row]
      BY <2>9 DEF OpenDispute
    <3> HIDE DEF row
    <3>4. /\ orders'[o] = row /\ row # Null
          /\ \A p \in OrderIds \ {o} : orders'[p] = orders[p]
      BY <3>2, <3>3 DEF TypeOK
    <3>5. /\ disputes'[o] # Null
          /\ disputes'[o].buyer = orders[o].buyer
          /\ disputes'[o].role = "buyer"
               <=> disputes'[o].initiator = orders[o].buyer
          /\ \A p \in OrderIds \ {o} : disputes'[p] = disputes[p]
      <4>1. [buyer |-> orders[o].buyer, initiator |-> u,
             role |-> InitiatorRole(orders[o], u)] \in DisputeRow
        BY <3>1 DEF OrderRow, DisputeRow, InitiatorRole
      <4> QED
        BY <2>9, <4>1 DEF OpenDispute, InitiatorRole, TypeOK
    <3>6. EvidenceMatchesRow'
      BY <2>9, <3>1, <3>2, <3>4, <3>5
         DEF OpenDispute, RowsInv, EvidenceMatchesRow, Exists, TypeOK, payment
    <3>7. StatusBacked'
      BY <3>2, <3>4 DEF RowsInv, StatusBacked, Exists
    <3>8. PartiesAgree'
      BY <2>9, <3>1, <3>2, <3>4, <3>5
         DEF OpenDispute, RowsInv, PartiesAgree, EvidenceMatchesRow, Exists
    <3>9. OneOrderPerKey'
      BY <3>1, <3>2, <3>4 DEF RowsInv, OneOrderPerKey, Exists
    <3>10. CallsHaveOrder'
      BY <2>9, <3>4 DEF OpenDispute, CallsHaveOrder, Exists, TypeOK,
         CheckoutCall, payment
    <3> QED
      BY <3>6, <3>7, <3>8, <3>9, <3>10 DEF RowsInv
  <2>10. ASSUME NEW o \in OrderIds, NEW r \in Releases \cup {Null},
              MarkReleasePending(o, r)
        PROVE  RowsInv' /\ CallsHaveOrder'
    <3> DEFINE row == [orders[o] EXCEPT !.status = "release_pending", !.release = r]
    <3>1. Exists(o) /\ orders[o] \in OrderRow
      BY <2>10 DEF MarkReleasePending, Exists, TypeOK
    <3>2. /\ row \in OrderRow
          /\ row.buyer = orders[o].buyer /\ row.key = orders[o].key
          /\ row.delivered_at = orders[o].delivered_at
          /\ row.disputed_at = orders[o].disputed_at
          /\ row.revision_count_used = orders[o].revision_count_used
          /\ RowBacked(row)
      BY <3>1 DEF OrderRow, Statuses, RowBacked
    <3>3. orders' = [orders EXCEPT ![o] = row]
      BY <2>10 DEF MarkReleasePending
    <3> HIDE DEF row
    <3>4. RowsInv'
      BY <2>10, <3>1, <3>2, <3>3, RowChange DEF MarkReleasePending, evidence, payment
    <3>5. CallsHaveOrder'
      BY <2>10, <3>1, <3>2, <3>3 DEF MarkReleasePending, CallsHaveOrder, Exists, TypeOK,
         CheckoutCall, payment
    <3> QED
      BY <3>4, <3>5
  <2>11. ASSUME NEW o \in OrderIds, NEW r \in Releases \cup {Null},
              MarkCompleted(o, r)
        PROVE  RowsInv' /\ CallsHaveOrder'
    <3> DEFINE row == [orders[o] EXCEPT !.status = "completed", !.release = r,
                                       !.completed_at = TRUE]
    <3>1. Exists(o) /\ orders[o] \in OrderRow
      BY <2>11 DEF MarkCompleted, Exists, TypeOK
    <3>2. /\ row \in OrderRow
          /\ row.buyer = orders[o].buyer /\ row.key = orders[o].key
          /\ row.delivered_at = orders[o].delivered_at
          /\ row.disputed_at = orders[o].disputed_at
          /\ row.revision_count_used = orders[o].revision_count_used
          /\ RowBacked(row)
      BY <3>1 DEF OrderRow, Statuses, RowBacked
    <3>3. orders' = [orders EXCEPT ![o] = row]
      BY <2>11 DEF MarkCompleted
    <3> HIDE DEF row
    <3>4. RowsInv'
      BY <2>11, <3>1, <3>2, <3>3, RowChange DEF MarkCompleted, evidence, payment
    <3>5. CallsHaveOrder'
      BY <2>11, <3>1, <3>2, <3>3 DEF MarkCompleted, CallsHaveOrder, Exists, TypeOK,
         CheckoutCall, payment
    <3> QED
      BY <3>4, <3>5
  <2>12. ASSUME NEW o \in OrderIds, NEW r \in Releases \cup {Null},
              MarkDisputeResolved(o, r)
        PROVE  RowsInv' /\ CallsHaveOrder'
    <3> DEFINE row == [orders[o] EXCEPT !.status = "dispute_resolved", !.release = r]
    <3>1. Exists(o) /\ orders[o] \in OrderRow
      BY <2>12 DEF MarkDisputeResolved, Exists, TypeOK
    <3>2. /\ row \in OrderRow
          /\ row.buyer = orders[o].buyer /\ row.key = orders[o].key
          /\ row.delivered_at = orders[o].delivered_at
          /\ row.disputed_at = orders[o].disputed_at
          /\ row.revision_count_used = orders[o].revision_count_used
          /\ RowBacked(row)
      BY <3>1 DEF OrderRow, Statuses, RowBacked
    <3>3. orders' = [orders EXCEPT ![o] = row]
      BY <2>12 DEF MarkDisputeResolved
    <3> HIDE DEF row
    <3>4. RowsInv'
      BY <2>12, <3>1, <3>2, <3>3, RowChange DEF MarkDisputeResolved, evidence, payment
    <3>5. CallsHaveOrder'
      BY <2>12, <3>1, <3>2, <3>3 DEF MarkDisputeResolved, CallsHaveOrder, Exists, TypeOK,
         CheckoutCall, payment
    <3> QED
      BY <3>4, <3>5
  <2>13. ASSUME NEW o \in OrderIds, NEW r \in Reasons,
              MarkReleaseFailed(o, r)
        PROVE  RowsInv' /\ CallsHaveOrder'
    <3> DEFINE row == [orders[o] EXCEPT !.status = "release_failed", !.reason = r]
    <3>1. Exists(o) /\ orders[o] \in OrderRow
      BY <2>13 DEF MarkReleaseFailed, Exists, TypeOK
    <3>2. /\ row \in OrderRow
          /\ row.buyer = orders[o].buyer /\ row.key = orders[o].key
          /\ row.delivered_at = orders[o].delivered_at
          /\ row.disputed_at = orders[o].disputed_at
          /\ row.revision_count_used = orders[o].revision_count_used
          /\ RowBacked(row)
      BY <3>1 DEF OrderRow, Statuses, RowBacked
    <3>3. orders' = [orders EXCEPT ![o] = row]
      BY <2>13 DEF MarkReleaseFailed
    <3> HIDE DEF row
    <3>4. RowsInv'
      BY <2>13, <3>1, <3>2, <3>3, RowChange DEF MarkReleaseFailed, evidence, payment
    <3>5. CallsHaveOrder'
      BY <2>13, <3>1, <3>2, <3>3 DEF MarkReleaseFailed, CallsHaveOrder, Exists, TypeOK,
         CheckoutCall, payment
    <3> QED
      BY <3>4, <3>5
  <2> QED
    BY <1>1, <2>1, <2>2, <2>3, <2>4, <2>5, <2>6, <2>7, <2>8, <2>9, <2>10,
       <2>11, <2>12, <2>13 DEF Next
<1>2. CASE UNCHANGED vars
  BY <1>2 DEF vars, evidence, payment, RowsInv, EvidenceMatchesRow,
     StatusBacked, PartiesAgree, OneOrderPerKey, CallsHaveOrder, Exists
<1> QED
  BY <1>1, <1>2

(* Whatever the saga calls, in whatever order and however often, RowsInv   *)
(* holds; the four theorems below are its conjuncts.                       *)
LEMMA RowsSafe == Spec => []RowsInv
<1>1. Init => IInv
  <2>1. Init => TypeOK
    BY DEF Init, TypeOK
  <2> QED
    BY <2>1 DEF Init, IInv, RowsInv, EvidenceMatchesRow, StatusBacked,
       PartiesAgree, OneOrderPerKey, CallsHaveOrder, Exists
<1>2. IInv => RowsInv
  BY DEF IInv
<1> QED
  BY <1>1, <1>2, TypeCorrect, IInvStep, PTL DEF Spec

(* The orders row and the evidence tables written in its transactions      *)
(* agree in both directions.                                               *)
THEOREM EvidenceAgrees == Spec => []EvidenceMatchesRow
<1>1. RowsInv => EvidenceMatchesRow
  BY DEF RowsInv
<1> QED
  BY <1>1, RowsSafe, PTL

(* No sequence of transitions leaves a status without the column that      *)
(* records the fact it claims.                                             *)
THEOREM StatusesBacked == Spec => []StatusBacked
<1>1. RowsInv => StatusBacked
  BY DEF RowsInv
<1> QED
  BY <1>1, RowsSafe, PTL

(* Revision requests and disputes name the parties of the order, although  *)
(* they copy them and the create command may be sent again.                *)
THEOREM EvidenceNamesParties == Spec => []PartiesAgree
<1>1. RowsInv => PartiesAgree
  BY DEF RowsInv
<1> QED
  BY <1>1, RowsSafe, PTL

(* Two orders never share an idempotency key.                              *)
THEOREM KeysIdentifyOrders == Spec => []OneOrderPerKey
<1>1. RowsInv => OneOrderPerKey
  BY DEF RowsInv
<1> QED
  BY <1>1, RowsSafe, PTL

-----------------------------------------------------------------------------
(***************************************************************************)
(* The checkout: two statements without a transaction.  As long as the     *)
(* calls of an order neither overlap nor are cut short, at most one is in  *)
(* flight, it carries the intent of the order, and the URL it stores last  *)
(* is the one of that intent.                                              *)
(***************************************************************************)

OneCallPerOrder ==
  \A c, d \in Calls :
    /\ calls[c] # Null /\ calls[d] # Null
    /\ calls[c].order = calls[d].order
    /\ calls[c].order \notin torn
    => c = d

CallCarriesIntent ==
  \A c \in Calls :
    /\ calls[c] # Null
    /\ calls[c].order \notin torn
    /\ orders[calls[c].order].status = "payment_pending"
    => orders[calls[c].order].intent = calls[c].intent

CheckoutInv ==
  OneCallPerOrder /\ CallCarriesIntent /\ CallsHaveOrder /\ CheckoutPaysIntent

(* A transition to another status says nothing about the checkout. *)
LEMMA LeavesPending ==
  ASSUME TypeOK, CheckoutInv, NEW o \in OrderIds, NEW row,
         row # Null, row.status # "payment_pending",
         orders' = [orders EXCEPT ![o] = row], UNCHANGED payment
  PROVE  CheckoutInv'
<1>1. /\ orders'[o] = row
      /\ \A p \in OrderIds \ {o} : orders'[p] = orders[p]
      /\ checkout' = checkout /\ calls' = calls /\ torn' = torn
  BY DEF TypeOK, payment
<1>2. \A c \in Calls : calls[c] # Null => calls[c].order \in OrderIds
  BY DEF TypeOK, CheckoutCall
<1>3. OneCallPerOrder'
  BY <1>1 DEF CheckoutInv, OneCallPerOrder
<1>4. CallCarriesIntent'
  BY <1>1, <1>2 DEF CheckoutInv, CallCarriesIntent
<1>5. CallsHaveOrder'
  BY <1>1, <1>2 DEF CheckoutInv, CallsHaveOrder, Exists
<1>6. CheckoutPaysIntent'
  BY <1>1 DEF CheckoutInv, CheckoutPaysIntent, Exists, InFlight
<1> QED
  BY <1>3, <1>4, <1>5, <1>6 DEF CheckoutInv

LEMMA CheckoutInvStep == TypeOK /\ CheckoutInv /\ [Next]_vars => CheckoutInv'
<1> SUFFICES ASSUME TypeOK, CheckoutInv, [Next]_vars
             PROVE  CheckoutInv'
  OBVIOUS
<1> USE NullAssumption, CreatesAssumption
<1>1. \A c \in Calls : calls[c] # Null =>
        /\ calls[c].order \in OrderIds /\ calls[c].intent \in Intents
        /\ Exists(calls[c].order)
  BY DEF TypeOK, CheckoutCall, CheckoutInv, CallsHaveOrder
<1>2. CASE Next
  <2>1. ASSUME NEW cmd \in Creates, Create(cmd)
        PROVE  CheckoutInv'
    <3>1. /\ cmd \in CreateCommand /\ cmd.order \in OrderIds
          /\ orders' = [orders EXCEPT ![cmd.order] = InsertedOrder(cmd)]
          /\ UNCHANGED payment
      BY <2>1 DEF Create, CreateCommand
    <3>2. CASE Exists(cmd.order)
      <4>1. orders' = orders
        BY <3>1, <3>2 DEF InsertedOrder, TypeOK
      <4> QED
        BY <3>1, <4>1 DEF payment, CheckoutInv, OneCallPerOrder,
           CallCarriesIntent, CallsHaveOrder, CheckoutPaysIntent, Exists, InFlight
    <3>3. CASE ~Exists(cmd.order)
      <4>1. InsertedOrder(cmd) = NewOrder(cmd)
        BY <3>3 DEF InsertedOrder
      <4>2. NewOrder(cmd).status # "payment_pending"
        BY DEF NewOrder
      <4>3. NewOrder(cmd) # Null
        <5>1. NewOrder(cmd) \in OrderRow
          BY <3>1 DEF NewOrder, OrderRow, CreateCommand, Statuses
        <5> QED
          BY <5>1
      <4> QED
        BY <3>1, <4>1, <4>2, <4>3, LeavesPending
    <3> QED
      BY <3>2, <3>3
  <2>2. ASSUME NEW o \in OrderIds, NEW i \in Intents,
              MarkFunded(o, i)
        PROVE  CheckoutInv'
    <3> DEFINE row == [orders[o] EXCEPT !.status = "funded", !.intent = i]
    <3>1. orders[o] \in OrderRow
      BY <2>2 DEF MarkFunded, Exists, TypeOK
    <3>2. row \in OrderRow /\ row.status # "payment_pending"
      BY <3>1 DEF OrderRow, Statuses
    <3>3. orders' = [orders EXCEPT ![o] = row] /\ UNCHANGED payment
      BY <2>2 DEF MarkFunded
    <3> HIDE DEF row
    <3> QED
      BY <3>2, <3>3, LeavesPending
  <2>3. ASSUME NEW o \in OrderIds, NEW r \in Reasons,
              MarkFailed(o, r)
        PROVE  CheckoutInv'
    <3> DEFINE row == [orders[o] EXCEPT !.status = "failed", !.reason = r]
    <3>1. orders[o] \in OrderRow
      BY <2>3 DEF MarkFailed, Exists, TypeOK
    <3>2. row \in OrderRow /\ row.status # "payment_pending"
      BY <3>1 DEF OrderRow, Statuses
    <3>3. orders' = [orders EXCEPT ![o] = row] /\ UNCHANGED payment
      BY <2>3 DEF MarkFailed
    <3> HIDE DEF row
    <3> QED
      BY <3>2, <3>3, LeavesPending
  <2>4. ASSUME NEW c \in Calls, NEW o \in OrderIds, NEW i \in Intents,
               BeginCheckout(c, o, i)
        PROVE  CheckoutInv'
    <3> DEFINE row == [orders[o] EXCEPT !.status = "payment_pending", !.intent = i]
    <3>1. orders[o] \in OrderRow
      BY <2>4 DEF BeginCheckout, Exists, TypeOK
    <3>2. row \in OrderRow /\ row.intent = i
      <4>1. i \in Intents \cup {Null}
        OBVIOUS
      <4>2. row \in OrderRow
        BY <3>1, <4>1 DEF OrderRow, Statuses
      <4>3. row.intent = i
        BY <3>1 DEF OrderRow
      <4> QED
        BY <4>2, <4>3
    <3>3. orders' = [orders EXCEPT ![o] = row]
      BY <2>4 DEF BeginCheckout
    <3> HIDE DEF row
    <3>4. /\ orders'[o] = row /\ row # Null
          /\ \A p \in OrderIds \ {o} : orders'[p] = orders[p]
      BY <3>2, <3>3 DEF TypeOK
    <3>5. [order |-> o, intent |-> i] \in CheckoutCall
      BY DEF CheckoutCall
    <3>6. /\ calls'[c] # Null /\ calls'[c].order = o /\ calls'[c].intent = i
          /\ \A d \in Calls \ {c} : calls'[d] = calls[d]
      BY <2>4, <3>5 DEF BeginCheckout, TypeOK
    <3>7. /\ torn \subseteq torn' /\ torn' \subseteq torn \cup {o}
          /\ InFlight(o) => o \in torn'
          /\ checkout' = checkout
      BY <2>4 DEF BeginCheckout
    <3>8. OneCallPerOrder'
      BY <3>6, <3>7 DEF CheckoutInv, OneCallPerOrder, InFlight
    <3>9. CallCarriesIntent'
      <4> SUFFICES ASSUME NEW d \in Calls, calls'[d] # Null,
                          calls'[d].order \notin torn',
                          orders'[calls'[d].order].status = "payment_pending"
                   PROVE  orders'[calls'[d].order].intent = calls'[d].intent
        BY DEF CallCarriesIntent
      <4>1. CASE d = c
        BY <3>2, <3>4, <3>6, <4>1
      <4>2. CASE d # c
        <5>1. calls'[d] = calls[d] /\ calls[d].order # o
          BY <3>6, <3>7, <4>2 DEF InFlight
        <5> QED
          BY <1>1, <3>4, <3>7, <5>1 DEF CheckoutInv, CallCarriesIntent
      <4> QED
        BY <4>1, <4>2
    <3>10. CallsHaveOrder'
      <4> SUFFICES ASSUME NEW d \in Calls, calls'[d] # Null
                   PROVE  orders'[calls'[d].order] # Null
        BY DEF CallsHaveOrder, Exists
      <4>1. CASE d = c
        BY <3>4, <3>6, <4>1 DEF Exists
      <4>2. CASE d # c
        BY <1>1, <3>4, <3>6, <4>2 DEF Exists
      <4> QED
        BY <4>1, <4>2
    <3>11. CheckoutPaysIntent'
      <4> SUFFICES ASSUME NEW p \in OrderIds, Exists(p)',
                          orders'[p].status = "payment_pending",
                          ~InFlight(p)', p \notin torn'
                   PROVE  checkout'[p] = orders'[p].intent
        BY DEF CheckoutPaysIntent
      <4>1. p # o
        BY <3>6 DEF InFlight
      <4>2. ~InFlight(p)
        BY <2>4, <3>6 DEF InFlight, BeginCheckout
      <4> QED
        BY <3>4, <3>7, <4>1, <4>2 DEF CheckoutInv, CheckoutPaysIntent, Exists
    <3> QED
      BY <3>8, <3>9, <3>10, <3>11 DEF CheckoutInv
  <2>5. ASSUME NEW c \in Calls, EndCheckout(c)
        PROVE  CheckoutInv'
    <3> DEFINE o == calls[c].order
    <3>1. /\ calls[c] # Null /\ o \in OrderIds
          /\ orders' = orders /\ torn' = torn
          /\ calls' = [calls EXCEPT ![c] = Null]
          /\ checkout' = [checkout EXCEPT ![o] = calls[c].intent]
      BY <1>1, <2>5 DEF EndCheckout
    <3>2. \A d \in Calls : calls'[d] # Null => d # c /\ calls'[d] = calls[d]
      BY <3>1 DEF TypeOK
    <3>3. OneCallPerOrder' /\ CallCarriesIntent' /\ CallsHaveOrder'
      BY <3>1, <3>2 DEF CheckoutInv, OneCallPerOrder, CallCarriesIntent,
         CallsHaveOrder, Exists
    <3>4. CheckoutPaysIntent'
      <4> SUFFICES ASSUME NEW p \in OrderIds, Exists(p),
                          orders[p].status = "payment_pending",
                          ~InFlight(p)', p \notin torn
                   PROVE  checkout'[p] = orders[p].intent
        BY <3>1 DEF CheckoutPaysIntent, Exists
      <4>1. CASE p = o
        BY <3>1, <4>1 DEF CheckoutInv, CallCarriesIntent, TypeOK
      <4>2. CASE p # o
        <5>1. ~InFlight(p)
          BY <3>1, <4>2 DEF InFlight, TypeOK
        <5> QED
          BY <3>1, <4>2, <5>1 DEF CheckoutInv, CheckoutPaysIntent, TypeOK
      <4> QED
        BY <4>1, <4>2
    <3> QED
      BY <3>3, <3>4 DEF CheckoutInv
  <2>6. ASSUME NEW c \in Calls, CutCheckout(c)
        PROVE  CheckoutInv'
    <3> DEFINE o == calls[c].order
    <3>1. /\ orders' = orders /\ checkout' = checkout
          /\ torn' = torn \cup {o}
          /\ calls' = [calls EXCEPT ![c] = Null]
      BY <2>6 DEF CutCheckout
    <3>2. \A d \in Calls : calls'[d] # Null => d # c /\ calls'[d] = calls[d]
      BY <3>1 DEF TypeOK
    <3>3. OneCallPerOrder' /\ CallCarriesIntent' /\ CallsHaveOrder'
      BY <3>1, <3>2 DEF CheckoutInv, OneCallPerOrder, CallCarriesIntent,
         CallsHaveOrder, Exists
    <3>4. CheckoutPaysIntent'
      <4> SUFFICES ASSUME NEW p \in OrderIds, Exists(p),
                          orders[p].status = "payment_pending",
                          ~InFlight(p)', p \notin torn \cup {o}
                   PROVE  checkout[p] = orders[p].intent
        BY <3>1 DEF CheckoutPaysIntent, Exists
      <4>1. ~InFlight(p)
        BY <3>1 DEF InFlight, TypeOK
      <4> QED
        BY <4>1 DEF CheckoutInv, CheckoutPaysIntent
    <3> QED
      BY <3>3, <3>4 DEF CheckoutInv
  <2>7. ASSUME NEW o \in OrderIds, NEW u \in Users, NEW f \in SUBSET Files,
              SaveDelivery(o, u, f)
        PROVE  CheckoutInv'
    <3> DEFINE row == [orders[o] EXCEPT !.status = "delivered", !.delivered_at = TRUE]
    <3>1. orders[o] \in OrderRow
      BY <2>7 DEF SaveDelivery, Exists, TypeOK
    <3>2. row \in OrderRow /\ row.status # "payment_pending"
      BY <3>1 DEF OrderRow, Statuses
    <3>3. orders' = [orders EXCEPT ![o] = row] /\ UNCHANGED payment
      BY <2>7 DEF SaveDelivery
    <3> HIDE DEF row
    <3> QED
      BY <3>2, <3>3, LeavesPending
  <2>8. ASSUME NEW o \in OrderIds, NEW u \in Users,
              RequestRevision(o, u)
        PROVE  CheckoutInv'
    <3> DEFINE n == orders[o].revision_count_used + 1
               row == [orders[o] EXCEPT !.status = "revision_requested",
                                        !.revision_count_used = n]
    <3>1. orders[o] \in OrderRow
      BY <2>8 DEF RequestRevision, Exists, TypeOK
    <3>2. n \in Nat
      BY <3>1 DEF OrderRow
    <3>3. row \in OrderRow /\ row.status # "payment_pending"
      <4> HIDE DEF n
      <4> QED
        BY <3>1, <3>2 DEF OrderRow, Statuses
    <3>4. orders' = [orders EXCEPT ![o] = row] /\ UNCHANGED payment
      BY <2>8 DEF RequestRevision
    <3> HIDE DEF n, row
    <3> QED
      BY <3>3, <3>4, LeavesPending
  <2>9. ASSUME NEW o \in OrderIds, NEW u \in Users,
              OpenDispute(o, u)
        PROVE  CheckoutInv'
    <3> DEFINE row == [orders[o] EXCEPT !.status = "disputed", !.disputed_at = TRUE]
    <3>1. orders[o] \in OrderRow
      BY <2>9 DEF OpenDispute, Exists, TypeOK
    <3>2. row \in OrderRow /\ row.status # "payment_pending"
      BY <3>1 DEF OrderRow, Statuses
    <3>3. orders' = [orders EXCEPT ![o] = row] /\ UNCHANGED payment
      BY <2>9 DEF OpenDispute
    <3> HIDE DEF row
    <3> QED
      BY <3>2, <3>3, LeavesPending
  <2>10. ASSUME NEW o \in OrderIds, NEW r \in Releases \cup {Null},
              MarkReleasePending(o, r)
        PROVE  CheckoutInv'
    <3> DEFINE row == [orders[o] EXCEPT !.status = "release_pending", !.release = r]
    <3>1. orders[o] \in OrderRow
      BY <2>10 DEF MarkReleasePending, Exists, TypeOK
    <3>2. row \in OrderRow /\ row.status # "payment_pending"
      BY <3>1 DEF OrderRow, Statuses
    <3>3. orders' = [orders EXCEPT ![o] = row] /\ UNCHANGED payment
      BY <2>10 DEF MarkReleasePending
    <3> HIDE DEF row
    <3> QED
      BY <3>2, <3>3, LeavesPending
  <2>11. ASSUME NEW o \in OrderIds, NEW r \in Releases \cup {Null},
              MarkCompleted(o, r)
        PROVE  CheckoutInv'
    <3> DEFINE row == [orders[o] EXCEPT !.status = "completed", !.release = r,
                                       !.completed_at = TRUE]
    <3>1. orders[o] \in OrderRow
      BY <2>11 DEF MarkCompleted, Exists, TypeOK
    <3>2. row \in OrderRow /\ row.status # "payment_pending"
      BY <3>1 DEF OrderRow, Statuses
    <3>3. orders' = [orders EXCEPT ![o] = row] /\ UNCHANGED payment
      BY <2>11 DEF MarkCompleted
    <3> HIDE DEF row
    <3> QED
      BY <3>2, <3>3, LeavesPending
  <2>12. ASSUME NEW o \in OrderIds, NEW r \in Releases \cup {Null},
              MarkDisputeResolved(o, r)
        PROVE  CheckoutInv'
    <3> DEFINE row == [orders[o] EXCEPT !.status = "dispute_resolved", !.release = r]
    <3>1. orders[o] \in OrderRow
      BY <2>12 DEF MarkDisputeResolved, Exists, TypeOK
    <3>2. row \in OrderRow /\ row.status # "payment_pending"
      BY <3>1 DEF OrderRow, Statuses
    <3>3. orders' = [orders EXCEPT ![o] = row] /\ UNCHANGED payment
      BY <2>12 DEF MarkDisputeResolved
    <3> HIDE DEF row
    <3> QED
      BY <3>2, <3>3, LeavesPending
  <2>13. ASSUME NEW o \in OrderIds, NEW r \in Reasons,
              MarkReleaseFailed(o, r)
        PROVE  CheckoutInv'
    <3> DEFINE row == [orders[o] EXCEPT !.status = "release_failed", !.reason = r]
    <3>1. orders[o] \in OrderRow
      BY <2>13 DEF MarkReleaseFailed, Exists, TypeOK
    <3>2. row \in OrderRow /\ row.status # "payment_pending"
      BY <3>1 DEF OrderRow, Statuses
    <3>3. orders' = [orders EXCEPT ![o] = row] /\ UNCHANGED payment
      BY <2>13 DEF MarkReleaseFailed
    <3> HIDE DEF row
    <3> QED
      BY <3>2, <3>3, LeavesPending
  <2> QED
    BY <1>2, <2>1, <2>2, <2>3, <2>4, <2>5, <2>6, <2>7, <2>8, <2>9, <2>10,
       <2>11, <2>12, <2>13 DEF Next
<1>3. CASE UNCHANGED vars
  BY <1>3 DEF vars, payment, CheckoutInv, OneCallPerOrder, CallCarriesIntent,
     CallsHaveOrder, CheckoutPaysIntent, Exists, InFlight
<1> QED
  BY <1>2, <1>3

(* Serial, uninterrupted checkout calls leave a URL that pays the intent   *)
(* of the order, for any number of calls.                                  *)
THEOREM CheckoutSafe == Spec => []CheckoutPaysIntent
<1>1. Init => CheckoutInv
  BY DEF Init, CheckoutInv, OneCallPerOrder, CallCarriesIntent,
     CallsHaveOrder, CheckoutPaysIntent, Exists
<1>2. CheckoutInv => CheckoutPaysIntent
  BY DEF CheckoutInv
<1> QED
  BY <1>1, <1>2, TypeCorrect, CheckoutInvStep, PTL DEF Spec

-----------------------------------------------------------------------------
(***************************************************************************)
(* OrderLifecycle implements OrderRecord.  Only TypeOK is needed of the    *)
(* state: a step of the tables is one of the record because of what the    *)
(* statements leave alone.                                                 *)
(***************************************************************************)

(* A function that differs from another one in one place. *)
LEMMA OneChanged ==
  ASSUME NEW S, NEW o \in S, NEW v, NEW f, NEW g,
         f = [p \in S |-> f[p]], g = [p \in S |-> g[p]],
         g[o] = v, \A p \in S \ {o} : g[p] = f[p]
  PROVE  g = [f EXCEPT ![o] = v]
OBVIOUS

(* A transition of an existing order that writes a row with the same terms. *)
LEMMA RecordChange ==
  ASSUME TypeOK, NEW o \in OrderIds, Exists(o), NEW row \in OrderRow,
         TermsOf(row) = TermsOf(orders[o]), row.status # "requirements_pending",
         orders' = [orders EXCEPT ![o] = row]
  PROVE  /\ Record!Opened(o)
         /\ TermsNow' = TermsNow
         /\ MovedNow' = MovedNow \cup {o}
         /\ FactsNow' = [FactsNow EXCEPT ![o] = FactsOf(row)]
         /\ RevisedNow' = [RevisedNow EXCEPT ![o] = row.revision_count_used]
<1> USE NullAssumption
<1>1. /\ orders'[o] = row /\ row # Null
      /\ \A p \in OrderIds \ {o} : orders'[p] = orders[p]
  BY DEF TypeOK
<1>2. TermsNow[o] = TermsOf(orders[o])
  BY DEF TermsNow
<1>3. TermsOf(orders[o]) # Null
  <2>1. orders[o] \in OrderRow
    BY DEF TypeOK, Exists
  <2> QED
    BY <2>1, NullAssumption DEF TermsOf, OrderRow, OrderTerms
<1>4. TermsNow' = TermsNow
  BY <1>1 DEF TermsNow, Exists
<1>5. MovedNow' = MovedNow \cup {o}
  BY <1>1 DEF MovedNow, Exists
<1>6. FactsNow' = [FactsNow EXCEPT ![o] = FactsOf(row)]
  <2>1. FactsNow' = [p \in OrderIds |-> IF orders'[p] # Null THEN FactsOf(orders'[p]) ELSE {}]
    BY DEF FactsNow, Exists, FactsOf
  <2>2. FactsNow'[o] = FactsOf(row)
    BY <1>1, <2>1
  <2>3. \A p \in OrderIds \ {o} : FactsNow'[p] = FactsNow[p]
    BY <1>1, <2>1 DEF FactsNow, Exists
  <2>4. /\ FactsNow = [p \in OrderIds |-> FactsNow[p]]
        /\ FactsNow' = [p \in OrderIds |-> FactsNow'[p]]
    BY <2>1 DEF FactsNow
  <2> QED
    BY <2>2, <2>3, <2>4, OneChanged
<1>7. RevisedNow' = [RevisedNow EXCEPT ![o] = row.revision_count_used]
  <2>1. RevisedNow'[o] = row.revision_count_used
    BY <1>1 DEF RevisedNow, Exists
  <2>2. \A p \in OrderIds \ {o} : RevisedNow'[p] = RevisedNow[p]
    BY <1>1 DEF RevisedNow, Exists
  <2>3. /\ RevisedNow = [p \in OrderIds |-> RevisedNow[p]]
        /\ RevisedNow' = [p \in OrderIds |-> RevisedNow'[p]]
    BY DEF RevisedNow
  <2> QED
    BY <2>1, <2>2, <2>3, OneChanged
<1> QED
  BY <1>2, <1>3, <1>4, <1>5, <1>6, <1>7 DEF Record!Opened

(* A transition that records no fact. *)
LEMMA QuietMove ==
  ASSUME TypeOK, NEW o \in OrderIds, Exists(o), NEW row \in OrderRow,
         TermsOf(row) = TermsOf(orders[o]), row.status # "requirements_pending",
         FactsOf(row) = FactsOf(orders[o]),
         row.revision_count_used = orders[o].revision_count_used,
         orders' = [orders EXCEPT ![o] = row], UNCHANGED files
  PROVE  Record!Move(o)
<1>1. /\ Record!Opened(o) /\ TermsNow' = TermsNow /\ MovedNow' = MovedNow \cup {o}
      /\ FactsNow' = [FactsNow EXCEPT ![o] = FactsOf(row)]
      /\ RevisedNow' = [RevisedNow EXCEPT ![o] = row.revision_count_used]
  BY RecordChange
<1>2. FactsNow' = FactsNow
  <2>1. FactsNow = [p \in OrderIds |-> FactsNow[p]] /\ FactsNow[o] = FactsOf(orders[o])
    BY DEF FactsNow
  <2> QED
    BY <1>1, <2>1
<1>3. RevisedNow' = RevisedNow
  <2>1. /\ RevisedNow = [p \in OrderIds |-> RevisedNow[p]]
        /\ RevisedNow[o] = orders[o].revision_count_used
    BY DEF RevisedNow
  <2> QED
    BY <1>1, <2>1
<1> QED
  BY <1>1, <1>2, <1>3 DEF Record!Move

(* A transition that records a fact. *)
LEMMA FactMove ==
  ASSUME TypeOK, NEW o \in OrderIds, Exists(o), NEW row \in OrderRow,
         TermsOf(row) = TermsOf(orders[o]), row.status # "requirements_pending",
         row.revision_count_used = orders[o].revision_count_used,
         NEW fact, NEW attached, fact = "delivered" \/ attached = {},
         FactsOf(row) = FactsOf(orders[o]) \cup {fact},
         orders' = [orders EXCEPT ![o] = row],
         files' = [files EXCEPT ![o] = @ \cup attached]
  PROVE  Record!Happen(o, fact, attached)
<1>1. /\ Record!Opened(o) /\ TermsNow' = TermsNow /\ MovedNow' = MovedNow \cup {o}
      /\ FactsNow' = [FactsNow EXCEPT ![o] = FactsOf(row)]
      /\ RevisedNow' = [RevisedNow EXCEPT ![o] = row.revision_count_used]
  BY RecordChange
<1>2. FactsNow' = [FactsNow EXCEPT ![o] = @ \cup {fact}]
  <2>1. FactsNow[o] = FactsOf(orders[o])
    BY DEF FactsNow
  <2> QED
    BY <1>1, <2>1
<1>3. RevisedNow' = RevisedNow
  <2>1. /\ RevisedNow = [p \in OrderIds |-> RevisedNow[p]]
        /\ RevisedNow[o] = orders[o].revision_count_used
    BY DEF RevisedNow
  <2> QED
    BY <1>1, <2>1
<1> QED
  BY <1>1, <1>2, <1>3 DEF Record!Happen

(* Columns that no transition assigns. *)
LEMMA TermsKept ==
  ASSUME NEW row, NEW old,
         row.buyer = old.buyer, row.seller = old.seller,
         row.key = old.key, row.gig = old.gig
  PROVE  TermsOf(row) = TermsOf(old)
BY DEF TermsOf

LEMMA FactsKept ==
  ASSUME NEW row, NEW old,
         row.delivered_at = old.delivered_at,
         row.completed_at = old.completed_at,
         row.disputed_at = old.disputed_at
  PROVE  FactsOf(row) = FactsOf(old)
BY DEF FactsOf

(* Every step of the tables is a step of the record, or none of its own. *)
LEMMA RecordStep == TypeOK /\ TypeOK' /\ [Next]_vars => [Record!Next]_Record!vars
<1> SUFFICES ASSUME TypeOK, TypeOK', [Next]_vars
             PROVE  Record!Next \/ UNCHANGED Record!vars
  BY DEF Record!vars
<1>1. ASSUME NEW cmd \in Creates, Create(cmd)
      PROVE  Record!Next \/ UNCHANGED Record!vars
  <2>1. /\ cmd \in CreateCommand /\ cmd.order \in OrderIds
        /\ orders' = [orders EXCEPT ![cmd.order] = InsertedOrder(cmd)]
        /\ UNCHANGED files
    BY <1>1, CreatesAssumption DEF Create, CreateCommand, evidence
  <2>2. CASE Exists(cmd.order)
    <3>1. orders' = orders
      BY <2>1, <2>2 DEF InsertedOrder, TypeOK
    <3> QED
      BY <2>1, <3>1 DEF Record!vars, TermsNow, MovedNow, FactsNow, RevisedNow, Exists
  <2>3. CASE ~Exists(cmd.order)
    <3> DEFINE o == cmd.order
               t == TermsOf(NewOrder(cmd))
    <3>1. InsertedOrder(cmd) = NewOrder(cmd) /\ KeyIsFree(cmd)
      BY <1>1, <2>3 DEF InsertedOrder, Create
    <3>2. NewOrder(cmd) \in OrderRow
      BY <2>1 DEF NewOrder, OrderRow, CreateCommand, Statuses
    <3>3. /\ orders'[o] = NewOrder(cmd) /\ NewOrder(cmd) # Null
          /\ \A p \in OrderIds \ {o} : orders'[p] = orders[p]
      BY <2>1, <3>1, <3>2, NullAssumption DEF TypeOK
    <3>4. t \in Record!Terms /\ t.key = cmd.key
      BY <2>1 DEF TermsOf, NewOrder, Record!Terms, CreateCommand
    <3>5. ~Record!Opened(o)
      BY <2>1, <2>3 DEF Record!Opened, TermsNow
    <3>6. \A p \in OrderIds : Record!Opened(p) => TermsNow[p].key # t.key
      <4> SUFFICES ASSUME NEW p \in OrderIds, Record!Opened(p)
                   PROVE  TermsNow[p].key # cmd.key
        BY <3>4
      <4>1. Exists(p)
        BY DEF Record!Opened, TermsNow
      <4>2. TermsNow[p].key = orders[p].key
        BY <4>1 DEF TermsNow, TermsOf
      <4> QED
        BY <3>1, <4>1, <4>2 DEF KeyIsFree
    <3>7. TermsNow' = [TermsNow EXCEPT ![o] = t]
      <4>1. TermsNow'[o] = t
        BY <2>1, <3>3 DEF TermsNow, Exists, TermsOf
      <4>2. \A p \in OrderIds \ {o} : TermsNow'[p] = TermsNow[p]
        BY <3>3 DEF TermsNow, Exists, TermsOf
      <4>3. /\ TermsNow = [p \in OrderIds |-> TermsNow[p]]
            /\ TermsNow' = [p \in OrderIds |-> TermsNow'[p]]
        BY DEF TermsNow
      <4> QED
        BY <2>1, <4>1, <4>2, <4>3, OneChanged
    <3>8. MovedNow' = MovedNow
      BY <2>1, <2>3, <3>3 DEF MovedNow, Exists, NewOrder
    <3>9. FactsNow' = FactsNow
      <4>1. FactsOf(NewOrder(cmd)) = {}
        BY DEF FactsOf, NewOrder
      <4>2. FactsNow' = [p \in OrderIds |-> IF orders'[p] # Null THEN FactsOf(orders'[p]) ELSE {}]
        BY DEF FactsNow, Exists, FactsOf
      <4>3. \A p \in OrderIds : FactsNow'[p] = FactsNow[p]
        BY <2>3, <3>3, <4>1, <4>2 DEF FactsNow, Exists
      <4> QED
        BY <4>2, <4>3 DEF FactsNow
    <3>10. RevisedNow' = RevisedNow
      BY <2>3, <3>3 DEF RevisedNow, Exists, NewOrder
    <3>11. Record!Open(o, t)
      BY <2>1, <3>5, <3>6, <3>7, <3>8, <3>9, <3>10 DEF Record!Open
    <3> QED
      BY <2>1, <3>4, <3>11 DEF Record!Next
  <2> QED
    BY <2>2, <2>3
<1>2. ASSUME NEW o \in OrderIds, NEW i \in Intents,
             MarkFunded(o, i)
      PROVE  Record!Next
  <2> DEFINE row == [orders[o] EXCEPT !.status = "funded", !.intent = i]
  <2>1. /\ Exists(o) /\ orders[o] \in OrderRow
        /\ orders' = [orders EXCEPT ![o] = row] /\ UNCHANGED files
    BY <1>2 DEF MarkFunded, Exists, TypeOK, evidence
  <2>2. /\ row \in OrderRow /\ row.status # "requirements_pending"
        /\ TermsOf(row) = TermsOf(orders[o]) /\ FactsOf(row) = FactsOf(orders[o])
        /\ row.revision_count_used = orders[o].revision_count_used
    <3>1. row \in OrderRow /\ row.status # "requirements_pending"
      BY <2>1 DEF OrderRow, Statuses
    <3>2. /\ row.buyer = orders[o].buyer /\ row.seller = orders[o].seller
          /\ row.key = orders[o].key /\ row.gig = orders[o].gig
      BY <2>1 DEF OrderRow
    <3>3. /\ row.delivered_at = orders[o].delivered_at
          /\ row.completed_at = orders[o].completed_at
          /\ row.disputed_at = orders[o].disputed_at
          /\ row.revision_count_used = orders[o].revision_count_used
      BY <2>1 DEF OrderRow
    <3> HIDE DEF row
    <3> QED
      BY <3>1, <3>2, <3>3, TermsKept, FactsKept
  <2> HIDE DEF row
  <2>3. Record!Move(o)
    BY <2>1, <2>2, QuietMove
  <2> QED
    BY <2>3 DEF Record!Next
<1>3. ASSUME NEW o \in OrderIds, NEW r \in Reasons,
             MarkFailed(o, r)
      PROVE  Record!Next
  <2> DEFINE row == [orders[o] EXCEPT !.status = "failed", !.reason = r]
  <2>1. /\ Exists(o) /\ orders[o] \in OrderRow
        /\ orders' = [orders EXCEPT ![o] = row] /\ UNCHANGED files
    BY <1>3 DEF MarkFailed, Exists, TypeOK, evidence
  <2>2. /\ row \in OrderRow /\ row.status # "requirements_pending"
        /\ TermsOf(row) = TermsOf(orders[o]) /\ FactsOf(row) = FactsOf(orders[o])
        /\ row.revision_count_used = orders[o].revision_count_used
    <3>1. row \in OrderRow /\ row.status # "requirements_pending"
      BY <2>1 DEF OrderRow, Statuses
    <3>2. /\ row.buyer = orders[o].buyer /\ row.seller = orders[o].seller
          /\ row.key = orders[o].key /\ row.gig = orders[o].gig
      BY <2>1 DEF OrderRow
    <3>3. /\ row.delivered_at = orders[o].delivered_at
          /\ row.completed_at = orders[o].completed_at
          /\ row.disputed_at = orders[o].disputed_at
          /\ row.revision_count_used = orders[o].revision_count_used
      BY <2>1 DEF OrderRow
    <3> HIDE DEF row
    <3> QED
      BY <3>1, <3>2, <3>3, TermsKept, FactsKept
  <2> HIDE DEF row
  <2>3. Record!Move(o)
    BY <2>1, <2>2, QuietMove
  <2> QED
    BY <2>3 DEF Record!Next
<1>4. ASSUME NEW c \in Calls, NEW o \in OrderIds, NEW i \in Intents,
             BeginCheckout(c, o, i)
      PROVE  Record!Next
  <2> DEFINE row == [orders[o] EXCEPT !.status = "payment_pending", !.intent = i]
  <2>1. /\ Exists(o) /\ orders[o] \in OrderRow
        /\ orders' = [orders EXCEPT ![o] = row] /\ UNCHANGED files
    BY <1>4 DEF BeginCheckout, Exists, TypeOK, evidence
  <2>2. /\ row \in OrderRow /\ row.status # "requirements_pending"
        /\ TermsOf(row) = TermsOf(orders[o]) /\ FactsOf(row) = FactsOf(orders[o])
        /\ row.revision_count_used = orders[o].revision_count_used
    <3>1. row \in OrderRow /\ row.status # "requirements_pending"
      BY <2>1 DEF OrderRow, Statuses
    <3>2. /\ row.buyer = orders[o].buyer /\ row.seller = orders[o].seller
          /\ row.key = orders[o].key /\ row.gig = orders[o].gig
      BY <2>1 DEF OrderRow
    <3>3. /\ row.delivered_at = orders[o].delivered_at
          /\ row.completed_at = orders[o].completed_at
          /\ row.disputed_at = orders[o].disputed_at
          /\ row.revision_count_used = orders[o].revision_count_used
      BY <2>1 DEF OrderRow
    <3> HIDE DEF row
    <3> QED
      BY <3>1, <3>2, <3>3, TermsKept, FactsKept
  <2> HIDE DEF row
  <2>3. Record!Move(o)
    BY <2>1, <2>2, QuietMove
  <2> QED
    BY <2>3 DEF Record!Next
<1>5. ASSUME NEW o \in OrderIds, NEW r \in Releases \cup {Null},
             MarkReleasePending(o, r)
      PROVE  Record!Next
  <2> DEFINE row == [orders[o] EXCEPT !.status = "release_pending", !.release = r]
  <2>1. /\ Exists(o) /\ orders[o] \in OrderRow
        /\ orders' = [orders EXCEPT ![o] = row] /\ UNCHANGED files
    BY <1>5 DEF MarkReleasePending, Exists, TypeOK, evidence
  <2>2. /\ row \in OrderRow /\ row.status # "requirements_pending"
        /\ TermsOf(row) = TermsOf(orders[o]) /\ FactsOf(row) = FactsOf(orders[o])
        /\ row.revision_count_used = orders[o].revision_count_used
    <3>1. row \in OrderRow /\ row.status # "requirements_pending"
      BY <2>1 DEF OrderRow, Statuses
    <3>2. /\ row.buyer = orders[o].buyer /\ row.seller = orders[o].seller
          /\ row.key = orders[o].key /\ row.gig = orders[o].gig
      BY <2>1 DEF OrderRow
    <3>3. /\ row.delivered_at = orders[o].delivered_at
          /\ row.completed_at = orders[o].completed_at
          /\ row.disputed_at = orders[o].disputed_at
          /\ row.revision_count_used = orders[o].revision_count_used
      BY <2>1 DEF OrderRow
    <3> HIDE DEF row
    <3> QED
      BY <3>1, <3>2, <3>3, TermsKept, FactsKept
  <2> HIDE DEF row
  <2>3. Record!Move(o)
    BY <2>1, <2>2, QuietMove
  <2> QED
    BY <2>3 DEF Record!Next
<1>6. ASSUME NEW o \in OrderIds, NEW r \in Releases \cup {Null},
             MarkDisputeResolved(o, r)
      PROVE  Record!Next
  <2> DEFINE row == [orders[o] EXCEPT !.status = "dispute_resolved", !.release = r]
  <2>1. /\ Exists(o) /\ orders[o] \in OrderRow
        /\ orders' = [orders EXCEPT ![o] = row] /\ UNCHANGED files
    BY <1>6 DEF MarkDisputeResolved, Exists, TypeOK, evidence
  <2>2. /\ row \in OrderRow /\ row.status # "requirements_pending"
        /\ TermsOf(row) = TermsOf(orders[o]) /\ FactsOf(row) = FactsOf(orders[o])
        /\ row.revision_count_used = orders[o].revision_count_used
    <3>1. row \in OrderRow /\ row.status # "requirements_pending"
      BY <2>1 DEF OrderRow, Statuses
    <3>2. /\ row.buyer = orders[o].buyer /\ row.seller = orders[o].seller
          /\ row.key = orders[o].key /\ row.gig = orders[o].gig
      BY <2>1 DEF OrderRow
    <3>3. /\ row.delivered_at = orders[o].delivered_at
          /\ row.completed_at = orders[o].completed_at
          /\ row.disputed_at = orders[o].disputed_at
          /\ row.revision_count_used = orders[o].revision_count_used
      BY <2>1 DEF OrderRow
    <3> HIDE DEF row
    <3> QED
      BY <3>1, <3>2, <3>3, TermsKept, FactsKept
  <2> HIDE DEF row
  <2>3. Record!Move(o)
    BY <2>1, <2>2, QuietMove
  <2> QED
    BY <2>3 DEF Record!Next
<1>7. ASSUME NEW o \in OrderIds, NEW r \in Reasons,
             MarkReleaseFailed(o, r)
      PROVE  Record!Next
  <2> DEFINE row == [orders[o] EXCEPT !.status = "release_failed", !.reason = r]
  <2>1. /\ Exists(o) /\ orders[o] \in OrderRow
        /\ orders' = [orders EXCEPT ![o] = row] /\ UNCHANGED files
    BY <1>7 DEF MarkReleaseFailed, Exists, TypeOK, evidence
  <2>2. /\ row \in OrderRow /\ row.status # "requirements_pending"
        /\ TermsOf(row) = TermsOf(orders[o]) /\ FactsOf(row) = FactsOf(orders[o])
        /\ row.revision_count_used = orders[o].revision_count_used
    <3>1. row \in OrderRow /\ row.status # "requirements_pending"
      BY <2>1 DEF OrderRow, Statuses
    <3>2. /\ row.buyer = orders[o].buyer /\ row.seller = orders[o].seller
          /\ row.key = orders[o].key /\ row.gig = orders[o].gig
      BY <2>1 DEF OrderRow
    <3>3. /\ row.delivered_at = orders[o].delivered_at
          /\ row.completed_at = orders[o].completed_at
          /\ row.disputed_at = orders[o].disputed_at
          /\ row.revision_count_used = orders[o].revision_count_used
      BY <2>1 DEF OrderRow
    <3> HIDE DEF row
    <3> QED
      BY <3>1, <3>2, <3>3, TermsKept, FactsKept
  <2> HIDE DEF row
  <2>3. Record!Move(o)
    BY <2>1, <2>2, QuietMove
  <2> QED
    BY <2>3 DEF Record!Next
<1>8. ASSUME NEW o \in OrderIds, NEW u \in Users, NEW f \in SUBSET Files,
             SaveDelivery(o, u, f)
      PROVE  Record!Next
  <2> DEFINE row == [orders[o] EXCEPT !.status = "delivered", !.delivered_at = TRUE]
  <2>1. /\ Exists(o) /\ orders[o] \in OrderRow
        /\ orders' = [orders EXCEPT ![o] = row]
    BY <1>8 DEF SaveDelivery, Exists, TypeOK
  <2>2. files' = [files EXCEPT ![o] = @ \cup f]
    BY <1>8 DEF SaveDelivery, TypeOK, evidence
  <2>3. /\ row \in OrderRow /\ row.status # "requirements_pending"
        /\ TermsOf(row) = TermsOf(orders[o])
        /\ row.revision_count_used = orders[o].revision_count_used
    <3>1. row \in OrderRow /\ row.status # "requirements_pending"
      BY <2>1 DEF OrderRow, Statuses
    <3>2. /\ row.buyer = orders[o].buyer /\ row.seller = orders[o].seller
          /\ row.key = orders[o].key /\ row.gig = orders[o].gig
          /\ row.revision_count_used = orders[o].revision_count_used
      BY <2>1 DEF OrderRow
    <3> HIDE DEF row
    <3> QED
      BY <3>1, <3>2, TermsKept
  <2>4. FactsOf(row) = FactsOf(orders[o]) \cup {"delivered"}
    BY <2>1 DEF OrderRow, FactsOf
  <2> HIDE DEF row
  <2>5. Record!Happen(o, "delivered", f)
    BY <2>1, <2>2, <2>3, <2>4, FactMove
  <2> QED
    BY <2>5 DEF Record!Next, Record!Facts
<1>9. ASSUME NEW o \in OrderIds, NEW u \in Users,
             OpenDispute(o, u)
      PROVE  Record!Next
  <2> DEFINE row == [orders[o] EXCEPT !.status = "disputed", !.disputed_at = TRUE]
  <2>1. /\ Exists(o) /\ orders[o] \in OrderRow
        /\ orders' = [orders EXCEPT ![o] = row]
    BY <1>9 DEF OpenDispute, Exists, TypeOK
  <2>2. files' = [files EXCEPT ![o] = @ \cup {}]
    BY <1>9 DEF OpenDispute, TypeOK, evidence
  <2>3. /\ row \in OrderRow /\ row.status # "requirements_pending"
        /\ TermsOf(row) = TermsOf(orders[o])
        /\ row.revision_count_used = orders[o].revision_count_used
    <3>1. row \in OrderRow /\ row.status # "requirements_pending"
      BY <2>1 DEF OrderRow, Statuses
    <3>2. /\ row.buyer = orders[o].buyer /\ row.seller = orders[o].seller
          /\ row.key = orders[o].key /\ row.gig = orders[o].gig
          /\ row.revision_count_used = orders[o].revision_count_used
      BY <2>1 DEF OrderRow
    <3> HIDE DEF row
    <3> QED
      BY <3>1, <3>2, TermsKept
  <2>4. FactsOf(row) = FactsOf(orders[o]) \cup {"disputed"}
    BY <2>1 DEF OrderRow, FactsOf
  <2> HIDE DEF row
  <2>5. Record!Happen(o, "disputed", {})
    BY <2>1, <2>2, <2>3, <2>4, FactMove
  <2> QED
    BY <2>5 DEF Record!Next, Record!Facts
<1>10. ASSUME NEW o \in OrderIds, NEW r \in Releases \cup {Null},
             MarkCompleted(o, r)
      PROVE  Record!Next
  <2> DEFINE row == [orders[o] EXCEPT !.status = "completed", !.release = r, !.completed_at = TRUE]
  <2>1. /\ Exists(o) /\ orders[o] \in OrderRow
        /\ orders' = [orders EXCEPT ![o] = row]
    BY <1>10 DEF MarkCompleted, Exists, TypeOK
  <2>2. files' = [files EXCEPT ![o] = @ \cup {}]
    BY <1>10 DEF MarkCompleted, TypeOK, evidence
  <2>3. /\ row \in OrderRow /\ row.status # "requirements_pending"
        /\ TermsOf(row) = TermsOf(orders[o])
        /\ row.revision_count_used = orders[o].revision_count_used
    <3>1. row \in OrderRow /\ row.status # "requirements_pending"
      BY <2>1 DEF OrderRow, Statuses
    <3>2. /\ row.buyer = orders[o].buyer /\ row.seller = orders[o].seller
          /\ row.key = orders[o].key /\ row.gig = orders[o].gig
          /\ row.revision_count_used = orders[o].revision_count_used
      BY <2>1 DEF OrderRow
    <3> HIDE DEF row
    <3> QED
      BY <3>1, <3>2, TermsKept
  <2>4. FactsOf(row) = FactsOf(orders[o]) \cup {"completed"}
    BY <2>1 DEF OrderRow, FactsOf
  <2> HIDE DEF row
  <2>5. Record!Happen(o, "completed", {})
    BY <2>1, <2>2, <2>3, <2>4, FactMove
  <2> QED
    BY <2>5 DEF Record!Next, Record!Facts
<1>11. ASSUME NEW o \in OrderIds, NEW u \in Users, RequestRevision(o, u)
      PROVE  Record!Next
  <2> DEFINE n == orders[o].revision_count_used + 1
             row == [orders[o] EXCEPT !.status = "revision_requested",
                                      !.revision_count_used = n]
  <2>1. /\ Exists(o) /\ orders[o] \in OrderRow
        /\ orders' = [orders EXCEPT ![o] = row] /\ UNCHANGED files
    BY <1>11 DEF RequestRevision, Exists, TypeOK
  <2>2. n \in Nat
    BY <2>1 DEF OrderRow
  <2>3. /\ row \in OrderRow /\ row.status # "requirements_pending"
        /\ TermsOf(row) = TermsOf(orders[o]) /\ FactsOf(row) = FactsOf(orders[o])
        /\ row.revision_count_used = n
    <3> HIDE DEF n
    <3>1. row \in OrderRow /\ row.status # "requirements_pending"
      BY <2>1, <2>2 DEF OrderRow, Statuses
    <3>2. /\ row.buyer = orders[o].buyer /\ row.seller = orders[o].seller
          /\ row.key = orders[o].key /\ row.gig = orders[o].gig
      BY <2>1 DEF OrderRow
    <3>3. /\ row.delivered_at = orders[o].delivered_at
          /\ row.completed_at = orders[o].completed_at
          /\ row.disputed_at = orders[o].disputed_at
          /\ row.revision_count_used = n
      BY <2>1 DEF OrderRow
    <3> HIDE DEF row
    <3> QED
      BY <3>1, <3>2, <3>3, TermsKept, FactsKept
  <2> HIDE DEF row
  <2>4. /\ Record!Opened(o) /\ TermsNow' = TermsNow /\ MovedNow' = MovedNow \cup {o}
        /\ FactsNow' = [FactsNow EXCEPT ![o] = FactsOf(row)]
        /\ RevisedNow' = [RevisedNow EXCEPT ![o] = n]
    <3> HIDE DEF n
    <3> QED
      BY <2>1, <2>3, RecordChange
  <2>5. FactsNow' = FactsNow
    <3>1. FactsNow = [p \in OrderIds |-> FactsNow[p]] /\ FactsNow[o] = FactsOf(orders[o])
      BY <2>1 DEF FactsNow
    <3> QED
      BY <2>3, <2>4, <3>1
  <2>6. RevisedNow' = [RevisedNow EXCEPT ![o] = @ + 1]
    <3>1. RevisedNow[o] = orders[o].revision_count_used
      BY <2>1 DEF RevisedNow
    <3> QED
      BY <2>4, <3>1
  <2>7. Record!Revise(o)
    BY <2>1, <2>4, <2>5, <2>6 DEF Record!Revise
  <2> QED
    BY <2>7 DEF Record!Next
<1>12. ASSUME NEW c \in Calls, EndCheckout(c)
      PROVE  UNCHANGED Record!vars
  BY <1>12 DEF EndCheckout, evidence, Record!vars, TermsNow, MovedNow, FactsNow, RevisedNow, Exists
<1>13. ASSUME NEW c \in Calls, CutCheckout(c)
      PROVE  UNCHANGED Record!vars
  BY <1>13 DEF CutCheckout, evidence, Record!vars, TermsNow, MovedNow, FactsNow, RevisedNow, Exists
<1>14. CASE UNCHANGED vars
  BY <1>14 DEF vars, evidence, Record!vars, TermsNow, MovedNow, FactsNow, RevisedNow, Exists
<1> QED
  BY <1>1, <1>2, <1>3, <1>4, <1>5, <1>6, <1>7, <1>8, <1>9, <1>10, <1>11, <1>12, <1>13, <1>14 DEF Next

(* The tables keep what an order promises (OrderRecord): whatever calls    *)
(* are repeated, late or interleaved, an order keeps its terms and its key *)
(* and never returns to its first status, and what has happened to it is   *)
(* not forgotten.                                                          *)
THEOREM RecordImplemented == Spec => ImplementsRecord
<1>1. Init => Record!Init
  BY DEF Init, Record!Init, TermsNow, MovedNow, FactsNow, RevisedNow, Exists
<1> QED
  BY <1>1, TypeCorrect, RecordStep, PTL DEF Spec, ImplementsRecord, Record!Spec

(* What a step leaves of the promises to the parties of order o. *)
PromisesKept(o) ==
  /\ Exists(o)'
  /\ TermsOf(orders'[o]) = TermsOf(orders[o])
  /\ orders[o].status # "requirements_pending"
       => orders'[o].status # "requirements_pending"
  /\ FactsOf(orders[o]) \subseteq FactsOf(orders'[o])
  /\ orders[o].revision_count_used <= orders'[o].revision_count_used
  /\ files[o] \subseteq files'[o]

(* No step of the record takes back what an order promises. *)
LEMMA RecordKeeps ==
  ASSUME Record!Next, NEW o \in OrderIds, Record!Opened(o), RevisedNow[o] \in Nat,
         files \in [OrderIds -> SUBSET Files]
  PROVE  /\ TermsNow'[o] = TermsNow[o]
         /\ o \in MovedNow => o \in MovedNow'
         /\ FactsNow[o] \subseteq FactsNow'[o]
         /\ RevisedNow[o] <= RevisedNow'[o]
         /\ files[o] \subseteq files'[o]
<1> DEFINE Kept == /\ TermsNow'[o] = TermsNow[o]
                   /\ o \in MovedNow => o \in MovedNow'
                   /\ FactsNow[o] \subseteq FactsNow'[o]
                   /\ RevisedNow[o] <= RevisedNow'[o]
                   /\ files[o] \subseteq files'[o]
<1>0. /\ TermsNow = [p \in OrderIds |-> TermsNow[p]]
      /\ FactsNow = [p \in OrderIds |-> FactsNow[p]]
      /\ RevisedNow = [p \in OrderIds |-> RevisedNow[p]]
  BY DEF TermsNow, FactsNow, RevisedNow
<1>1. ASSUME NEW p \in OrderIds, NEW t \in Record!Terms, Record!Open(p, t)
      PROVE  Kept
  <2>1. p # o
    BY <1>1, Zenon DEF Record!Open
  <2>2. /\ TermsNow' = [TermsNow EXCEPT ![p] = t]
        /\ UNCHANGED <<MovedNow, FactsNow, RevisedNow, files>>
    BY <1>1, Zenon DEF Record!Open
  <2>3. TermsNow'[o] = TermsNow[o]
    BY <1>0, <2>1, <2>2
  <2> QED
    BY <2>2, <2>3
<1>2. ASSUME NEW p \in OrderIds, Record!Move(p)
      PROVE  Kept
  BY <1>2 DEF Record!Move
<1>3. ASSUME NEW p \in OrderIds, NEW fact \in Record!Facts,
             NEW attached \in SUBSET Files, Record!Happen(p, fact, attached)
      PROVE  Kept
  <2>1. /\ MovedNow' = MovedNow \cup {p}
        /\ FactsNow' = [FactsNow EXCEPT ![p] = @ \cup {fact}]
        /\ files' = [files EXCEPT ![p] = @ \cup attached]
        /\ UNCHANGED <<TermsNow, RevisedNow>>
    BY <1>3, Zenon DEF Record!Happen
  <2>2. FactsNow[o] \subseteq FactsNow'[o]
    BY <1>0, <2>1
  <2>3. files[o] \subseteq files'[o]
    BY <2>1
  <2> QED
    BY <2>1, <2>2, <2>3
<1>4. ASSUME NEW p \in OrderIds, Record!Revise(p)
      PROVE  Kept
  <2>1. /\ MovedNow' = MovedNow \cup {p}
        /\ RevisedNow' = [RevisedNow EXCEPT ![p] = @ + 1]
        /\ UNCHANGED <<TermsNow, FactsNow, files>>
    BY <1>4, Zenon DEF Record!Revise
  <2>2. RevisedNow[o] <= RevisedNow'[o]
    BY <1>0, <2>1
  <2> QED
    BY <2>1, <2>2
<1> QED
  BY <1>1, <1>2, <1>3, <1>4, Zenon DEF Record!Next

(* What the record means for the row of an order that exists. *)
LEMMA RecordOfRow ==
  ASSUME TypeOK, NEW o \in OrderIds, Exists(o)
  PROVE  /\ Record!Opened(o) /\ TermsNow[o] = TermsOf(orders[o])
         /\ o \in MovedNow <=> orders[o].status # "requirements_pending"
         /\ FactsNow[o] = FactsOf(orders[o])
         /\ RevisedNow[o] = orders[o].revision_count_used
         /\ RevisedNow[o] \in Nat
<1>1. orders[o] \in OrderRow
  BY DEF TypeOK, Exists
<1>2. /\ TermsNow[o] = TermsOf(orders[o])
      /\ FactsNow[o] = FactsOf(orders[o])
      /\ RevisedNow[o] = orders[o].revision_count_used
  BY DEF TermsNow, FactsNow, RevisedNow
<1>3. TermsOf(orders[o]) \in OrderTerms /\ orders[o].revision_count_used \in Nat
  BY <1>1 DEF TermsOf, OrderTerms, OrderRow
<1>4. TermsOf(orders[o]) # Null
  BY <1>3, NullAssumption
<1>5. Record!Opened(o)
  BY <1>2, <1>4, Zenon DEF Record!Opened
<1>6. o \in MovedNow <=> orders[o].status # "requirements_pending"
  BY Zenon DEF MovedNow
<1> QED
  BY <1>2, <1>3, <1>5, <1>6, Zenon

(* Carried back from the record to the tables: whatever is called, late,   *)
(* repeated or in any order, an order that exists keeps its parties, key   *)
(* and gig, is never pending again once it has left that status, and loses *)
(* no timestamp, counted revision or delivered file.                       *)
THEOREM PromisesHold ==
  Spec => [][\A o \in OrderIds : Exists(o) => PromisesKept(o)]_vars
<1>1. ASSUME TypeOK, TypeOK', [Next]_vars, NEW o \in OrderIds, Exists(o)
      PROVE  PromisesKept(o)
  <2>1. /\ Record!Opened(o) /\ TermsNow[o] = TermsOf(orders[o])
        /\ o \in MovedNow <=> orders[o].status # "requirements_pending"
        /\ FactsNow[o] = FactsOf(orders[o])
        /\ RevisedNow[o] = orders[o].revision_count_used
        /\ RevisedNow[o] \in Nat
    BY <1>1, RecordOfRow, Zenon
  <2>2. files \in [OrderIds -> SUBSET Files]
    BY <1>1, Zenon DEF TypeOK
  <2>3. /\ TermsNow'[o] = TermsNow[o]
        /\ o \in MovedNow => o \in MovedNow'
        /\ FactsNow[o] \subseteq FactsNow'[o]
        /\ RevisedNow[o] <= RevisedNow'[o]
        /\ files[o] \subseteq files'[o]
    <3>1. CASE Record!Next
      BY <2>1, <2>2, <3>1, RecordKeeps, Zenon
    <3>2. CASE UNCHANGED <<TermsNow, MovedNow, FactsNow, RevisedNow, files>>
      BY <2>1, <3>2
    <3> QED
      BY <1>1, <3>1, <3>2, RecordStep, Zenon DEF Record!vars
  <2>4. Exists(o)'
    <3>1. TermsNow'[o] # Null
      BY <2>1, <2>3, Zenon DEF Record!Opened
    <3> QED
      BY <3>1 DEF TermsNow
  <2>5. /\ TermsNow'[o] = TermsOf(orders'[o])
        /\ FactsNow'[o] = FactsOf(orders'[o])
        /\ RevisedNow'[o] = orders'[o].revision_count_used
        /\ o \in MovedNow' => orders'[o].status # "requirements_pending"
    BY <2>4 DEF TermsNow, FactsNow, RevisedNow, MovedNow, TermsOf, FactsOf
  <2> QED
    BY <2>1, <2>3, <2>4, <2>5, Zenon DEF PromisesKept
<1>2. TypeOK /\ TypeOK' /\ [Next]_vars
        => [\A o \in OrderIds : Exists(o) => PromisesKept(o)]_vars
  BY <1>1, Zenon
<1> QED
  BY <1>2, TypeCorrect, PTL DEF Spec

-----------------------------------------------------------------------------
(***************************************************************************)
(* What the gig snapshot rests on.  The snapshot_immutable run refutes     *)
(* SnapshotImmutable with two create commands of one order that carry      *)
(* different gigs.  That is the only way: snapshot and row hold gigs that  *)
(* some command of the order carried, and no other statement writes them.  *)
(***************************************************************************)

SentFor(o, gig) == \E cmd \in Creates : cmd.order = o /\ cmd.gig = gig

GigsSent ==
  \A o \in OrderIds :
    Exists(o) => SentFor(o, orders[o].gig) /\ SentFor(o, snapshot[o])

CommandsAgree ==
  \A c, d \in Creates : c.order = d.order => c.gig = d.gig

SnapshotMatchesRow ==
  \A o \in OrderIds : Exists(o) => snapshot[o] = orders[o].gig

(* No statement but Create's writes a snapshot or makes a row; an UPDATE   *)
(* leaves the gig of the row.                                              *)
LEMMA GigsKept ==
  ASSUME TypeOK, [Next]_vars, ~ \E cmd \in Creates : Create(cmd)
  PROVE  /\ snapshot' = snapshot
         /\ \A o \in OrderIds : Exists(o)' <=> Exists(o)
         /\ \A o \in OrderIds : Exists(o) => orders'[o].gig = orders[o].gig
<1> DEFINE Kept == /\ snapshot' = snapshot
                   /\ \A o \in OrderIds : Exists(o)' <=> Exists(o)
                   /\ \A o \in OrderIds :
                        Exists(o) => orders'[o].gig = orders[o].gig
<1>1. ASSUME NEW o \in OrderIds, Exists(o), NEW row, row \in OrderRow,
             row.gig = orders[o].gig,
             orders' = [orders EXCEPT ![o] = row], snapshot' = snapshot
      PROVE  Kept
  BY <1>1, NullAssumption DEF TypeOK, Exists
<1>2. \A o \in OrderIds : Exists(o) => orders[o] \in OrderRow
  BY DEF TypeOK, Exists
<1>3. ASSUME NEW o \in OrderIds, NEW i \in Intents,
             MarkFunded(o, i) \/ \E c \in Calls : BeginCheckout(c, o, i)
      PROVE  Kept
  <2>1. PICK status \in {"funded", "payment_pending"} :
          /\ Exists(o) /\ snapshot' = snapshot
          /\ orders' = [orders EXCEPT
                          ![o] = [@ EXCEPT !.status = status, !.intent = i]]
    BY <1>3, Zenon DEF MarkFunded, BeginCheckout
  <2> DEFINE row == [orders[o] EXCEPT !.status = status, !.intent = i]
  <2>2. row \in OrderRow /\ row.gig = orders[o].gig
    <3>1. orders[o] \in OrderRow
      BY <1>2, <2>1
    <3> QED
      BY <3>1 DEF OrderRow, Statuses
  <2>3. orders' = [orders EXCEPT ![o] = row]
    BY <2>1
  <2> HIDE DEF row
  <2> QED
    BY <1>1, <2>1, <2>2, <2>3
<1>4. ASSUME NEW o \in OrderIds, NEW r \in Reasons,
             MarkFailed(o, r) \/ MarkReleaseFailed(o, r)
      PROVE  Kept
  <2>1. PICK status \in {"failed", "release_failed"} :
          /\ Exists(o) /\ snapshot' = snapshot
          /\ orders' = [orders EXCEPT
                          ![o] = [@ EXCEPT !.status = status, !.reason = r]]
    BY <1>4, Zenon DEF MarkFailed, MarkReleaseFailed
  <2> DEFINE row == [orders[o] EXCEPT !.status = status, !.reason = r]
  <2>2. row \in OrderRow /\ row.gig = orders[o].gig
    <3>1. orders[o] \in OrderRow
      BY <1>2, <2>1
    <3> QED
      BY <3>1 DEF OrderRow, Statuses
  <2>3. orders' = [orders EXCEPT ![o] = row]
    BY <2>1
  <2> HIDE DEF row
  <2> QED
    BY <1>1, <2>1, <2>2, <2>3
<1>5. ASSUME NEW o \in OrderIds, NEW r \in Releases \cup {Null},
             MarkReleasePending(o, r) \/ MarkDisputeResolved(o, r)
      PROVE  Kept
  <2>1. PICK status \in {"release_pending", "dispute_resolved"} :
          /\ Exists(o) /\ snapshot' = snapshot
          /\ orders' = [orders EXCEPT
                          ![o] = [@ EXCEPT !.status = status, !.release = r]]
    BY <1>5, Zenon DEF MarkReleasePending, MarkDisputeResolved
  <2> DEFINE row == [orders[o] EXCEPT !.status = status, !.release = r]
  <2>2. row \in OrderRow /\ row.gig = orders[o].gig
    <3>1. orders[o] \in OrderRow
      BY <1>2, <2>1
    <3> QED
      BY <3>1 DEF OrderRow, Statuses
  <2>3. orders' = [orders EXCEPT ![o] = row]
    BY <2>1
  <2> HIDE DEF row
  <2> QED
    BY <1>1, <2>1, <2>2, <2>3
<1>6. ASSUME NEW o \in OrderIds, NEW r \in Releases \cup {Null},
             MarkCompleted(o, r)
      PROVE  Kept
  <2> DEFINE row == [orders[o] EXCEPT !.status = "completed", !.release = r,
                                      !.completed_at = TRUE]
  <2>1. Exists(o) /\ snapshot' = snapshot /\ orders' = [orders EXCEPT ![o] = row]
    BY <1>6 DEF MarkCompleted
  <2>2. row \in OrderRow /\ row.gig = orders[o].gig
    <3>1. orders[o] \in OrderRow
      BY <1>2, <2>1
    <3> QED
      BY <3>1 DEF OrderRow, Statuses
  <2> HIDE DEF row
  <2> QED
    BY <1>1, <2>1, <2>2
<1>7. ASSUME NEW o \in OrderIds, NEW u \in Users, NEW f \in SUBSET Files,
             SaveDelivery(o, u, f)
      PROVE  Kept
  <2> DEFINE row == [orders[o] EXCEPT !.status = "delivered",
                                      !.delivered_at = TRUE]
  <2>1. Exists(o) /\ snapshot' = snapshot /\ orders' = [orders EXCEPT ![o] = row]
    BY <1>7 DEF SaveDelivery
  <2>2. row \in OrderRow /\ row.gig = orders[o].gig
    <3>1. orders[o] \in OrderRow
      BY <1>2, <2>1
    <3> QED
      BY <3>1 DEF OrderRow, Statuses
  <2> HIDE DEF row
  <2> QED
    BY <1>1, <2>1, <2>2
<1>8. ASSUME NEW o \in OrderIds, NEW u \in Users, RequestRevision(o, u)
      PROVE  Kept
  <2> DEFINE n == orders[o].revision_count_used + 1
             row == [orders[o] EXCEPT !.status = "revision_requested",
                                      !.revision_count_used = n]
  <2>1. Exists(o) /\ snapshot' = snapshot /\ orders' = [orders EXCEPT ![o] = row]
    BY <1>8 DEF RequestRevision
  <2>2. n \in Nat
    BY <1>2, <2>1 DEF OrderRow
  <2> HIDE DEF n
  <2>3. row \in OrderRow /\ row.gig = orders[o].gig
    BY <1>2, <2>1, <2>2 DEF OrderRow, Statuses
  <2> HIDE DEF row
  <2> QED
    BY <1>1, <2>1, <2>3
<1>9. ASSUME NEW o \in OrderIds, NEW u \in Users, OpenDispute(o, u)
      PROVE  Kept
  <2> DEFINE row == [orders[o] EXCEPT !.status = "disputed",
                                      !.disputed_at = TRUE]
  <2>1. Exists(o) /\ snapshot' = snapshot /\ orders' = [orders EXCEPT ![o] = row]
    BY <1>9 DEF OpenDispute
  <2>2. row \in OrderRow /\ row.gig = orders[o].gig
    <3>1. orders[o] \in OrderRow
      BY <1>2, <2>1
    <3> QED
      BY <3>1 DEF OrderRow, Statuses
  <2> HIDE DEF row
  <2> QED
    BY <1>1, <2>1, <2>2
<1>10. ASSUME NEW c \in Calls, EndCheckout(c) \/ CutCheckout(c)
       PROVE  Kept
  BY <1>10, Zenon DEF EndCheckout, CutCheckout, Exists
<1>11. CASE UNCHANGED vars
  BY <1>11, Zenon DEF vars, Exists
<1> QED
  BY <1>3, <1>4, <1>5, <1>6, <1>7, <1>8, <1>9, <1>10, <1>11, Zenon DEF Next

LEMMA GigsSentStep == TypeOK /\ GigsSent /\ [Next]_vars => GigsSent'
<1> SUFFICES ASSUME TypeOK, GigsSent, [Next]_vars
             PROVE  GigsSent'
  OBVIOUS
<1>1. ASSUME NEW cmd \in Creates, Create(cmd)
      PROVE  GigsSent'
  <2>1. cmd.order \in OrderIds
    BY CreatesAssumption DEF CreateCommand
  <2>2. /\ orders' = [orders EXCEPT ![cmd.order] = InsertedOrder(cmd)]
        /\ snapshot' = [snapshot EXCEPT ![cmd.order] = cmd.gig]
    BY <1>1, Zenon DEF Create
  <2>3. \A o \in OrderIds \ {cmd.order} :
          orders'[o] = orders[o] /\ snapshot'[o] = snapshot[o]
    BY <2>1, <2>2 DEF TypeOK
  <2>4. orders'[cmd.order] = InsertedOrder(cmd) /\ snapshot'[cmd.order] = cmd.gig
    BY <2>1, <2>2 DEF TypeOK
  <2>5. SentFor(cmd.order, cmd.gig)
    BY Zenon DEF SentFor
  <2>6. SentFor(cmd.order, InsertedOrder(cmd).gig)
    <3>1. CASE Exists(cmd.order)
      BY <2>1, <3>1, Zenon DEF InsertedOrder, GigsSent
    <3>2. CASE ~Exists(cmd.order)
      <4>1. InsertedOrder(cmd).gig = cmd.gig
        BY <3>2 DEF InsertedOrder, NewOrder
      <4> QED
        BY <2>5, <4>1
    <3> QED
      BY <3>1, <3>2
  <2> SUFFICES ASSUME NEW o \in OrderIds, Exists(o)'
               PROVE  SentFor(o, orders'[o].gig) /\ SentFor(o, snapshot'[o])
    BY Zenon DEF GigsSent, SentFor
  <2>7. CASE o = cmd.order
    BY <2>4, <2>5, <2>6, <2>7
  <2>8. CASE o # cmd.order
    <3>1. orders'[o] = orders[o] /\ snapshot'[o] = snapshot[o]
      BY <2>3, <2>8
    <3> QED
      BY <3>1 DEF GigsSent, Exists
  <2> QED
    BY <2>7, <2>8
<1>2. CASE ~ \E cmd \in Creates : Create(cmd)
  <2>1. /\ snapshot' = snapshot
        /\ \A o \in OrderIds : Exists(o)' <=> Exists(o)
        /\ \A o \in OrderIds : Exists(o) => orders'[o].gig = orders[o].gig
    BY <1>2, GigsKept
  <2> SUFFICES ASSUME NEW o \in OrderIds, Exists(o)'
               PROVE  SentFor(o, orders'[o].gig) /\ SentFor(o, snapshot'[o])
    BY Zenon DEF GigsSent, SentFor
  <2>2. Exists(o) /\ orders'[o].gig = orders[o].gig
    BY <2>1
  <2> QED
    BY <2>1, <2>2 DEF GigsSent
<1> QED
  BY <1>1, <1>2

LEMMA GigsSentCorrect == Spec => []GigsSent
<1>1. Init => GigsSent
  BY DEF Init, GigsSent, Exists
<1> QED
  BY <1>1, GigsSentStep, TypeCorrect, PTL DEF Spec

(* When all create commands of one order carry the same gig, its snapshot  *)
(* is the gig of its row, however often Create upserts it.                 *)
THEOREM SnapshotsMatchRows ==
  ASSUME CommandsAgree
  PROVE  Spec => []SnapshotMatchesRow
<1>1. GigsSent => SnapshotMatchesRow
  BY DEF GigsSent, SnapshotMatchesRow, SentFor, CommandsAgree
<1> QED
  BY <1>1, GigsSentCorrect, PTL

(* And then it never changes: the comment on OrderGigSnapshot holds of     *)
(* every saga that repeats its commands faithfully.                        *)
THEOREM SnapshotsStay ==
  ASSUME CommandsAgree
  PROVE  Spec => SnapshotImmutable
<1>1. ASSUME TypeOK, GigsSent, EvidenceMatchesRow, [Next]_vars,
             NEW o \in OrderIds, snapshot[o] # Null
      PROVE  snapshot'[o] = snapshot[o]
  <2>1. CASE ~ \E cmd \in Creates : Create(cmd)
    BY <1>1, <2>1, GigsKept
  <2>2. ASSUME NEW cmd \in Creates, Create(cmd)
        PROVE  snapshot'[o] = snapshot[o]
    <3>1. SentFor(o, snapshot[o])
      BY <1>1, Zenon DEF EvidenceMatchesRow, GigsSent
    <3>2. cmd.order = o => cmd.gig = snapshot[o]
      BY <3>1, Zenon DEF SentFor, CommandsAgree
    <3>3. snapshot' = [snapshot EXCEPT ![cmd.order] = cmd.gig]
      BY <2>2, Zenon DEF Create
    <3> QED
      BY <1>1, <3>2, <3>3 DEF TypeOK
  <2> QED
    BY <2>1, <2>2
<1>2. TypeOK /\ GigsSent /\ EvidenceMatchesRow /\ [Next]_vars
        => [\A o \in OrderIds :
              snapshot[o] # Null => snapshot'[o] = snapshot[o]]_vars
  BY <1>1, Zenon
<1> QED
  BY <1>2, TypeCorrect, GigsSentCorrect, EvidenceAgrees, PTL
     DEF Spec, SnapshotImmutable

=============================================================================
