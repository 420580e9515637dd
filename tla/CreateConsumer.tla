---------------------------- MODULE CreateConsumer ----------------------------
(***************************************************************************)
(* The consumers of create commands: the loops of EventConsumer with       *)
(* commandSubscriber.create and service.Create as their handler.           *)
(*                                                                         *)
(* The handler commits the order, reads it back, refreshes its copies and  *)
(* publishes a result for the saga; it fails only when the payload cannot  *)
(* be decoded or the result cannot be published.  Its steps lie within the *)
(* loop's one step, so that this module implements EventConsumer.  The     *)
(* refresh returns no error and is FullCopyProjection's.                   *)
(***************************************************************************)
EXTENDS Integers, Sequences, FiniteSets

CONSTANTS
  Events, Poison, Replicas, MaxAttempts, MaxPublished, MaxRestarts,
  MaxRebalances, MaxFaults,  \* see EventConsumer
  Garbled,       \* the events whose payload is no create command
  Orders, Keys,
  OrderOf,       \* the order each event's command creates
  KeyOf,         \* its idempotency key
  Before,        \* the tables of orders that the consumers may find
  MaxFailures,   \* bound on the handler's failing calls of the database
  Null           \* no order row

ASSUME EventsAssumption == Poison \subseteq Events /\ Garbled \subseteq Events

ASSUME ReplicasAssumption == IsFiniteSet(Replicas)

ASSUME CommandsAssumption ==
  OrderOf \in [Events -> Orders] /\ KeyOf \in [Events -> Keys]

ASSUME NullAssumption == Null \notin Keys

ASSUME BeforeAssumption ==
  Before \subseteq {table \in [Orders -> Keys \cup {Null}] :
                      \A o, p \in Orders :
                        table[o] # Null /\ table[o] = table[p] => o = p}

ASSUME BoundsAssumption ==
  /\ MaxAttempts \in Nat \ {0}
  /\ MaxPublished \in Nat
  /\ MaxRestarts \in Nat
  /\ MaxRebalances \in Nat
  /\ MaxFaults \in Nat
  /\ MaxFailures \in Nat

VARIABLES
  log, committed, owner, cursor, position, pc, claims, retryq, draining, dlq,
  published, restarts, rebalances, faults, succeeded, stuck, dropped,
                     \* see EventConsumer
  step,              \* each handler's next step, "none" outside of it
  orders,            \* table orders: the key of the order's row
  results,           \* the results published for each event
  failures,
  disturbed          \* history: events whose order could not be written or read

Loop == INSTANCE EventConsumer

loop == <<log, committed, owner, cursor, position, pc, claims, retryq, draining,
          dlq, published, restarts, rebalances, faults, succeeded, stuck, dropped>>
handler == <<step, orders, results, failures, disturbed>>
vars == <<loop, handler>>

Init ==
  /\ Loop!Init
  /\ step = [r \in Replicas |-> "none"]
  /\ orders \in Before
  /\ results = [e \in Events |-> {}]
  /\ failures = 0
  /\ disturbed = {}

Failure == failures < MaxFailures /\ failures' = failures + 1

Event(r) == log[position[r]].event

Goto(r, s) == step' = [step EXCEPT ![r] = s]

Answered(r) == [results EXCEPT ![Event(r)] = @ \cup {step[r]}]

-----------------------------------------------------------------------------
(* The loop around the handler.                                            *)

Around(LoopStep) == LoopStep /\ UNCHANGED handler

Claim(r) ==
  /\ Loop!Claim(r)
  /\ Goto(r, IF pc'[r] = "handle" THEN "create" ELSE "none")
  /\ UNCHANGED <<orders, results, failures, disturbed>>

UnwrapFails(r) ==
  /\ Loop!UnwrapFails(r)
  /\ Goto(r, "none")
  /\ UNCHANGED <<orders, results, failures, disturbed>>

(* The process stops, published what the result is or not; a commit that   *)
(* was made stays.                                                         *)
Crash(r, sent) ==
  /\ Loop!Crash(r)
  /\ sent => step[r] \in {"success", "failed"}
  /\ results' = IF sent THEN Answered(r) ELSE results
  /\ Goto(r, "none")
  /\ UNCHANGED <<orders, failures, disturbed>>

-----------------------------------------------------------------------------
(* The handler.                                                            *)

(* The handler's next step is s. *)
At(r, s) == step[r] = s /\ Event(r) \notin Poison \cup Garbled

KeyIsFree(e) == \A o \in Orders : orders[o] # KeyOf[e]

InsertableOnce(e) == KeyIsFree(e)

(* The INSERT takes the conflict branch of an order that exists, and fails *)
(* on the key of another one. *)
Insertable(e) == orders[OrderOf[e]] # Null \/ KeyIsFree(e)

Inserted(e) ==
  [orders EXCEPT ![OrderOf[e]] = IF @ = Null THEN KeyOf[e] ELSE @]

DecodeFails(r, released) ==
  /\ step[r] = "create"
  /\ Event(r) \in Garbled
  /\ Loop!HandlerFails(r, FALSE, released)
  /\ Goto(r, "none")
  /\ UNCHANGED <<orders, results, failures, disturbed>>

(* repo.Create commits. *)
Insert(r) ==
  /\ At(r, "create")
  /\ Insertable(Event(r))
  /\ orders' = Inserted(Event(r))
  /\ Goto(r, "read")
  /\ UNCHANGED <<loop, results, failures, disturbed>>

InsertRefusedUnnoticed(r) ==
  /\ At(r, "create")
  /\ ~Insertable(Event(r))
  /\ Goto(r, "success")
  /\ UNCHANGED <<loop, orders, results, failures, disturbed>>

InsertRefused(r) ==
  /\ At(r, "create")
  /\ ~Insertable(Event(r))
  /\ Goto(r, "failed")
  /\ UNCHANGED <<loop, orders, results, failures, disturbed>>

(* The transaction fails, or its commit is not answered. *)
InsertFails(r, written) ==
  /\ Failure
  /\ At(r, "create")
  /\ written => Insertable(Event(r))
  /\ orders' = IF written THEN Inserted(Event(r)) ELSE orders
  /\ Goto(r, "failed")
  /\ disturbed' = disturbed \cup {Event(r)}
  /\ UNCHANGED <<loop, results>>

ReadBack(r) ==
  /\ At(r, "read")
  /\ Goto(r, "success")
  /\ UNCHANGED <<loop, orders, results, failures, disturbed>>

(* repo.Create returns an error for an order that exists. *)
ReadBackFails(r) ==
  /\ Failure
  /\ At(r, "read")
  /\ Goto(r, "failed")
  /\ disturbed' = disturbed \cup {Event(r)}
  /\ UNCHANGED <<loop, orders, results>>

(* publishCreateResult, and the handler returns what it returns. *)
PublishResult(r) ==
  /\ step[r] \in {"success", "failed"}
  /\ Loop!HandlerSucceeds(r)
  /\ results' = Answered(r)
  /\ Goto(r, "none")
  /\ UNCHANGED <<orders, failures, disturbed>>

PublishFailsInHandler(r, sent, released) ==
  /\ step[r] \in {"success", "failed"}
  /\ Loop!HandlerFails(r, FALSE, released)
  /\ results' = IF sent THEN Answered(r) ELSE results
  /\ UNCHANGED <<step, orders, failures, disturbed>>

PublishFailsUnnoticed(r, sent, released) ==
  /\ step[r] \in {"success", "failed"}
  /\ Loop!HandlerSucceeds(r)
  /\ results' = IF sent THEN Answered(r) ELSE results
  /\ Goto(r, "none")
  /\ UNCHANGED <<orders, failures, disturbed>>

(* The result reaches its topic or not, and the call returns an error. *)
PublishFails(r, sent, released) ==
  /\ step[r] \in {"success", "failed"}
  /\ Loop!HandlerFails(r, FALSE, released)
  /\ results' = IF sent THEN Answered(r) ELSE results
  /\ Goto(r, "none")
  /\ UNCHANGED <<orders, failures, disturbed>>

Handle(r) ==
  \/ Insert(r)
  \/ InsertRefused(r)
  \/ ReadBack(r)
  \/ PublishResult(r)

HandleFails(r) ==
  \/ \E released \in BOOLEAN : DecodeFails(r, released)
  \/ \E written \in BOOLEAN : InsertFails(r, written)
  \/ ReadBackFails(r)
  \/ \E sent, released \in BOOLEAN : PublishFails(r, sent, released)

-----------------------------------------------------------------------------
Proceed(r) ==
  \/ Around(Loop!Fetch(r))
  \/ Around(Loop!Leave(r))
  \/ Claim(r)
  \/ UnwrapFails(r)
  \/ Handle(r)
  \/ Around(Loop!Enqueue(r))
  \/ Around(Loop!DeadLetter(r))
  \/ Around(Loop!Commit(r))

Fail(r) ==
  \/ Around(Loop!FetchFails(r))
  \/ \E written \in BOOLEAN : Around(Loop!ClaimFails(r, written))
  \/ HandleFails(r)
  \/ Around(Loop!EnqueueFails(r))
  \/ Around(Loop!DeadLetterFails(r))
  \/ Around(Loop!CommitFails(r))
  \/ \E sent \in BOOLEAN : Crash(r, sent)

Next ==
  \/ \E e \in Events : Around(Loop!Publish(e))
  \/ Around(Loop!Requeue)
  \/ \E r \in Replicas :
       \/ Around(Loop!RetryQueueStops(r))
       \/ Around(Loop!Rebalance(r))
       \/ Around(Loop!Takeover(r))
       \/ Proceed(r)
       \/ Fail(r)
       \/ Around(Loop!Restart(r))

Spec == Init /\ [][Next]_vars

-----------------------------------------------------------------------------
(* Properties.                                                             *)

TypeOK ==
  /\ step \in [Replicas -> {"none", "create", "read", "success", "failed"}]
  /\ \A r \in Replicas : step[r] = "none" <=> pc[r] # "handle"
  /\ orders \in [Orders -> Keys \cup {Null}]
  /\ results \in [Events -> SUBSET {"success", "failed"}]
  /\ failures \in 0..MaxFailures
  /\ disturbed \in SUBSET Events

(* The saga is told "success" only of an order that exists, whatever       *)
(* failed, was retried or was cut between the commit and the result.       *)
SuccessIsTrue ==
  \A e \in Events : "success" \in results[e] => orders[OrderOf[e]] # Null

HeldByAnother(e) == \E o \in Orders \ {OrderOf[e]} : orders[o] = KeyOf[e]

(* The saga is told "failed" because another order holds the key, unless   *)
(* the write or the read-back failed: then the order may exist all the     *)
(* same, since the commit and the result are not one step.                 *)
RefusalIsTrue ==
  \A e \in Events \ disturbed :
    "failed" \in results[e] => HeldByAnother(e)

(* A command that is handled again, after a result that was not            *)
(* acknowledged, is given the other answer only when the order was created *)
(* in between under another key, its own being taken by another order.     *)
AnswersAgree ==
  \A e \in Events \ disturbed :
    results[e] = {"success", "failed"}
      => orders[OrderOf[e]] \notin {KeyOf[e], Null}

(* No create command that the group has passed leaves its saga waiting     *)
(* unnoticed: a result was published, or the command is dead-lettered, in  *)
(* the retry queue, still ahead in the log or in a replica's hand, or its  *)
(* claim is stuck.  The exception is EventConsumer's: a command that its   *)
(* replica could neither retry nor dead-letter after another replica had   *)
(* gone past it.                                                           *)
NoCommandUnanswered ==
  \A i \in 1..committed :
    LET e == log[i].event
    IN  \/ results[e] # {}
        \/ e \in dlq \cup stuck \cup dropped
        \/ \E j \in 1..Len(retryq) : retryq[j].event = e
        \/ \E j \in committed + 1 .. Len(log) : log[j].event = e
        \/ \E r \in Replicas : Loop!InHand(r, e)

=============================================================================
