---------------------------- MODULE EventConsumer ----------------------------
(***************************************************************************)
(* The Kafka consumers of this service: the loop of broker.Subscribe over  *)
(* one topic partition, in each replica, with their claims in PostgreSQL   *)
(* (processed_events), the retry queue and the dead-letter topic.          *)
(*                                                                         *)
(* A loop fetches a message, claims its event, runs the handler and        *)
(* commits the offset; a handler error releases the claim and sends a copy *)
(* to the retry queue, or the message to the dead-letter topic, after      *)
(* which Subscribe returns.  The loops share a consumer group, which gives *)
(* the partition to one of them at a time; it may be given to another      *)
(* while a handler runs, which nothing interrupts.  A process may stop     *)
(* anywhere; whoever gets the partition fetches from the committed offset. *)
(***************************************************************************)
EXTENDS Integers, Sequences, FiniteSets

CONSTANTS
  Events,        \* event ids
  Poison,        \* the events whose envelope cannot be unwrapped
  Replicas,      \* the processes of the service
  MaxAttempts,   \* DefaultRetryPolicy.MaxAttempts
  MaxPublished,  \* bound on the messages published, duplicates included
  MaxRestarts,   \* bound on the processes started again
  MaxRebalances, \* bound on rebalances that no stopped loop calls for
  MaxFaults      \* bound on crashes and failing calls

ASSUME EventsAssumption == Poison \subseteq Events

ASSUME ReplicasAssumption == IsFiniteSet(Replicas)

ASSUME BoundsAssumption ==
  /\ MaxAttempts \in Nat \ {0}
  /\ MaxPublished \in Nat
  /\ MaxRestarts \in Nat
  /\ MaxRebalances \in Nat
  /\ MaxFaults \in Nat

Message == [event: Events, attempt: 1..MaxAttempts]

VARIABLES
  log,        \* the messages of the partition
  committed,  \* the committed offset
  owner,      \* the replica that the group has given the partition to
  cursor,     \* how far each replica's reader has read the partition
  position,   \* the message that each replica has in hand, 0 for none
  pc,         \* what each replica's loop does with it next
  claims,     \* table processed_events
  retryq,     \* messages in the retry topic
  draining,   \* the replicas whose retry queue runs
  dlq,        \* events in the dead-letter topic
  published, restarts, rebalances, faults,
  succeeded,  \* history: how often a handler succeeded, per event
  stuck,      \* history: events whose claim outlived a failed handling
  dropped     \* history: events that were neither retried nor dead-lettered
              \* by a replica that others had overtaken

topics == <<log, retryq, dlq>>
group == <<committed, owner, cursor>>
counters == <<published, restarts, rebalances, faults>>
history == <<succeeded, stuck, dropped>>
vars == <<topics, group, position, pc, claims, draining, counters, history>>

Init ==
  /\ log = <<>>
  /\ committed = 0
  /\ owner \in Replicas
  /\ cursor = [r \in Replicas |-> 0]
  /\ position = [r \in Replicas |-> 0]
  /\ pc = [r \in Replicas |-> IF r = owner THEN "fetch" ELSE "out"]
  /\ claims = {}
  /\ retryq = <<>>
  /\ draining = Replicas
  /\ dlq = {}
  /\ published = 0
  /\ restarts = 0
  /\ rebalances = 0
  /\ faults = 0
  /\ succeeded = [e \in Events |-> 0]
  /\ stuck = {}
  /\ dropped = {}

Current(r) == log[position[r]]

Event(r) == Current(r).event

(* The loop of r goes on with the message in hand. *)
Goto(r, label) == pc' = [pc EXCEPT ![r] = label] /\ UNCHANGED position

(* It has done with it. *)
End(r, label) ==
  /\ pc' = [pc EXCEPT ![r] = label]
  /\ position' = [position EXCEPT ![r] = 0]

Fault == faults < MaxFaults /\ faults' = faults + 1

(* The message of r is before the committed offset, or another replica has *)
(* read past it and may yet commit what comes after it.                    *)
Overtaken(r) ==
  \/ position[r] <= committed
  \/ \E s \in Replicas \ {r} :
       \/ position[r] <= position[s]
       \/ pc[s] \notin {"out", "stopped"} /\ position[r] <= cursor[s]

(* The event of r, which is not sent on, is one that nobody fetches again. *)
Drop(r) == dropped' = IF Overtaken(r) THEN dropped \cup {Event(r)} ELSE dropped

-----------------------------------------------------------------------------
(* Outside of the loops.                                                   *)

(* A producer publishes an event, possibly not for the first time. *)
Publish(e) ==
  /\ published < MaxPublished
  /\ published' = published + 1
  /\ log' = Append(log, [event |-> e, attempt |-> 1])
  /\ UNCHANGED <<retryq, dlq, group, position, pc, claims, draining, restarts,
                 rebalances, faults, history>>

(* A retry queue that runs puts a message back on its topic. *)
Requeue ==
  /\ draining # {}
  /\ retryq # <<>>
  /\ log' = Append(log, Head(retryq))
  /\ retryq' = Tail(retryq)
  /\ UNCHANGED <<dlq, group, position, pc, claims, draining, counters, history>>

(* A retry queue ends; its error is discarded, and the loop goes on. *)
RetryQueueStops(r) ==
  /\ Fault
  /\ r \in draining
  /\ draining' = draining \ {r}
  /\ UNCHANGED <<topics, group, position, pc, claims, published, restarts,
                 rebalances, history>>

(* The partition goes to a replica whose loop runs, busy with a message of *)
(* an earlier assignment or not.                                           *)
Assign(r) ==
  /\ pc[r] # "stopped"
  /\ owner' = r
  /\ cursor' = [cursor EXCEPT ![r] = committed]
  /\ pc' = [pc EXCEPT ![r] = IF @ = "out" THEN "fetch" ELSE @]
  /\ UNCHANGED <<topics, committed, position, claims, draining, published,
                 restarts, faults, history>>

(* The group rebalances although no loop has stopped: a replica joins, or  *)
(* the coordinator takes a busy one for dead.                              *)
Rebalance(r) ==
  /\ rebalances < MaxRebalances
  /\ rebalances' = rebalances + 1
  /\ Assign(r)

(* The owner has left the group. *)
Takeover(r) ==
  /\ pc[owner] \in {"out", "stopped"}
  /\ Assign(r)
  /\ UNCHANGED rebalances

-----------------------------------------------------------------------------
(* The loop of replica r.                                                  *)

(* A replica may fetch on before it hears that the partition is another's. *)
Fetch(r) ==
  /\ pc[r] = "fetch"
  /\ cursor[r] < Len(log)
  /\ cursor' = [cursor EXCEPT ![r] = @ + 1]
  /\ position' = [position EXCEPT ![r] = cursor[r] + 1]
  /\ pc' = [pc EXCEPT ![r] = "claim"]
  /\ UNCHANGED <<topics, committed, owner, claims, draining, counters, history>>

(* It hears of it. *)
Leave(r) ==
  /\ pc[r] = "fetch"
  /\ owner # r
  /\ End(r, "out")
  /\ UNCHANGED <<topics, group, claims, draining, counters, history>>

(* FetchMessage fails, and Subscribe returns the error. *)
FetchFails(r) ==
  /\ Fault
  /\ pc[r] \in {"out", "fetch"}
  /\ End(r, "stopped")
  /\ UNCHANGED <<topics, group, claims, draining, published, restarts,
                 rebalances, history>>

ClaimIgnoringConflict(r) ==
  /\ pc[r] = "claim"
  /\ claims' = claims \cup {Event(r)}
  /\ Goto(r, "handle")
  /\ UNCHANGED <<topics, group, draining, counters, history>>

ClaimWaiting(r) ==
  /\ pc[r] = "claim"
  /\ Event(r) \notin claims
  /\ claims' = claims \cup {Event(r)}
  /\ Goto(r, "handle")
  /\ UNCHANGED <<topics, group, draining, counters, history>>

(* An event claimed before is skipped, and its offset is not committed. *)
Claim(r) ==
  /\ pc[r] = "claim"
  /\ claims' = claims \cup {Event(r)}
  /\ IF Event(r) \in claims THEN End(r, "fetch") ELSE Goto(r, "handle")
  /\ UNCHANGED <<topics, group, draining, counters, history>>

(* The claim could not be written, or was and the answer got lost:         *)
(* Subscribe returns the error.                                            *)
ClaimFails(r, written) ==
  /\ Fault
  /\ pc[r] = "claim"
  /\ written => Event(r) \notin claims
  /\ claims' = IF written THEN claims \cup {Event(r)} ELSE claims
  /\ stuck' = IF written THEN stuck \cup {Event(r)} ELSE stuck
  /\ End(r, "stopped")
  /\ UNCHANGED <<topics, group, draining, published, restarts, rebalances,
                 succeeded, dropped>>

(* The envelope cannot be unwrapped; the claim is not released. *)
UnwrapFails(r) ==
  /\ pc[r] = "handle"
  /\ Event(r) \in Poison
  /\ stuck' = stuck \cup {Event(r)}
  /\ Goto(r, "deadletter")
  /\ UNCHANGED <<topics, group, claims, draining, counters, succeeded,
                 dropped>>

HandlerSucceeds(r) ==
  /\ pc[r] = "handle"
  /\ Event(r) \notin Poison
  /\ succeeded' = [succeeded EXCEPT ![Event(r)] = @ + 1]
  /\ Goto(r, "commit")
  /\ UNCHANGED <<topics, group, claims, draining, counters, stuck, dropped>>

HandlerFailsKeepingClaim(r, permanent, released) ==
  /\ Fault
  /\ pc[r] = "handle"
  /\ Event(r) \notin Poison
  /\ Goto(r, IF ~permanent /\ Current(r).attempt < MaxAttempts
             THEN "retry" ELSE "deadletter")
  /\ UNCHANGED <<topics, group, claims, draining, published, restarts, rebalances,
                 history>>

HandlerFailsOnceMore(r, permanent, released) ==
  /\ Fault
  /\ pc[r] = "handle"
  /\ Event(r) \notin Poison
  /\ claims' = IF released THEN claims \ {Event(r)} ELSE claims
  /\ stuck' = IF released THEN stuck ELSE stuck \cup {Event(r)}
  /\ Goto(r, IF ~permanent /\ Current(r).attempt <= MaxAttempts
             THEN "retry" ELSE "deadletter")
  /\ UNCHANGED <<topics, group, draining, published, restarts, rebalances,
                 succeeded, dropped>>

(* The handler returns an error, permanent or not, and the claim is        *)
(* released; an error of Release itself is ignored.                        *)
HandlerFails(r, permanent, released) ==
  /\ Fault
  /\ pc[r] = "handle"
  /\ Event(r) \notin Poison
  /\ claims' = IF released THEN claims \ {Event(r)} ELSE claims
  /\ stuck' = IF released THEN stuck ELSE stuck \cup {Event(r)}
  /\ Goto(r, IF ~permanent /\ Current(r).attempt < MaxAttempts
             THEN "retry" ELSE "deadletter")
  /\ UNCHANGED <<topics, group, draining, published, restarts, rebalances,
                 succeeded, dropped>>

EnqueueDropped(r) ==
  /\ pc[r] = "retry"
  /\ End(r, "fetch")
  /\ UNCHANGED <<topics, group, claims, draining, counters, history>>

(* A copy of the message goes to the retry queue; the offset of the        *)
(* original is not committed here, but will be with a later message.       *)
Enqueue(r) ==
  /\ pc[r] = "retry"
  /\ retryq' = Append(retryq, [Current(r) EXCEPT !.attempt = @ + 1])
  /\ End(r, "fetch")
  /\ UNCHANGED <<log, dlq, group, claims, draining, counters, history>>

EnqueueFails(r) ==
  /\ Fault
  /\ pc[r] = "retry"
  /\ Drop(r)
  /\ End(r, "stopped")
  /\ UNCHANGED <<topics, group, claims, draining, published, restarts,
                 rebalances, succeeded, stuck>>

(* Subscribe returns after a dead letter, written or not. *)
DeadLetter(r) ==
  /\ pc[r] = "deadletter"
  /\ dlq' = dlq \cup {Event(r)}
  /\ End(r, "stopped")
  /\ UNCHANGED <<log, retryq, group, claims, draining, counters, history>>

DeadLetterFails(r) ==
  /\ Fault
  /\ pc[r] = "deadletter"
  /\ Drop(r)
  /\ End(r, "stopped")
  /\ UNCHANGED <<topics, group, claims, draining, published, restarts,
                 rebalances, succeeded, stuck>>

(* The offset goes to the generation that the reader is in by then; the    *)
(* coordinator takes it from any member of it, and may so move back.       *)
Commit(r) ==
  /\ pc[r] = "commit"
  /\ committed' = position[r]
  /\ End(r, "fetch")
  /\ UNCHANGED <<topics, owner, cursor, claims, draining, counters, history>>

(* Also because the reader has not heard of the new generation. *)
CommitFails(r) ==
  /\ Fault
  /\ pc[r] = "commit"
  /\ End(r, "stopped")
  /\ UNCHANGED <<topics, group, claims, draining, published, restarts,
                 rebalances, history>>

(* The process stops, and its retry queue with it; an event it was         *)
(* handling stays claimed.                                                 *)
Crash(r) ==
  /\ Fault
  /\ pc[r] # "stopped"
  /\ stuck' = IF pc[r] = "handle" THEN stuck \cup {Event(r)} ELSE stuck
  /\ IF pc[r] \in {"retry", "deadletter"} THEN Drop(r) ELSE UNCHANGED dropped
  /\ draining' = draining \ {r}
  /\ End(r, "stopped")
  /\ UNCHANGED <<topics, group, claims, published, restarts, rebalances,
                 succeeded>>

(* A new process subscribes and joins the group; nothing restarts the loop *)
(* inside a process.                                                       *)
Restart(r) ==
  /\ pc[r] = "stopped"
  /\ restarts < MaxRestarts
  /\ restarts' = restarts + 1
  /\ draining' = draining \cup {r}
  /\ End(r, "out")
  /\ UNCHANGED <<topics, group, claims, published, rebalances, faults,
                 history>>

(* Steps of a loop that no failure decides. *)
Proceed(r) ==
  \/ Fetch(r)
  \/ Leave(r)
  \/ Claim(r)
  \/ UnwrapFails(r)
  \/ HandlerSucceeds(r)
  \/ Enqueue(r)
  \/ DeadLetter(r)
  \/ Commit(r)

Fail(r) ==
  \/ FetchFails(r)
  \/ \E written \in BOOLEAN : ClaimFails(r, written)
  \/ \E permanent, released \in BOOLEAN : HandlerFails(r, permanent, released)
  \/ EnqueueFails(r)
  \/ DeadLetterFails(r)
  \/ CommitFails(r)
  \/ Crash(r)

Next ==
  \/ \E e \in Events : Publish(e)
  \/ Requeue
  \/ \E r \in Replicas :
       \/ RetryQueueStops(r)
       \/ Rebalance(r)
       \/ Takeover(r)
       \/ Proceed(r)
       \/ Fail(r)
       \/ Restart(r)

Spec == Init /\ [][Next]_vars

(* The loops do not pause, the coordinator gives the partition of a        *)
(* replica that has left to one that is there, and a retry queue that runs *)
(* is drained.  Neither a producer nor a new process is owed.              *)
Fairness ==
  /\ \A r \in Replicas : WF_vars(Proceed(r))
  /\ WF_vars(\E r \in Replicas : Takeover(r))
  /\ WF_vars(Requeue)

FairSpec == Spec /\ Fairness

-----------------------------------------------------------------------------
(* Properties.                                                             *)

Labels ==
  {"out", "fetch", "claim", "handle", "retry", "deadletter", "commit", "stopped"}

TypeOK ==
  /\ log \in Seq(Message)
  /\ committed \in 0..Len(log)
  /\ owner \in Replicas
  /\ cursor \in [Replicas -> 0..Len(log)]
  /\ position \in [Replicas -> 0..Len(log)]
  /\ pc \in [Replicas -> Labels]
  /\ \A r \in Replicas : position[r] > 0 <=> pc[r] \notin {"out", "fetch", "stopped"}
  /\ claims \in SUBSET Events
  /\ retryq \in Seq(Message)
  /\ draining \in SUBSET Replicas
  /\ dlq \in SUBSET Events
  /\ published \in 0..MaxPublished
  /\ restarts \in 0..MaxRestarts
  /\ rebalances \in 0..MaxRebalances
  /\ faults \in 0..MaxFaults
  /\ succeeded \in [Events -> Nat]
  /\ stuck \in SUBSET Events
  /\ dropped \in SUBSET Events

Owed == {log[i].event : i \in 1..Len(log)}

Ledger == INSTANCE EventLedger WITH
  owed <- Owed, effects <- succeeded, spent <- stuck, buried <- dlq

(* However often an event is published, redelivered after a restart or a   *)
(* rebalance, or put back by the retry queue, one handler of one replica   *)
(* succeeds with it at most, and none after a claim was left behind; a     *)
(* dead letter is one of a published event.                                *)
ImplementsLedger == Ledger!Spec

Handling(r, e) == pc[r] = "handle" /\ Event(r) = e

(* A claim stands for a handling that succeeded, that is going on, or that *)
(* left it behind: the process stopped in the handler, Release failed, the *)
(* envelope could not be unwrapped, or the claim was written unanswered.   *)
ClaimsExplained ==
  \A e \in claims :
    \/ succeeded[e] = 1
    \/ \E r \in Replicas : Handling(r, e)
    \/ e \in stuck

(* What may become of an event that is not to be fetched before offset. *)
Accounted(e, offset) ==
  \/ succeeded[e] = 1
  \/ e \in dlq \cup stuck
  \/ \E j \in 1..Len(retryq) : retryq[j].event = e
  \/ \E j \in offset + 1 .. Len(log) : log[j].event = e

(* A replica has claimed the event and goes on with it. *)
InHand(r, e) == pc[r] \in {"handle", "retry", "deadletter"} /\ Event(r) = e

(* Committing an offset also commits the messages before it: those that    *)
(* went to the retry queue without a commit of their own, and those that   *)
(* were skipped because another replica had claimed them and may yet fail  *)
(* with them.  None of them is lost silently: its event succeeded, is      *)
(* dead-lettered, is in the retry queue or still ahead in the log, its     *)
(* claim is stuck, or a replica goes on with it.  The exception is named:  *)
(* an event that its replica could neither retry nor dead-letter after     *)
(* another replica had gone past it.                                       *)
NoSilentLoss ==
  \A i \in 1..committed :
    LET e == log[i].event
    IN  \/ Accounted(e, committed)
        \/ \E r \in Replicas : InHand(r, e)
        \/ e \in dropped

Published(e) == e \in Owed

Outcome(e) == succeeded[e] = 1 \/ e \in dlq \cup stuck

(* As long as a loop and a retry queue run, every published event settles: *)
(* it succeeds, is dead-lettered, is skipped because its claim is stuck,   *)
(* or is dropped by a replica that another one had overtaken.              *)
Settles ==
  \A e \in Events :
    Published(e) ~>
      \/ Outcome(e) \/ e \in dropped
      \/ \A r \in Replicas : pc[r] = "stopped"
      \/ draining = {}

=============================================================================
