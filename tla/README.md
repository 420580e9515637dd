# Verification of order-service

TLA+ modules, TLC configurations and TLAPS proofs for the order service: the
order write model in PostgreSQL, the read models in Redis, and the Kafka
consumers that tie them to the rest of the system. Paths below are relative to
the repository root.

- [The system](#the-system)
- [Modules](#modules)
- [Runs](#runs)
- [Proofs](#proofs)
- [Disagreements with the documentation](#disagreements-with-the-documentation)
- [What is not modelled](#what-is-not-modelled)
- [Plan](#plan)

## The system

The service owns orders. A saga (another service) creates an order, asks for
payment, and later reports funding, failure, release and completion; buyers
and sellers answer requirement questions, deliver, ask for revisions and open
disputes. Every change goes through `internal/application/service.go` to
`internal/infra/write/postgres/repository.go`; after the change the service
writes a copy to Redis (`internal/infra/read/redis`) and publishes an event
whose consumer, the service itself, writes the copy again.

| Component | State | Operations | What makes it correct |
|---|---|---|---|
| Order write model: `repository.go`, commands of `service.go` | tables `orders`, `order_gig_snapshot`, `order_checkout_sessions`, `order_deliveries`, `order_delivery_files`, `order_revision_requests`, `order_disputes` | Create, MarkFunded, MarkFailed, SaveCheckoutSession, SaveDelivery, RequestRevision, OpenDispute, MarkReleasePending, MarkCompleted, MarkDisputeResolved, MarkReleaseFailed | row and evidence tables agree whatever the order of the calls; repeated create commands are harmless; one key, one order; the stored checkout URL pays the stored intent |
| Requirements: same files | `order_question_snapshots`, `order_requirement_answers`, `order_buyer_messages`, `order_attachments` | CreateDraftOrder, SaveRequirementAnswers, SaveBuyerInitialMessage, AttachFile, HasConfirmPrerequisites | completed means answered, and stays so, although the loops commit statement by statement |
| Delivery read model: `service.go`, `redis/repository.go`, `kafka/subscribers.go` | Redis key `order_delivery:<id>`, hints on the delivery topic | SaveDelivery after its commit, GetOrderDeliveryByID, the hint consumer | a copy is never torn the wrong way round; a stale copy is repaired |
| Preview and requirements read models: same files | Redis keys `order:<id>` and `requirements:<id>`, full-copy events | every command, the reads, two consumers | no copy shows a status with gig content from before it; a stale copy is about to be replaced; a settled one stays settled |
| Event consumer: `kafka/broker.go` | claims in `processed_events`, committed offset, retry topic, dead-letter topic | fetch, claim, handle, release, retry, dead-letter, commit, in replicas that share a group | no event succeeds twice; none is lost silently but for one named case; each settles |
| Create command handling: `kafka/subscribers.go`, `service.Create`, `repository.go` | the above, table `orders`, results published to the saga | decode, create, read back, publish the result | the saga is told the truth; no command passes unanswered unnoticed; the loop stays the loop |
| Command subscription: `kafka/subscribers.go` | which topic is subscribed | Subscribe of three topics | every published command is consumed |
| Recovery consumer group: `kafka/broker.go`, `recovery_subscriber.go` | generation, partition offsets, claims, completion events, dead letters | claim, create the draft, publish the completion, dead-letter, commit | no command handled twice or in two hands; none committed and lost; each settles |
| Reads of one order: `service.go`, `redis/mapper.go`, read handlers of `grpc/server.go`, file and user clients | the three Redis copies, the loaded order of each call | GetOrderPreviewByID, GetOrderRequirementsByID, GetOrderDeliveryByID | only the two parties are served; a party is not refused without a reason; gaps in a copy are filled by the next read |
| Outbox: migration 000008 | `outbox_events` | row triggers | one event per change |
| NATS adapter, command handlers of the gRPC server, configuration, wiring, metrics | none of their own | | |

How they interact. Callers reach the write model over gRPC and over the
command topics; both may repeat a call. A command commits its transaction
first, and refreshes copies and publishes events afterwards, so every failure
or crash after the commit leaves the copies behind. Consumers run one
goroutine per topic in each replica (`internal/fx/presentation.go`) and are
not restarted inside a process; only the recovery group is. The consumers of all
replicas are members of one group, which may take a partition from a replica
while its handler runs.

The hard behaviours are: commands in any order and more than once (no UPDATE
looks at the status it overwrites); SaveCheckoutSession and the requirement
loops, which commit in the middle; rebuilds of one copy by several actors, each
from two SELECTs outside a transaction and with an unguarded SET; lost and
repeated hints; claims committed apart from the work they stand for; the
first SELECT of a read, whose failure cannot be told from a missing order;
copies written while another service was down; offsets
committed cumulatively over messages that were skipped or sent to a retry
queue; consumers, and retry queues, that stop for good; handlers that outlive the
replica's hold on the partition, or the generation they were started in. `PROJECT.json` lists each one at its
line, with the property that covers it, or the reason why none does; where a property
excepts the hazard's own case, because the code leaves it open, the entry says so.

## Modules

One module per component, an `MC` module with its small instance, a `Proofs`
module with its theorems. Three modules, OrderRecord, EventLedger and ReadModel, are abstract
specifications: they say what a component promises and nothing about how, and
the components are shown to implement them.

```
OrderLifecycle     ==> OrderRecord      (ImplementsRecord)
EventConsumer      ==> EventLedger      (ImplementsLedger)
RecoveryConsumer   ==> EventLedger      (ImplementsLedger)
CreateConsumer     ==> EventConsumer    (LoopImplemented, proved), and so EventLedger
DeliveryProjection ==> ReadModel        (ImplementsReadModel)
FullCopyProjection ==> ReadModel        (ImplementsReadModel)
```

### OrderLifecycle

`orders[o]` is the row, `Null` while there is none; the other variables are the
evidence tables. A repository method that is one statement or one transaction
is one action with the name of the method; an UPDATE that matches no row leaves
its action disabled. SaveCheckoutSession is BeginCheckout (the UPDATE of
`orders`), EndCheckout (the upsert of the session) and CutCheckout (the call
ends between them). `torn` is a history variable: orders whose checkout calls
overlapped or were cut. Timestamps are booleans (set or not); a checkout URL is
the intent it pays. The create commands are a CONSTANT, because a command that
is sent again is the same command: the instance has one order created twice
with different parties and gig content, and a second order under the same key.
MarkPaid has no caller and is left out.

### OrderRecord

What an order promises to its parties: terms that are never changed (buyer,
seller, key and gig), a key of its own, no return to the first status, and facts
(delivered, completed, disputed), files and revisions that are never forgotten.
The action property `ImplementsRecord` of OrderLifecycle maps the tables to it:
the terms are columns of `orders`, the facts its three timestamps, `revised` its
revision counter, `handed` the rows of `order_delivery_files`. Thirteen actions
become four; the gig snapshot is not part of the terms, as the code overwrites it
(see below), and statuses other than the first are not, as no UPDATE looks at
the one it overwrites.

### OrderRequirements

One order, as every table is keyed by it. CreateDraftOrder is BeginDraft (the
order's transaction), one InsertQuestion per statement of the loop, FinishDraft
(the requirements are read back; the call fails with ErrOrderNotFound when
there is nothing to show) and CutDraft (the call ends early).
SaveRequirementAnswers is BeginAnswers, one SaveAnswer per statement and
EndAnswers. The foreign key from answers to questions is SaveAnswer's guard.
`drafted` and `refused` are history: commands answered with success and with
ErrOrderNotFound. `FinishDraft` also says that a draft without questions is
refused, after its order was committed, unless it skips the projection or a
buyer message is there.

### DeliveryProjection

The canonical delivery (`saved`), its Redis copy (`cache`), the number of
refresh hints queued (`hints`), and a program counter for each saver
(SaveDelivery), reader (GetOrderDeliveryByID) and consumer. All rebuild with
ReadRow, ReadFiles and Set; savers and readers then Publish a hint. The k-th
delivery replaces row k and adds file k, so a copy is a pair of numbers.
Failures of a SELECT, a SET or its answer, a publish, a handler and an offset
commit are actions, bounded by MaxFaults; what the consumer loop makes of a
failing handler is folded into HandlerFails (the hint is kept or gone, the loop
goes on or has returned), the detail being EventConsumer's. Two history
variables name the two ways in which the code gives up on convergence: `lost`
(a hint was owed or queued and is gone) and `overlap` (the last hint was
fetched while another consumer was rebuilding). Without `overlap` in the
property TLC finds a stale copy that nothing repairs: the consumer that read
first writes last. Without `lost`, a failed publish is enough.

### FullCopyProjection

The preview copy (`Preview = TRUE`) or the requirements copy (`FALSE`) of one
order. A writer is a command: Commit, ReadMain, ReadGig (preview only: GetByID
reads the gig snapshot with a second SELECT), Set, Publish. A reader starts
with Lookup (a preview read that finds a copy SETs and publishes that very
copy), Miss or LookupFails. A consumer starts with Fetch of any queued copy and
SETs it. CommitOnly is a create with SkipProjection. A copy is a pair of version
numbers, one for the row (or the questions, answers and message), one for the
gig snapshot; `sent` counts the queued events of each copy, since events have
no key and arrive in any order. `empty` says that nothing can be read back: no
order yet, or a blanked message and no questions. The failures are those of
DeliveryProjection, and Cut for a call that ends after its commit.

The history variables say what the code does not promise. `lost`: since the
last commit a current copy was dropped (a failed read-back or publish, a crash,
a consumer that failed for good). `crowded`: the last commit met other copies
under way, or a preview read found an outdated copy and is about to write it
back. Without `crowded` in StaleMeansCopyDue two commands are enough to
violate it: the copy of the first is written last and nothing replaces it. What
holds without exception is CopiesWellFormed, and that a state in which all
agree is left by commits only (SettledUntilCommit).

### ReadModel

What the three Redis copies promise to their readers, whatever carries the
refreshes: an outdated copy is owed a current one, which is under way (`due`),
unless that repair was forgone (`waived`). Its steps say what may go wrong and
through whom. A Commit makes what is under way outdated; a Slip shows an
outdated copy, but only one that was under way (`behind`) or when there is
nothing to read; an Echo is a read that passes on the outdated copy it found;
Show and Carry are all the rest. Nothing but a Commit and an Echo puts something
outdated under way, and any other step forgoes a repair only while something is
under way.

DeliveryProjection's mapping has a hint that is queued or owed, or a consumer
whose reads are current, as `due`, an actor that has read part of an older
delivery as `behind`, and `lost` or `overlap` as `waived`; it has no Echo, as a
delivery read rebuilds from the tables. FullCopyProjection's has a current copy
in a hand or in the queue as `due`, another copy there as `behind`, and `lost` or
`crowded` as `waived`. Both make the exceptions of the stale-copy invariants part
of the specification: the invariants StaleMeansRepairPending and
StaleMeansCopyDue are `Owed`, and SettledUntilCommit follows from its steps while
something is stored. TLC checks the refinement in place of the three, which are
theorems of their own.

### EventConsumer

The loops of `broker.Subscribe` in all replicas, over one partition. A loop is
Fetch, Claim (an INSERT into `processed_events`; a claim that is there means
skip, without a commit), UnwrapFails, HandlerSucceeds, HandlerFails (the claim is
released, or Release fails and is ignored), Enqueue to the retry queue,
DeadLetter (after which Subscribe returns), Commit; each call may also fail, and
Crash ends a process anywhere. Restart is a new process.

The reader of each loop is a member of one consumer group (`GroupID`), so
`owner`, the replica that the group has given the partition to, changes:
Takeover when the owner has left, Rebalance when a replica joins or a busy one
is taken for dead. Whoever gets the partition fetches from the committed offset
(`cursor`), while the replica that had it goes on with its message, which
nothing interrupts, and may even fetch more before it hears of the change
(Leave). An offset is committed under the generation that the reader is in by
then, so that the offset of a replica that is no longer the owner may be
accepted, and move the committed one back (Commit), or be refused (CommitFails).

Idempotency, retry queue and group reader are code outside of the repository,
modelled from their use here: a claim is exclusive, also across replicas; a retry
queue puts the message back with its attempt number (Requeue). Each Subscribe
starts one in a goroutine whose error is discarded and which nothing restarts
(`broker.go:76`), hence `draining` and RetryQueueStops. `succeeded`, `stuck` and
`dropped` are history.

`dropped` is the one way in which an event is lost with no trace. The new owner
finds the event claimed, skips it and commits past it, while the old owner still
handles it; then that handling fails, and the retry or the dead letter cannot
be written, or the process stops before it is. Nobody fetches the event again.
NoSilentLoss and Settles except it by this name, and only when the replica has
been overtaken in that sense (Overtaken): a failed Enqueue alone loses nothing,
as the message is fetched again. No document or test of the repository promises
that every event is delivered, so this is an exception, not a disagreement.

### EventLedger

What a consumer promises about each event, however its messages are duplicated,
redelivered, retried or spread over replicas: it takes effect at most once, and
never after it was `spent`, that is, after a handling ended with the claim left
behind. It does not promise that every event takes effect; that is what
NoSilentLoss, Settles and Consumed are about. EventConsumer's mapping reads
`effects` off `succeeded`, `spent` off `stuck`, and `buried` off its dead letters;
RecoveryConsumer's adds the commands given up without one (`dropped`), and its
crash of a replica spends what all its workers had in hand, hence the sets in
`Abandon`.

### CreateConsumer

The composition of EventConsumer (`Loop == INSTANCE EventConsumer`, over the
same variables) with the handler of create commands in each replica. The
handler's steps lie between the loop's Claim and its HandlerSucceeds or
HandlerFails: DecodeFails, Insert (repo.Create commits; an order that exists
takes the conflict branch), InsertRefused (another order holds the key),
InsertFails (the transaction fails, or its commit is not answered), ReadBack and
ReadBackFails (repo.Create reads the order after the commit and returns that
error too), PublishResult and PublishFails (the result on its topic or not).
`step[r]` is the program counter of replica r's handler, `results` what was
published for each event. The row is reduced to its key; the refresh of the
copies returns no error and is FullCopyProjection's. The loop's other actions
are taken as they are (`Around`). `disturbed`, a history variable, holds the
events whose write or read-back failed: for those alone "failed" may be
published although the order exists, which is the hazard at `service.go:102`.

A command may be answered twice, when the first answer was published but not
acknowledged. AnswersAgree says when the two may contradict: the key of the
command belonged to another order at the first try, and before the second the
order was created by another command, under another key. TLC reaches that state.

EventConsumer thereby is the abstract specification of these consumers: each
step is one of its loops, or none, which the theorem LoopImplemented states and
TLAPS proves. NoCommandUnanswered is NoSilentLoss in terms of answers, with the
same exception. A payload that cannot be decoded takes its replica down after
the dead letter, whose claim is released first: the replica that has the
partition next reads the message again, unless a later offset was committed, and
stops as well.

### RecoveryConsumer

`runExplicitConsumerGroup` and the handler it runs. A worker is a pair of a
member (a replica) and a partition; `pc` says what it does next and `position`
which message it has in hand, while `owner` is the group's view: the member
each partition is given to. The two differ, and that is the point: handlers run
with a context that the end of a generation does not cancel, so a worker of an
old generation goes on with its message while another replica's worker reads
the same partition from the committed offset. `Live` (the worker's generation
is the group's) decides whether a commit is accepted. A generation is given out
by NextGeneration, when the function of a member has returned because all its
workers have ended, or by Rebalance, when the coordinator wants one.

The steps of a worker are Fetch, Claim (a command found claimed is committed
without being handled), CreateDraft and Complete (the two halves of the
handler), UnwrapFails (the worker ends with the claim held), HandlerFails (the
claim is released, or the error of Release ignored), DeadLetter, Commit. The
failures of each call and the loss of each answer are actions. Crash ends a
process anywhere; it is `down` until Restart, which nothing obliges to come, while
a living process whose group has failed subscribes again by itself
(`fx/presentation.go:43`). `succeeded`, `stuck` (claims that outlived a failed handling)
and `dropped` (commands given up without a dead letter) are history.

### OrderReads

The three reads of one order, from the gRPC request to the status code. A call
is Begin (the request checks of the handler), FindCopy or FindNoCopy (the
lookup; Redis may fail or have nothing), SelectOrder or SelectNoOrder,
Hydrate, and, for the requirements and the delivery, the lookup and the SELECT
of the content. Load is the access check, from whatever was loaded. The preview
reports a stranger as "not found"; the other two take any failure of the
preview for that and ask PostgreSQL again (Recheck). Hydrate completes the order
twice, as the code does: once for the response, once in the refresh, which
writes it back; the picture URL of a response is from the first, its two users
from the second. Commands, and the consumers that write what they published,
are the other actions. `Init` includes an order whose copy has the older flat
layout, which knows no user snapshots.

An order is what the properties tell apart: its parties, the picture of its gig,
the picture whose URL is known, and which users are. A create command that comes
again (Create) overwrites the snapshot and with it the picture, while a copy in
Redis, or one that a consumer has yet to write (Refresh, with any of the
`pictures` so far), keeps an earlier one. GapsAreFresh then says two things of a
preview: a missing URL or user was refused to this very call, and a URL is that
of the picture beside it. `failed`,
`early`, `short` and `told` are history: a SELECT of this call failed, the order
was not there when it began, there was nothing to show during it, and what other
services answered to it. PartiesAreServed says that these are the only reasons
to refuse a party; without `early` TLC finds a party told "permission denied"
for an order committed between the two SELECTs. A requirements read answers a
stranger with Internal, not PermissionDenied: its handler has no case for
ErrOrderNotOwned, which `ErrOrderNotOwned` models.

### CommandSubscription

The three Subscribe calls of `commandSubscriber.Subscribe`, one after the
other, against a broker whose Subscribe returns only after a dead letter or an
error. The run has one command on each topic: the create command is handled, and
its loop waits for the next one while the confirm and the fail command wait for
a subscriber.

## Runs

| Run | Instance | Question |
|---|---|---|
| `order_lifecycle` | 2 orders, 2 users, 3 create commands on 1 key, 2 intents, 2 overlapping checkout calls, 2 revisions | do row, evidence, key and checkout agree in every order of calls, and does the order keep its record? |
| `snapshot_immutable` | same | is the gig snapshot immutable? (no) |
| `order_requirements` | 2 questions (required, optional), 3 drafts, 2 batches, 2 calls each in flight, blank and real message | does "completed" mean what payment takes it for? |
| `delivery_projection` | 2 savers, 1 reader, 2 consumers, 2 deliveries, 1 fault | which copies can be seen, does every step keep what ReadModel promises, does the copy converge? |
| `event_consumer` | 2 replicas, 2 good events and 1 with a broken envelope, 2 publications, 2 attempts, 1 restart, 1 rebalance, 2 faults | is the ledger kept, is nothing lost but what NoSilentLoss names, does every event settle? |
| `create_consumer` | 2 replicas, 3 commands for 2 orders (one order twice under 2 keys, another under a key that may be taken), 1 broken envelope, 1 payload that is no command, an empty table or one with the key taken, 2 publications, 2 attempts, 1 restart, 1 rebalance, 2 faults of the loops, 1 failing call of the database | is the saga told the truth, when may two answers contradict, is every command answered? |
| `recovery_consumer` | 2 replicas, 1 partition, 1 good and 1 broken command, 3 publications, 2 rebalances, 2 faults | is the ledger kept, no silent loss, is every command consumed while a process lives? |
| `recovery_partitions` | 1 replica, 2 partitions, same commands, no rebalance, no fault | is every command consumed? (no) |
| `preview_projection` | 2 writers, 1 reader, 1 consumer, row and gig versions to 2, 1 fault | which preview copies can be seen, does every step keep what ReadModel promises, does the copy converge? |
| `requirements_projection` | 2 writers, 1 reader, 1 consumer, versions to 3, 2 faults | does the requirements copy converge? |
| `order_reads` | 1 call, 2 parties and a stranger, 2 picture files, every answer of Redis, PostgreSQL, the file and the user service | who is served, why may a party be refused, what may a response lack? |
| `commands_consumed` | 1 command on each topic | is every command consumed? (no) |

Why the bounds are enough. Orders do not interact except through the key, so
two suffice; two calls overlap in every way two can, and a third adds no new
pair; the second of two deliveries is what makes a copy stale, and with two
savers, a reader and two consumers every kind of rebuild meets every other and
itself. Two publications are a duplicate, or an event and the one behind it
whose commit covers it; two attempts allow both a retry and an exhausted one.
Two replicas and one rebalance take the partition away while the first handler
is busy, and a second assignment follows from the owner's stop; two faults let
that handler fail and then its retry or dead letter, which is how `dropped` is
reached: TLC finds it when the exception is taken out of NoSilentLoss. The
commands of `create_consumer` meet every branch of the INSERT, in every order,
and one failing call of the database can hit any of its steps; the
contradiction that AnswersAgree leaves takes a third command, the one that took
the key, whose order the table may hold at the start (`Before`). TLC reaches it
there, and commands that only `dropped` accounts for. Liveness and the ledger
are left to `event_consumer`. The two replicas of `create_consumer`, and the
two parties and the two files of `order_reads`, are interchangeable, and only
invariants are checked under those symmetries. In `recovery_consumer` two
rebalances take a partition away and give it back while the first handler is
still busy. In the preview runs two versions of row and gig are what a torn or
stale copy needs, and a read starts only while no copy is queued more than
MaxSame times, so that reads do not fill the queue with equal events. In the
requirements run a third version shows a copy that is two commits old. One call
is enough in `order_reads`: calls meet only in the copies, which Refresh and
the Save actions write in every way another call can, between any two of its
steps. The proofs then remove the bounds for the safety properties, and are why
the safety of the requirements copy needs no run of its own.

Deadlock is checked for the write models and for OrderReads, which are never stuck. It is off
where the system may stop: a consumer whose Subscribe has returned, clients
that do not call.

Every property also has a variant of some definition that a plausible bug would
lead to (`ClaimIgnoringConflict`, `ReadGigBeforeMain`, `SetFailsAndReturns`),
beside the definition it varies; with it in place TLC finds the property
violated. `PROJECT.json` lists them under "mutants".

Fairness. The `Fairness` formulas of DeliveryProjection, FullCopyProjection,
EventConsumer and RecoveryConsumer are weak fairness of steps that nothing but
the scheduler delays: a request that has started goes on, a subscribed consumer
fetches, a retry queue that runs is drained, the coordinator gives the partition
of a replica that has left to one that is there (Takeover). CreateConsumer's run
checks safety only and states none.
Nothing obliges a client to call, a call to fail, a stopped process to be
started again or a retry queue that has ended to run again, hence "or stopped",
and in Settles "or no retry queue runs": the code itself never subscribes again
after Subscribe has returned. The recovery group is the exception:
InvokeSubscribeOrderRecovery subscribes again in a loop, and a member whose
function has returned calls cg.Next, hence the fairness of NextGeneration, which
is over the members whose process lives: Consumed excepts a group all of whose
processes are `down`. The coordinator owes nobody a rebalance, so Rebalance has
none.

## Proofs

TLAPS checks the theorems below for every value of the constants: any finite or
infinite sets of orders, users, actors and events, any bounds. The only
assumptions are the named ASSUMEs: commands are built from the declared sets,
`Null` is none of the values it stands beside, actors of different kinds are
different, the replicas are finitely many, bounds are naturals. The runs evaluate them.

| Module | Theorem | Inductive invariant |
|---|---|---|
| OrderLifecycleProofs | TypeCorrect, EvidenceAgrees, StatusesBacked, EvidenceNamesParties, KeysIdentifyOrders | `RowsInv`: the properties together with the types. Each alone is not inductive: StatusBacked needs to know that a row stays a row, PartiesAgree that Create keeps the parties |
| OrderLifecycleProofs | RecordImplemented | none beyond the types: RecordStep names, for each of the thirteen actions, the step of the record it is, or that it is none |
| OrderLifecycleProofs | PromisesHold | RecordImplemented: what every step of OrderRecord keeps (RecordKeeps), read back as columns and tables (RecordOfRow) |
| OrderLifecycleProofs | CheckoutSafe | the property strengthened to what a call in flight will leave behind: while exactly one call of an untorn order is in flight, its intent is the row's |
| OrderLifecycleProofs | SnapshotsMatchRows, SnapshotsStay | `GigsSent`: the gig of a row, and its snapshot, are each from some create command of that order. Both theorems assume CommandsAgree, that the create commands of one order bring the same gig content; the run `snapshot_immutable` shows what happens without it |
| OrderRequirementsProofs | TypeCorrect | none beyond the types of the calls in flight |
| OrderRequirementsProofs | RefusalsAskNothing, CompletedIsAnswered, CompletionStays | `DraftInv`: what a draft in flight has not inserted yet it still has left, so an acknowledged one has inserted all it asks; every question stored is one that some draft asks, with what it says about being required. CompletionStays needs in addition that a question inserted again is the one stored (StoredAsAsked) |
| OrderRequirementsProofs | OnlyDraftsReopen, AnswersAreAsked | AnswersAsked itself, with the types; both hold whatever the drafts say, where CompletionStays needs them to agree. AnswersKept: an answer is replaced, never taken back |
| DeliveryProjectionProofs | TypeCorrect, CopiesOrdered | what each actor has read is ordered (row at most files, at most saved), so what it SETs is |
| DeliveryProjectionProofs | StaleCopiesAreRepaired | `RepairInv`: at most one consumer rebuilds unless they overlapped; a consumer that is behind, and is the last to SET, has a hint due after it |
| DeliveryProjectionProofs | ReadModelImplemented | `RepairInv` and CopiesOrdered. OtherSteps: apart from Commit, no step puts anything outdated under way, writes what no actor was about to SET, or waives a repair when nothing was under way; ReadModelStep then tells Carry, Show and Slip apart by what is written |
| DeliveryProjectionProofs | FailureFreeCopiesConverge, OneConsumerConverges, SettledStaysSettled | `RepairInv` with `LossNeedsFault`: nothing is lost before the first failure. OneConsumerConverges assumes at most one consumer; with two, TLC finds the copy that the slower one leaves behind. SettledStaysSettled rests on OtherSteps |
| FullCopyProjectionProofs | TypeCorrect | none beyond the types and the bounds on the versions |
| FullCopyProjectionProofs | CopiesAreWellFormed | `FormedInv`: every copy in Redis, in the queue and in a hand that has read the row is well formed, and the gig snapshot is never behind the version any row version was committed with; commits only raise both |
| FullCopyProjectionProofs | StaleCopiesAreReplaced, SettledStaysSettled | `StaleInv`: unless `crowded`, every copy under way is of the stored order; both theorems rest on CurrentStep, that no step but a commit or a read of an outdated copy changes that |
| FullCopyProjectionProofs | ReadModelImplemented | `StaleInv` before and after the step. CurrentStep: only commits and reads that pass on an outdated copy put one under way; OnlyHandsAreShown: Redis gets what was in a hand; WaiversBacked: apart from those two, a repair is forgone only while a current copy is under way |
| FullCopyProjectionProofs | FailureFreeCopiesConverge | StaleCopiesAreReplaced with `LossNeedsFault`. It is about behaviours in which no create skips the projection, as its copy is then absent by intent; a run of TLC with that step taken away from Next agrees |
| EventConsumerProofs | TypeCorrect | `TypeInv`: in addition, a message that is to be retried has an attempt left |
| EventConsumerProofs | LedgerImplemented | `ClaimInv` and `StuckStaysClaimed`: a claim left behind is never given up, so an event that is spent does not succeed |
| EventConsumerProofs | ClaimsAreExplained | `ClaimInv`: a success holds the claim of its event; an event in a handler is claimed, in no other replica's handler, and has not succeeded; only the handling that took a claim gives it up |
| EventConsumerProofs | CommitsLoseNothingSilently | `LossInv`: an event is covered when it is accounted for, in a replica's hand or dropped. Covered is every message that is committed (CommittedCovered), that the reader of a running loop has passed (ReadCovered), and up to the message that a replica has in hand (HeldCovered), an event yet to be claimed excepted: whoever commits next turns the last two into the first. CoveredStays: a step that takes an event out of a hand accounts for it, drops it, or leaves it to be fetched again |
| EventConsumerProofs | IdleGroupLeavesNothing | `LossInv` for the owner at the end of the log: nothing is ahead, in the retry queue or in a hand, so what covers an event is its outcome |
| EventConsumerProofs | DeadLettersCostRestarts | `FewDeadLetters`: the dead letters are finite, and counted by the restarts and the replicas that are stopped; needs the replicas to be finitely many |
| CreateConsumerProofs | LoopImplemented | none: every action is one of the loops', or leaves their variables alone (LoopStep) |
| CreateConsumerProofs | LedgerImplemented, CommandsAreAnswered | EventConsumer's theorems LedgerImplemented and CommitsLoseNothingSilently, carried over along LoopImplemented; the second with SucceededAnswered, that a handler which succeeded has published a result |
| CreateConsumerProofs | TypeCorrect, SuccessesAreTrue, RefusalsAreTrue | `ResultInv`: what the handler of each replica has found (`step`) is backed by the table, and stays so because rows and keys stay, whichever replica writes them |
| CreateConsumerProofs | AnswersContradictOnlyOnForeignKeys | `KeysUnique` beside ResultInv: no key is given twice, so the key that made a command fail is not the one its order has |
| CreateConsumerProofs | IdleConsumerHasAnswered | EventConsumer's IdleGroupLeavesNothing, carried over, with SucceededAnswered |
| CreateConsumerProofs | CrashesKeepAnswersTrue | DisturbanceNeedsFailure: no command is disturbed before the first failure of the database, so the three theorems on answers have no exception left |
| RecoveryConsumerProofs | TypeCorrect | a worker that is busy has fetched a message, and a new generation takes only workers that are out |
| RecoveryConsumerProofs | LedgerImplemented | `ClaimInv` and `StuckStaysClaimed`, for the workers of all generations |
| RecoveryConsumerProofs | ClaimsAreExplained | `ClaimInv`: a success holds the claim of its command; a command in a hand is claimed, in no other hand and not handled before. HandsKept: no step changes the message of a busy worker |
| RecoveryConsumerProofs | CommitsLoseNothingSilently | `LossInv`: all that any worker, of whatever generation, has done is accounted for, which is what it commits; AccountedStays: whoever has a command in hand passes it on or settles it; StepMoves: what a step may do to one worker |
| RecoveryConsumerProofs | IdlePartitionLeavesNothing | `LossInv` for a worker at the end of its partition, when no hand holds a command: whatever it skipped was settled by who had claimed it |
| RecoveryConsumerProofs | CompletionsAreTrue, RebalancesLoseNothing | `ResultInv`: a worker that has done the first half of the handler has its command in `orders`, which nobody takes away; a command is dropped only by a failure. RebalancesLoseNothing adds this to IdlePartitionLeavesNothing |
| OrderReadsProofs | TypeCorrect | a call that completes an order has one in hand (HandsFull) |
| OrderReadsProofs | OthersSeeNothing, RefusalsHaveReasons, GapsAreFilled | `ReadInv`: a copy is that of a stored order with its two parties (CopiesBacked), and for each call what it has found so far, or what it must have been refused, at its program counter (CallInv) |
| OrderReadsProofs | StrangersAreTurnedAway | `ReadInv`: a call that gets past the access check is that of a party, so a stranger's ends in Refused or Recheck (StrangerStep); ReadIsAlone: a step of one call is no step of another |

Each inductive invariant, and each property that only a theorem states, was also
checked by TLC on the instance of its component's run (SnapshotsMatchRows and
SnapshotsStay on one whose create commands agree, OneConsumerConverges on one
with one consumer). Every safety property of a passing run is proved, the refinements
included; a theorem about a state machine with fairness is stated for its
`Spec`, without it. Not proved, only model-checked: the liveness properties
(Converges, Settles, Consumed), which are out of the prover's reach. Their safety halves are proved: for Settles and Consumed
that consumers at rest have left nothing over (IdleGroupLeavesNothing,
IdlePartitionLeavesNothing), for Converges that a stale copy is owed a repair, so
that with nothing under way and nothing forgone the copy is current
(ReadModelImplemented). What remains to TLC is that the consumers and the rebuilds
get there.

Without failures more can be said of the final states than the runs' properties
do, whose exceptions are the failures the code swallows: FailureFreeCopiesConverge,
OneConsumerConverges and RebalancesLoseNothing start from `faults = 0`, under
which groups still rebalance and calls interleave as they like, and
CrashesKeepAnswersTrue from `failures = 0`, under which processes still stop and
publications still fail.

Proof leaves are kept small enough for a slow machine: all of them still pass
with a fifth of the provers' default time (`tlapm --stretch 0.2`).

## Disagreements with the documentation

- `internal/domain/order.go:224` calls the gig snapshot immutable; the upsert
  at `repository.go:58` overwrites it (`snapshot_immutable`). The question
  snapshots, called immutable at `order.go:161`, are upserted the same way.
- `subscribers.go:20` says that the subscriber consumes order commands; it
  consumes create commands only, until one of them is dead-lettered, and then
  confirm commands only (`commands_consumed`).
- `recovery_subscriber.go:18` says that the subscriber consumes the migration
  commands; a partition whose worker has ended alone, say on an envelope that
  does not unwrap, is not read while the worker of another partition of the same
  member waits for a message (`recovery_partitions`). With one partition the
  command is consumed, which `recovery_consumer` shows.

## What is not modelled

- The NATS adapter (`internal/presentation/event_broker/nats`): kept with its
  tests, but `internal/fx` provides the Kafka broker.
- The command handlers of the gRPC server, which turn a request into one service
  call and its error into a status code, and the message conversions of the file
  and user clients. The three read handlers and the failures of the clients are
  in OrderReads.
- GetOrderCountByGigID and GetOrderLifecycleSnapshot: one SELECT each, no copy,
  no access check. HasConfirmPrerequisites, which GetOrderPaymentSnapshot
  reports, is in OrderRequirements.
- The outbox (migration 000008): triggers write one row per change in the
  transaction of the change, and nothing in this repository reads them.
  `created_at` is the start time of the transaction, so the rows of concurrent
  transactions sort in another order than they commit in; whether that matters
  is for the relay, which lives elsewhere, to say.
- MarkPaid, which has no caller.
- Configuration, wiring, migrations as a process, metrics, tracing: start-up
  code and pure I/O.
- Contents: message texts, prices, file URLs, timestamps other than set or not
  set.

## Plan

1. OrderReads over the copies of FullCopyProjection and DeliveryProjection, so
   that how old a served copy may be and who is served are one model.
2. Retries of the commands by their callers: what a second RequestRevision, or a
   second SaveDelivery, does to counters and deadlines.
