-------------------------- MODULE DeliveryProjection --------------------------
(***************************************************************************)
(* The delivery read model of one order: the canonical delivery in         *)
(* PostgreSQL, its copy in Redis, and the refresh hints on Kafka.          *)
(*                                                                         *)
(* Three kinds of actors rebuild the copy from the canonical rows:         *)
(*   - a saver, the SaveDelivery call: commits, rebuilds, then publishes a *)
(*     hint;                                                               *)
(*   - a reader, a GetOrderDeliveryByID call that finds no usable copy:    *)
(*     rebuilds, then publishes a hint;                                    *)
(*   - a consumer of the hints, which rebuilds and publishes nothing.      *)
(* To rebuild is to run two SELECTs without a transaction and then SET the *)
(* copy without looking at the copy that is there.  A hint only names the  *)
(* order: its consumer reads the database again.                           *)
(*                                                                         *)
(* The k-th committed SaveDelivery replaces the delivery row by row k and  *)
(* adds file k, so a projection is the number of the row and the number of *)
(* files it shows.                                                         *)
(***************************************************************************)
EXTENDS Integers

CONSTANTS
  Savers, Readers, Consumers,
  MaxSaves,    \* bound on the deliveries saved
  MaxFaults,   \* bound on the failures of a database, Redis or Kafka call
  Null         \* no copy in Redis

ASSUME ActorsAssumption ==
  /\ Savers \cap Readers = {}
  /\ Savers \cap Consumers = {}
  /\ Readers \cap Consumers = {}

ASSUME BoundsAssumption == MaxSaves \in Nat /\ MaxFaults \in Nat

Projection == [row: Nat, files: Nat]

ASSUME NullAssumption == Null \notin Projection

Actors == Savers \cup Readers \cup Consumers

VARIABLES
  saved,    \* deliveries committed: row number and file number
  cache,    \* the Redis copy
  hints,    \* refresh hints queued, in the topic or in its retry queue
  pc,       \* what each actor does next
  seen,     \* what each actor has read of the canonical delivery
  faults,   \* failures so far
  lost,     \* history: a hint was owed or queued and is gone, and none
            \* was queued and no delivery was saved since
  overlap   \* history: the last hint was fetched while another consumer
            \* was rebuilding

vars == <<saved, cache, hints, pc, seen, faults, lost, overlap>>

Canonical == [row |-> saved, files |-> saved]

(* A rebuild in progress. *)
Rebuilding == {"row", "files", "set"}

Init ==
  /\ saved = 0
  /\ cache = Null
  /\ hints = 0
  /\ pc = [a \in Actors |-> "idle"]
  /\ seen = [a \in Actors |-> [row |-> 0, files |-> 0]]
  /\ faults = 0
  /\ lost = FALSE
  /\ overlap = FALSE

Goto(a, label) == pc' = [pc EXCEPT ![a] = label]

Fault == faults < MaxFaults /\ faults' = faults + 1

-----------------------------------------------------------------------------
(* How an actor starts.                                                    *)

(* SaveDelivery: the write transaction has committed. *)
Commit(a) ==
  /\ pc[a] = "idle"
  /\ saved < MaxSaves
  /\ saved' = saved + 1
  /\ lost' = FALSE
  /\ Goto(a, "row")
  /\ UNCHANGED <<cache, hints, seen, faults, overlap>>

(* GetOrderDeliveryByID without a copy in Redis; with one it returns the   *)
(* copy and changes nothing.                                               *)
Lookup(a) ==
  /\ pc[a] = "idle"
  /\ cache = Null
  /\ Goto(a, "row")
  /\ UNCHANGED <<saved, cache, hints, seen, faults, lost, overlap>>

(* The GET failed: the call goes on to the database all the same. *)
LookupFails(a) ==
  /\ Fault
  /\ pc[a] = "idle"
  /\ Goto(a, "row")
  /\ UNCHANGED <<saved, cache, hints, seen, lost, overlap>>

FetchUnguarded(a) ==
  /\ pc[a] = "idle"
  /\ hints' = hints - 1
  /\ overlap' = \E b \in Consumers \ {a} : pc[b] \in Rebuilding
  /\ Goto(a, "row")
  /\ UNCHANGED <<saved, cache, seen, faults, lost>>

(* A consumer takes a hint off the topic and claims it. *)
Fetch(a) ==
  /\ pc[a] = "idle"
  /\ hints > 0
  /\ hints' = hints - 1
  /\ overlap' = \E b \in Consumers \ {a} : pc[b] \in Rebuilding
  /\ Goto(a, "row")
  /\ UNCHANGED <<saved, cache, seen, faults, lost>>

-----------------------------------------------------------------------------
(* Rebuilding: BuildOrderDeliveryProjection, then UpsertDelivery.          *)

(* The first SELECT of GetDeliveryByID: the delivery row. *)
ReadRow(a) ==
  /\ pc[a] = "row"
  /\ saved > 0
  /\ seen' = [seen EXCEPT ![a].row = saved]
  /\ Goto(a, "files")
  /\ UNCHANGED <<saved, cache, hints, faults, lost, overlap>>

(* It finds no row: a reader reports that there is no delivery. *)
ReadNothing(a) ==
  /\ pc[a] = "row"
  /\ saved = 0
  /\ Goto(a, "idle")
  /\ UNCHANGED <<saved, cache, hints, seen, faults, lost, overlap>>

ReadFilesBeforeRow(a) ==
  /\ pc[a] = "files"
  /\ seen' = [seen EXCEPT ![a] = [row |-> saved, files |-> seen[a].row]]
  /\ Goto(a, "set")
  /\ UNCHANGED <<saved, cache, hints, faults, lost, overlap>>

(* Its second SELECT: the files. *)
ReadFiles(a) ==
  /\ pc[a] = "files"
  /\ seen' = [seen EXCEPT ![a].files = saved]
  /\ Goto(a, "set")
  /\ UNCHANGED <<saved, cache, hints, faults, lost, overlap>>

(* A SELECT failed: a saver logs it and still publishes its hint, a reader *)
(* returns the error.                                                      *)
ReadFails(a) ==
  /\ Fault
  /\ pc[a] \in {"row", "files"}
  /\ Goto(a, IF a \in Savers THEN "publish" ELSE "idle")
  /\ UNCHANGED <<saved, cache, hints, seen, lost, overlap>>

SetAndReturn(a) ==
  /\ pc[a] = "set"
  /\ cache' = seen[a]
  /\ Goto(a, "idle")
  /\ UNCHANGED <<saved, hints, seen, faults, lost, overlap>>

(* SET overwrites whatever copy is there.  A consumer then commits its     *)
(* offset and is done.                                                     *)
Set(a) ==
  /\ pc[a] = "set"
  /\ cache' = seen[a]
  /\ Goto(a, IF a \in Consumers THEN "idle" ELSE "publish")
  /\ UNCHANGED <<saved, hints, seen, faults, lost, overlap>>

(* The SET took effect but its answer did not arrive: the client sends it  *)
(* again, or gives up with an error (SetFails, HandlerFails).              *)
SetUnanswered(a) ==
  /\ Fault
  /\ pc[a] = "set"
  /\ cache' = seen[a]
  /\ UNCHANGED <<saved, hints, pc, seen, lost, overlap>>

(* A saver or reader logs the error and publishes. *)
SetFails(a) ==
  /\ Fault
  /\ pc[a] = "set"
  /\ Goto(a, "publish")
  /\ UNCHANGED <<saved, cache, hints, seen, lost, overlap>>

-----------------------------------------------------------------------------
(* How it ends.                                                            *)

PublishNothing(a) ==
  /\ pc[a] = "publish"
  /\ lost' = FALSE
  /\ Goto(a, "idle")
  /\ UNCHANGED <<saved, cache, hints, seen, faults, overlap>>

Publish(a) ==
  /\ pc[a] = "publish"
  /\ hints' = hints + 1
  /\ lost' = FALSE
  /\ Goto(a, "idle")
  /\ UNCHANGED <<saved, cache, seen, faults, overlap>>

(* The call of a saver or reader ends early: Publish failed, which is only *)
(* logged, the request was cancelled, or the process stopped.  A saver     *)
(* owes a hint from its commit on, a reader once it may have SET the copy. *)
Cut(a) ==
  /\ Fault
  /\ pc[a] # "idle"
  /\ lost' = (lost \/ a \in Savers \/ pc[a] \in {"set", "publish"})
  /\ Goto(a, "idle")
  /\ UNCHANGED <<saved, cache, hints, seen, overlap>>

(* The handler of a hint failed, or the process stopped under it.  The     *)
(* hint is kept (in the retry queue, or unclaimed under an uncommitted     *)
(* offset), or gone (dead-lettered, or still claimed by the handler that   *)
(* stopped); the Subscribe loop goes on, or has returned.                  *)
HandlerFails(a, kept, stops) ==
  /\ Fault
  /\ pc[a] \in Rebuilding
  /\ hints' = IF kept THEN hints + 1 ELSE hints
  /\ lost' = (lost \/ ~kept)
  /\ Goto(a, IF stops THEN "stopped" ELSE "idle")
  /\ UNCHANGED <<saved, cache, seen, overlap>>

(* The offset commit after the handler failed: Subscribe returns.  The     *)
(* hint is delivered again and skipped, its claim being there.             *)
OffsetCommitFails(a) ==
  /\ Fault
  /\ pc[a] = "set"
  /\ cache' = seen[a]
  /\ Goto(a, "stopped")
  /\ UNCHANGED <<saved, hints, seen, lost, overlap>>

(* Only a new process subscribes again. *)
Restart(a) ==
  /\ pc[a] = "stopped"
  /\ Goto(a, "idle")
  /\ UNCHANGED <<saved, cache, hints, seen, faults, lost, overlap>>

Requests == Savers \cup Readers

(* What an actor does when nothing fails. *)
Proceed(a) ==
  \/ ReadRow(a)
  \/ a \in Readers /\ ReadNothing(a)
  \/ ReadFiles(a)
  \/ Set(a)
  \/ a \in Requests /\ Publish(a)

Next ==
  \/ \E a \in Savers : Commit(a)
  \/ \E a \in Readers : Lookup(a) \/ LookupFails(a)
  \/ \E a \in Consumers : Fetch(a)
  \/ \E a \in Actors : Proceed(a) \/ SetUnanswered(a)
  \/ \E a \in Requests : ReadFails(a) \/ SetFails(a) \/ Cut(a)
  \/ \E a \in Consumers, kept, stops \in BOOLEAN : HandlerFails(a, kept, stops)
  \/ \E a \in Consumers : OffsetCommitFails(a) \/ Restart(a)

Spec == Init /\ [][Next]_vars

(* Calls that started go on, and a subscribed consumer fetches.  Nothing   *)
(* obliges a client to call, a call to fail or a process to restart.       *)
Fairness ==
  /\ \A a \in Actors : WF_vars(Proceed(a))
  /\ \A a \in Consumers : WF_vars(Fetch(a))

FairSpec == Spec /\ Fairness

-----------------------------------------------------------------------------
(* Properties.                                                             *)

TypeOK ==
  /\ saved \in Nat
  /\ cache \in Projection \cup {Null}
  /\ hints \in Nat
  /\ pc \in [Actors -> Rebuilding \cup {"idle", "publish", "stopped"}]
  /\ seen \in [Actors -> Projection]
  /\ faults \in Nat
  /\ lost \in BOOLEAN
  /\ overlap \in BOOLEAN

(* Because the row is read before the files, a copy may show files of a    *)
(* later delivery than its message, but never a message whose attachments  *)
(* are missing, and never a delivery that was not committed.               *)
MessageHasItsFiles ==
  cache # Null => /\ 0 < cache.row
                  /\ cache.row <= cache.files
                  /\ cache.files <= saved

(* A consumer whose reads so far are of the delivery stored now. *)
ReadsCurrent(a) ==
  \/ pc[a] = "row"
  \/ pc[a] = "files" /\ seen[a].row = saved
  \/ pc[a] = "set" /\ seen[a] = Canonical

(* A hint is queued, or owed by a call that will still publish it. *)
HintDue ==
  \/ hints > 0
  \/ \E a \in Savers : pc[a] # "idle"
  \/ \E a \in Readers : pc[a] \in {"set", "publish"}

RepairPending == HintDue \/ \E a \in Consumers : ReadsCurrent(a)

(* Whatever the interleaving of saves, cache misses and hint handling, and *)
(* although nobody compares versions before SET: a copy that differs from  *)
(* the stored delivery is about to be repaired by a hint, unless that hint *)
(* was lost or two consumers rebuilt at the same time.                     *)
StaleMeansRepairPending ==
  saved > 0 /\ cache # Canonical => RepairPending \/ lost \/ overlap

(* Somebody has read part of an older delivery. *)
ReadsBehind(a) ==
  \/ pc[a] = "files" /\ seen[a].row # saved
  \/ pc[a] = "set" /\ seen[a] # Canonical

Copy == INSTANCE ReadModel WITH
  Nothing <- Null,
  stored <- IF saved = 0 THEN Null ELSE Canonical,
  shown <- cache,
  due <- RepairPending,
  behind <- \E a \in Actors : ReadsBehind(a),
  waived <- lost \/ overlap

(* The delivery copy keeps what a read model promises, whatever overlaps:  *)
(* a copy that differs from the stored delivery is about to be repaired by *)
(* a hint, unless that hint was lost or two consumers rebuilt at once;     *)
(* only an actor that read before the last save makes it differ; and a     *)
(* hint is given up only with a rebuild that was under way.                *)
ImplementsReadModel == Copy!Spec

(* The copy converges to the stored delivery, unless a hint was lost, two  *)
(* consumers overlapped on the last one, or a consumer has stopped.        *)
Converges ==
  <>[](\/ saved = 0 \/ cache = Canonical
       \/ lost \/ overlap \/ \E a \in Consumers : pc[a] = "stopped")

=============================================================================
