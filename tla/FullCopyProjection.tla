-------------------------- MODULE FullCopyProjection --------------------------
(***************************************************************************)
(* The preview copy or the requirements copy of one order in Redis, and    *)
(* the events that carry whole copies to the consumers that write it       *)
(* again.                                                                  *)
(*                                                                         *)
(*   - A writer is a command: it commits, reads the order back, SETs the   *)
(*     copy and publishes it.                                              *)
(*   - A reader is GetOrderPreviewByID or GetOrderRequirementsByID: without *)
(*     a copy in Redis it reads the database, SETs and publishes.  Given a *)
(*     copy, the preview read SETs and publishes that very copy; the       *)
(*     requirements read only returns it.                                  *)
(*   - A consumer SETs the copy that its event carries.                    *)
(* Nobody compares versions, and events have no key: they are spread over  *)
(* partitions and delivered in any order.                                  *)
(*                                                                         *)
(* A copy is a pair of version numbers: main counts the changes of the row *)
(* in orders (or of questions, answers and message), gig those of the gig  *)
(* snapshot, which the preview read fetches by a SELECT of its own.        *)
(***************************************************************************)
EXTENDS Integers

CONSTANTS
  Writers, Readers, Consumers,
  Preview,      \* TRUE for the preview copy, FALSE for the requirements copy
  MaxVersion,   \* bound on each version number
  MaxSame,      \* bound on equal copies queued when a read starts
  MaxFaults,    \* bound on the failures of a database, Redis or Kafka call
  Null          \* no copy in Redis

ASSUME ActorsAssumption ==
  /\ Writers \cap Readers = {}
  /\ Writers \cap Consumers = {}
  /\ Readers \cap Consumers = {}

Versions == 0..MaxVersion
Copies == [main: Versions, gig: Versions]

ASSUME BoundsAssumption ==
  /\ Preview \in BOOLEAN
  /\ MaxVersion \in Nat
  /\ MaxSame \in Nat
  /\ MaxFaults \in Nat
  /\ Null \notin Copies

Requests == Writers \cup Readers
Actors == Requests \cup Consumers

VARIABLES
  main,     \* version of the row; 0 while there is no order
  empty,    \* there is nothing to read back
  gig,      \* version of the gig snapshot
  gigAt,    \* history: the gig version when each row version was committed
  cache,    \* the Redis copy
  sent,     \* how often each copy is queued, in the topic or its retry queue
  pc,       \* what each actor does next
  hand,     \* the copy each actor has read or received
  faults,   \* failures so far
  lost,     \* history: since the last commit a current copy was dropped
  crowded   \* history: the last commit found another copy under way, or an
            \* outdated one was read from Redis since

vars == <<main, empty, gig, gigAt, cache, sent, pc, hand, faults, lost, crowded>>

Canonical == [main |-> main, gig |-> gig]

Init ==
  /\ main = 0
  /\ empty = TRUE
  /\ gig = 0
  /\ gigAt = [v \in Versions |-> 0]
  /\ cache = Null
  /\ sent = [c \in Copies |-> 0]
  /\ pc = [a \in Actors |-> "idle"]
  /\ hand = [a \in Actors |-> [main |-> 0, gig |-> 0]]
  /\ faults = 0
  /\ lost = FALSE
  /\ crowded = FALSE

Goto(a, label) == pc' = [pc EXCEPT ![a] = label]

Hold(a, copy) == hand' = [hand EXCEPT ![a] = copy]

Fault == faults < MaxFaults /\ faults' = faults + 1

(* The rows and the copies, for UNCHANGED. *)
stored == <<main, empty, gig, gigAt>>
copies == <<cache, sent>>

(* A copy is queued, or an actor other than a has read part of one. *)
UnderWay(a) ==
  \/ \E c \in Copies : sent[c] > 0
  \/ \E b \in Actors \ {a} : pc[b] \in {"gig", "set", "publish"}

(* What actor a holds, or is about to read, is the order as stored now. *)
Fresh(a) ==
  \/ pc[a] = "read"
  \/ pc[a] = "gig" /\ hand[a].main = main
  \/ pc[a] \in {"set", "publish"} /\ hand[a] = Canonical

-----------------------------------------------------------------------------
(* How a command changes the order.                                        *)

(* The first create command inserts row and snapshot in one transaction. *)
Insert ==
  /\ Preview /\ main = 0 /\ MaxVersion > 0
  /\ main' = 1 /\ gig' = 1 /\ empty' = FALSE
  /\ gigAt' = [gigAt EXCEPT ![1] = 1]

(* A later one leaves the row alone and overwrites the snapshot. *)
Reinsert ==
  /\ Preview /\ main > 0 /\ gig < MaxVersion
  /\ gig' = gig + 1
  /\ UNCHANGED <<main, empty, gigAt>>

(* A transition of the row; or a question, an answer or the message.  A    *)
(* blank message to an order without questions leaves nothing to read.     *)
Update ==
  /\ Preview => main > 0
  /\ main < MaxVersion
  /\ main' = main + 1
  /\ empty' \in BOOLEAN
  /\ Preview => ~empty'
  /\ gigAt' = [gigAt EXCEPT ![main + 1] = gig]
  /\ UNCHANGED gig

Write == Insert \/ Reinsert \/ Update

(* The change is committed.  SaveRequirementAnswers commits each answer    *)
(* before it reads the requirements back.                                  *)
Commit(a) ==
  /\ pc[a] = "idle" \/ (~Preview /\ pc[a] = "read")
  /\ Write
  /\ lost' = FALSE
  /\ crowded' = UnderWay(a)
  /\ Goto(a, "read")
  /\ UNCHANGED <<copies, hand, faults>>

(* CreateDraftOrder with SkipProjection: neither SET nor event. *)
CommitOnly(a) ==
  /\ pc[a] = "idle"
  /\ Write
  /\ lost' = TRUE
  /\ crowded' = UnderWay(a)
  /\ UNCHANGED <<copies, pc, hand, faults>>

-----------------------------------------------------------------------------
(* How a read or a consumer starts.                                        *)

FewQueued == \A c \in Copies : sent[c] < MaxSame

(* The preview read finds a copy, and refreshes Redis with it.  (The       *)
(* requirements read returns it and changes nothing.)                      *)
Lookup(a) ==
  /\ Preview
  /\ pc[a] = "idle"
  /\ cache # Null
  /\ FewQueued
  /\ Hold(a, cache)
  /\ crowded' = (crowded \/ cache # Canonical)
  /\ Goto(a, "set")
  /\ UNCHANGED <<stored, copies, faults, lost>>

(* It finds none.  A command that leaves the row alone (AttachFile,        *)
(* answers, message) also gets here: it rebuilds the preview.              *)
Miss(a) ==
  /\ pc[a] = "idle"
  /\ cache = Null \/ Preview
  /\ FewQueued
  /\ Goto(a, "read")
  /\ UNCHANGED <<stored, copies, hand, faults, lost, crowded>>

(* The GET failed: the read goes on to the database. *)
LookupFails(a) ==
  /\ Fault
  /\ pc[a] = "idle"
  /\ Goto(a, "read")
  /\ UNCHANGED <<stored, copies, hand, lost, crowded>>

FetchUnguarded(a, c) ==
  /\ pc[a] = "idle"
  /\ sent' = [sent EXCEPT ![c] = @ - 1]
  /\ Hold(a, c)
  /\ Goto(a, "set")
  /\ UNCHANGED <<stored, cache, faults, lost, crowded>>

(* A consumer takes any event off the topic and claims it. *)
Fetch(a, c) ==
  /\ pc[a] = "idle"
  /\ sent[c] > 0
  /\ sent' = [sent EXCEPT ![c] = @ - 1]
  /\ Hold(a, c)
  /\ Goto(a, "set")
  /\ UNCHANGED <<stored, cache, faults, lost, crowded>>

-----------------------------------------------------------------------------
(* Reading the order back.                                                 *)

(* The one SELECT of GetRequirementsByID; or the first SELECT of GetByID,  *)
(* the row, the gig part being replaced by ReadGig.                        *)
ReadMain(a) ==
  /\ pc[a] = "read"
  /\ ~empty
  /\ Hold(a, Canonical)
  /\ Goto(a, IF Preview THEN "gig" ELSE "set")
  /\ UNCHANGED <<stored, copies, faults, lost, crowded>>

(* Without an order, or questions and message, the call ends with          *)
(* ErrOrderNotFound and refreshes nothing.                                 *)
ReadNothing(a) ==
  /\ pc[a] = "read"
  /\ empty
  /\ Goto(a, "idle")
  /\ UNCHANGED <<stored, copies, hand, faults, lost, crowded>>

ReadGigBeforeMain(a) ==
  /\ pc[a] = "gig"
  /\ Hold(a, [main |-> main, gig |-> hand[a].gig])
  /\ Goto(a, "set")
  /\ UNCHANGED <<stored, copies, faults, lost, crowded>>

(* GetByID's second SELECT, the gig snapshot. *)
ReadGig(a) ==
  /\ pc[a] = "gig"
  /\ Hold(a, [hand[a] EXCEPT !.gig = gig])
  /\ Goto(a, "set")
  /\ UNCHANGED <<stored, copies, faults, lost, crowded>>

-----------------------------------------------------------------------------
(* SET and publish.                                                        *)

Set(a) ==
  /\ pc[a] = "set"
  /\ cache' = hand[a]
  /\ Goto(a, IF a \in Consumers THEN "idle" ELSE "publish")
  /\ UNCHANGED <<stored, sent, hand, faults, lost, crowded>>

(* The SET took effect but its answer did not arrive: the client sends it  *)
(* again, or gives up with an error (SetFails, HandlerFails).              *)
SetUnanswered(a) ==
  /\ Fault
  /\ pc[a] = "set"
  /\ cache' = hand[a]
  /\ UNCHANGED <<stored, sent, pc, hand, lost, crowded>>

SetFailsAndReturns(a) ==
  /\ Fault
  /\ pc[a] = "set"
  /\ Goto(a, "idle")
  /\ UNCHANGED <<stored, copies, hand, lost, crowded>>

(* A failed SET is logged; the copy is published all the same. *)
SetFails(a) ==
  /\ Fault
  /\ pc[a] = "set"
  /\ Goto(a, "publish")
  /\ UNCHANGED <<stored, copies, hand, lost, crowded>>

Publish(a) ==
  /\ pc[a] = "publish"
  /\ sent' = [sent EXCEPT ![hand[a]] = @ + 1]
  /\ Goto(a, "idle")
  /\ UNCHANGED <<stored, cache, hand, faults, lost, crowded>>

(* The call ends early: a SELECT failed, Publish failed (which is only     *)
(* logged), the request was cancelled or the process stopped.              *)
Cut(a) ==
  /\ Fault
  /\ pc[a] # "idle"
  /\ lost' = (lost \/ Fresh(a))
  /\ Goto(a, "idle")
  /\ UNCHANGED <<stored, copies, hand, crowded>>

(* A consumer's handler failed, or its process stopped: the event is kept  *)
(* or gone, the loop goes on or has returned.                              *)
HandlerFails(a, kept, stops) ==
  /\ Fault
  /\ pc[a] = "set"
  /\ sent' = [sent EXCEPT ![hand[a]] = IF kept THEN @ + 1 ELSE @]
  /\ lost' = (lost \/ (~kept /\ Fresh(a)))
  /\ Goto(a, IF stops THEN "stopped" ELSE "idle")
  /\ UNCHANGED <<stored, cache, hand, crowded>>

(* The copy was SET but the offset commit failed: Subscribe returns.  The  *)
(* event is delivered again and skipped, its claim being there.            *)
OffsetCommitFails(a) ==
  /\ Fault
  /\ pc[a] = "set"
  /\ cache' = hand[a]
  /\ Goto(a, "stopped")
  /\ UNCHANGED <<stored, sent, hand, lost, crowded>>

Restart(a) ==
  /\ pc[a] = "stopped"
  /\ Goto(a, "idle")
  /\ UNCHANGED <<stored, copies, hand, faults, lost, crowded>>

(* What an actor does when nothing fails. *)
Proceed(a) ==
  \/ ReadMain(a)
  \/ ReadNothing(a)
  \/ ReadGig(a)
  \/ Set(a)
  \/ Publish(a)

FetchAny(a) == \E c \in Copies : Fetch(a, c)

Next ==
  \/ \E a \in Writers : Commit(a) \/ CommitOnly(a)
  \/ \E a \in Readers : Lookup(a) \/ Miss(a) \/ LookupFails(a)
  \/ \E a \in Consumers : FetchAny(a)
  \/ \E a \in Actors : Proceed(a) \/ SetUnanswered(a)
  \/ \E a \in Requests : SetFails(a) \/ Cut(a)
  \/ \E a \in Consumers, kept, stops \in BOOLEAN : HandlerFails(a, kept, stops)
  \/ \E a \in Consumers : OffsetCommitFails(a) \/ Restart(a)

Spec == Init /\ [][Next]_vars

(* Calls that started go on, and a subscribed consumer fetches.  Nothing   *)
(* obliges a client to call, a call to fail or a process to restart.       *)
Fairness ==
  /\ \A a \in Actors : WF_vars(Proceed(a))
  /\ \A a \in Consumers : WF_vars(FetchAny(a))

FairSpec == Spec /\ Fairness

-----------------------------------------------------------------------------
(* Properties.                                                             *)

Labels == {"idle", "read", "gig", "set", "publish", "stopped"}

TypeOK ==
  /\ main \in Versions
  /\ empty \in BOOLEAN
  /\ gig \in Versions
  /\ gigAt \in [Versions -> Versions]
  /\ cache \in Copies \cup {Null}
  /\ sent \in [Copies -> Nat]
  /\ pc \in [Actors -> Labels]
  /\ hand \in [Actors -> Copies]
  /\ faults \in Nat
  /\ lost \in BOOLEAN
  /\ crowded \in BOOLEAN

(* Copy c shows a committed version of the row, and a gig snapshot that is *)
(* not older than the one stored when that version was committed.          *)
WellFormed(c) ==
  /\ 0 < c.main /\ c.main <= main
  /\ gigAt[c.main] <= c.gig /\ c.gig <= gig

(* Two SELECTs outside a transaction can mix versions, and copies travel   *)
(* between Redis, readers, events and consumers; still no copy anywhere    *)
(* shows an order that was not committed, or a status with gig content     *)
(* from before that status.                                                *)
CopiesWellFormed ==
  /\ cache # Null => WellFormed(cache)
  /\ \A c \in Copies : sent[c] > 0 => WellFormed(c)
  /\ \A a \in Actors : pc[a] \in {"set", "publish"} => WellFormed(hand[a])

(* Every copy under way is of the order as stored now. *)
AllFresh ==
  /\ \A c \in Copies : sent[c] > 0 => c = Canonical
  /\ \A a \in Actors : pc[a] \notin {"idle", "stopped"} => Fresh(a)

(* Some copy under way is. *)
CopyDue ==
  \/ \E c \in Copies : sent[c] > 0 /\ c = Canonical
  \/ \E a \in Actors : Fresh(a)

(* Although SET is unguarded and failures are swallowed: a copy that       *)
(* differs from the stored order is about to be replaced by a current one, *)
(* unless such a copy was dropped after the last commit, that commit met   *)
(* copies of earlier versions still under way, or nothing can be read      *)
(* back (a message that was blanked leaves its copy behind).               *)
StaleMeansCopyDue ==
  ~empty /\ cache # Canonical => CopyDue \/ lost \/ crowded

(* Once Redis and everything under way agree with the stored order, only   *)
(* a commit changes that: neither reads that write back what they found,   *)
(* nor retries, nor consumers in any order can bring an old copy back.     *)
Settled == cache = Canonical /\ AllFresh

SettledUntilCommit ==
  [][Settled /\ UNCHANGED <<main, gig>> => Settled']_vars

Copy == INSTANCE ReadModel WITH
  Nothing <- Null,
  stored <- IF empty THEN Null ELSE Canonical,
  shown <- cache,
  due <- CopyDue,
  behind <- ~AllFresh,
  waived <- lost \/ crowded

(* The copy keeps what a read model promises, although SET is unguarded,   *)
(* failures are swallowed and events arrive in any order: a copy that      *)
(* differs from the stored order is about to be replaced by a current one, *)
(* unless that one was dropped or the last commit met older copies under   *)
(* way; once Redis and all that is under way agree with the stored order,  *)
(* only a commit changes that; and a reader of an outdated copy alone      *)
(* brings an old version back into circulation.                            *)
ImplementsReadModel == Copy!Spec

(* After the last commit Redis converges to the stored order, with the     *)
(* same exceptions, or a consumer that has stopped.                        *)
Converges ==
  <>[](\/ empty \/ cache = Canonical
       \/ lost \/ crowded \/ \E a \in Consumers : pc[a] = "stopped")

=============================================================================
