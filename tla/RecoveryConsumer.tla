--------------------------- MODULE RecoveryConsumer ---------------------------
(***************************************************************************)
(* The recovery consumer group: broker.runExplicitConsumerGroup with the   *)
(* handler of recoverySubscriber.                                          *)
(*                                                                         *)
(* Members are the replicas of the service.  A generation of the group     *)
(* gives each partition to a member, which runs one worker per partition:  *)
(* fetch, claim the command, handle it, dead-letter it if that failed, and *)
(* commit in either case.  Handlers outlive their generation (their        *)
(* context is detached from it), so that workers of two generations may be *)
(* busy with one partition; the commits of an old generation are refused.  *)
(*                                                                         *)
(* A worker that gives up ends alone.  Its member goes for the next        *)
(* generation only when all its workers have ended.                        *)
(***************************************************************************)
EXTENDS Integers, Sequences

CONSTANTS
  Commands,       \* command ids
  Broken,         \* the commands whose envelope cannot be unwrapped
  Members, Partitions,
  MaxPublished,   \* bound on the messages published, duplicates included
  MaxRebalances,  \* bound on generations that nobody's exit calls for
  MaxFaults,      \* bound on crashes and failing calls
  Null            \* the owner of a partition before the first generation

ASSUME CommandsAssumption == Broken \subseteq Commands

ASSUME MembersAssumption == Null \notin Members

ASSUME BoundsAssumption ==
  /\ MaxPublished \in Nat
  /\ MaxRebalances \in Nat
  /\ MaxFaults \in Nat

(* One worker per member and partition. *)
Workers == Members \X Partitions

VARIABLES
  log,        \* the messages of each partition
  committed,  \* the committed offset of each partition
  owner,      \* the member that each partition is given to
  down,       \* the members whose process has stopped
  pc,         \* what each worker does next
  position,   \* the last message each worker has fetched
  claims,     \* table processed_events
  orders,     \* commands whose order is in the database
  completed,  \* commands whose completion event is published
  dlq,        \* commands in the dead-letter topic
  published, rebalances, faults,
  succeeded,  \* history: how often the handler succeeded, per command
  stuck,      \* history: commands whose claim outlived a failed handling
  dropped     \* history: commands given up with no dead letter

counters == <<published, rebalances, faults>>
results == <<orders, completed, dlq>>
history == <<succeeded, stuck, dropped>>
group == <<log, committed, owner, down>>
vars == <<group, pc, position, claims, results, counters, history>>

Init ==
  /\ log = [p \in Partitions |-> <<>>]
  /\ committed = [p \in Partitions |-> 0]
  /\ owner = [p \in Partitions |-> Null]
  /\ down = {}
  /\ pc = [w \in Workers |-> "out"]
  /\ position = [w \in Workers |-> 0]
  /\ claims = {}
  /\ orders = {}
  /\ completed = {}
  /\ dlq = {}
  /\ published = 0
  /\ rebalances = 0
  /\ faults = 0
  /\ succeeded = [c \in Commands |-> 0]
  /\ stuck = {}
  /\ dropped = {}

Current(w) == log[w[2]][position[w]]

Goto(w, label) == pc' = [pc EXCEPT ![w] = label]

Fault == faults < MaxFaults /\ faults' = faults + 1

(* The worker's generation is the group's. *)
Live(w) == owner[w[2]] = w[1]

(* The function that generation.Start runs for the member has returned,    *)
(* and the member waits in cg.Next.                                        *)
Exited(m) == m \notin down /\ \A p \in Partitions : pc[<<m, p>>] = "out"

(* A member has left the generation, or there is none yet: the others hear *)
(* of it with their next heartbeat.                                        *)
Ending ==
  \E p \in Partitions : owner[p] # Null => owner[p] \in down \/ Exited(owner[p])

-----------------------------------------------------------------------------
(* Around the workers.                                                     *)

(* The migration publishes a command, possibly not for the first time. *)
Publish(c, p) ==
  /\ published < MaxPublished
  /\ published' = published + 1
  /\ log' = [log EXCEPT ![p] = Append(@, c)]
  /\ UNCHANGED <<committed, owner, down, pc, position, claims, results,
                 rebalances, faults, history>>

(* A generation gives each partition to a member that is waiting for one;  *)
(* its worker starts from the committed offset.                            *)
Generation(assignment) ==
  /\ \A p \in Partitions : Exited(assignment[p])
  /\ owner' = assignment
  /\ pc' = [w \in Workers |->
              IF assignment[w[2]] = w[1] THEN "fetch" ELSE pc[w]]
  /\ position' = [w \in Workers |->
              IF assignment[w[2]] = w[1] THEN committed[w[2]] ELSE position[w]]
  /\ UNCHANGED <<log, committed, down, claims, results, published, faults,
                 history>>

(* The function of a member has returned or its process has stopped, which *)
(* ends the generation; also the first generation.                         *)
NextGeneration ==
  /\ Ending
  /\ \E assignment \in [Partitions -> Members] : Generation(assignment)
  /\ UNCHANGED rebalances

(* The group rebalances although nobody's function has returned: a replica *)
(* joins, or the coordinator takes a busy one for dead.                    *)
Rebalance ==
  /\ rebalances < MaxRebalances
  /\ rebalances' = rebalances + 1
  /\ \E assignment \in [Partitions -> Members] : Generation(assignment)

-----------------------------------------------------------------------------
(* A worker.                                                               *)

FetchUnguarded(w) ==
  /\ pc[w] = "fetch"
  /\ position' = [position EXCEPT ![w] = @ + 1]
  /\ Goto(w, "claim")
  /\ UNCHANGED <<group, claims, results, counters, history>>

(* A worker of an old generation may fetch before it hears of the new one. *)
Fetch(w) ==
  /\ pc[w] = "fetch"
  /\ position[w] < Len(log[w[2]])
  /\ position' = [position EXCEPT ![w] = @ + 1]
  /\ Goto(w, "claim")
  /\ UNCHANGED <<group, claims, results, counters, history>>

(* It has heard of it, or of the end of its own. *)
Leave(w) ==
  /\ pc[w] = "fetch"
  /\ ~Live(w) \/ Ending
  /\ Goto(w, "out")
  /\ UNCHANGED <<group, position, claims, results, counters, history>>

FetchFails(w) ==
  /\ Fault
  /\ pc[w] = "fetch"
  /\ Goto(w, "out")
  /\ UNCHANGED <<group, position, claims, results, published, rebalances,
                 history>>

ClaimIgnoringConflict(w) ==
  /\ pc[w] = "claim"
  /\ claims' = claims \cup {Current(w)}
  /\ Goto(w, "handle")
  /\ UNCHANGED <<group, position, results, counters, history>>

(* A command claimed before is not handled again, but committed. *)
Claim(w) ==
  /\ pc[w] = "claim"
  /\ claims' = claims \cup {Current(w)}
  /\ Goto(w, IF Current(w) \in claims THEN "commit" ELSE "handle")
  /\ UNCHANGED <<group, position, results, counters, history>>

(* The claim could not be written, or was and the answer got lost. *)
ClaimFails(w, written) ==
  /\ Fault
  /\ pc[w] = "claim"
  /\ written => Current(w) \notin claims
  /\ claims' = IF written THEN claims \cup {Current(w)} ELSE claims
  /\ stuck' = IF written THEN stuck \cup {Current(w)} ELSE stuck
  /\ Goto(w, "out")
  /\ UNCHANGED <<group, position, results, published, rebalances, succeeded,
                 dropped>>

UnwrapFailsReleasing(w) ==
  /\ pc[w] = "handle"
  /\ Current(w) \in Broken
  /\ claims' = claims \ {Current(w)}
  /\ Goto(w, "out")
  /\ UNCHANGED <<group, position, results, counters, history>>

UnwrapFailsCommitting(w) ==
  /\ pc[w] = "handle"
  /\ Current(w) \in Broken
  /\ claims' = claims \ {Current(w)}
  /\ Goto(w, "commit")
  /\ UNCHANGED <<group, position, results, counters, history>>

(* The worker ends with its claim held. *)
UnwrapFails(w) ==
  /\ pc[w] = "handle"
  /\ Current(w) \in Broken
  /\ stuck' = stuck \cup {Current(w)}
  /\ Goto(w, "out")
  /\ UNCHANGED <<group, position, claims, results, counters, succeeded,
                 dropped>>

(* The handler's first half: CreateDraftOrder commits the order. *)
CreateDraft(w) ==
  /\ pc[w] = "handle"
  /\ Current(w) \notin Broken
  /\ orders' = orders \cup {Current(w)}
  /\ Goto(w, "complete")
  /\ UNCHANGED <<group, position, claims, completed, dlq, counters, history>>

(* The second: the completion event. *)
Complete(w) ==
  /\ pc[w] = "complete"
  /\ completed' = completed \cup {Current(w)}
  /\ succeeded' = [succeeded EXCEPT ![Current(w)] = @ + 1]
  /\ Goto(w, "commit")
  /\ UNCHANGED <<group, position, claims, orders, dlq, counters, stuck,
                 dropped>>

(* The event was published but the answer got lost: the writer sends it    *)
(* again, or the handler fails.                                            *)
CompleteUnanswered(w) ==
  /\ Fault
  /\ pc[w] = "complete"
  /\ completed' = completed \cup {Current(w)}
  /\ UNCHANGED <<group, pc, position, claims, orders, dlq, published,
                 rebalances, history>>

HandlerFailsReleasingLate(w, released) ==
  /\ \/ pc[w] = "handle" /\ Current(w) \notin Broken
     \/ pc[w] = "complete"
  /\ Goto(w, "deadletter")
  /\ UNCHANGED <<group, position, claims, results, counters, history>>

(* Either half fails: a command that cannot be decoded or lacks a field,   *)
(* the database, or the publish.  The claim is released; an error of       *)
(* Release is ignored.                                                     *)
HandlerFails(w, released) ==
  /\ \/ pc[w] = "handle" /\ Current(w) \notin Broken
     \/ pc[w] = "complete"
  /\ claims' = IF released THEN claims \ {Current(w)} ELSE claims
  /\ stuck' = IF released THEN stuck ELSE stuck \cup {Current(w)}
  /\ Goto(w, "deadletter")
  /\ UNCHANGED <<group, position, results, counters, succeeded, dropped>>

DeadLetter(w) ==
  /\ pc[w] = "deadletter"
  /\ dlq' = dlq \cup {Current(w)}
  /\ Goto(w, "commit")
  /\ UNCHANGED <<group, position, claims, orders, completed, counters, history>>

(* A dead letter that could not be written is only logged. *)
DeadLetterFails(w) ==
  /\ Fault
  /\ pc[w] = "deadletter"
  /\ dropped' = dropped \cup {Current(w)}
  /\ Goto(w, "commit")
  /\ UNCHANGED <<group, position, claims, results, published, rebalances,
                 succeeded, stuck>>

Commit(w) ==
  /\ pc[w] = "commit"
  /\ Live(w)
  /\ committed' = [committed EXCEPT ![w[2]] = position[w]]
  /\ Goto(w, "fetch")
  /\ UNCHANGED <<log, owner, down, position, claims, results, counters, history>>

(* The coordinator refuses the offset of an old generation. *)
CommitRefused(w) ==
  /\ pc[w] = "commit"
  /\ ~Live(w)
  /\ Goto(w, "out")
  /\ UNCHANGED <<group, position, claims, results, counters, history>>

(* (A commit whose answer got lost is Commit, then FetchFails.) *)
CommitFails(w) ==
  /\ Fault
  /\ pc[w] = "commit"
  /\ Goto(w, "out")
  /\ UNCHANGED <<group, position, claims, results, published, rebalances,
                 history>>

(* The replica stops, perhaps in the middle of everything. *)
Crash(m) ==
  /\ Fault
  /\ m \notin down
  /\ down' = down \cup {m}
  /\ LET handling == {p \in Partitions : pc[<<m, p>>] \in {"handle", "complete"}}
         burying == {p \in Partitions : pc[<<m, p>>] = "deadletter"}
     IN  /\ stuck' = stuck \cup {Current(<<m, p>>) : p \in handling}
         /\ dropped' = dropped \cup {Current(<<m, p>>) : p \in burying}
  /\ pc' = [w \in Workers |-> IF w[1] = m THEN "out" ELSE pc[w]]
  /\ UNCHANGED <<log, committed, owner, position, claims, results, published,
                 rebalances, succeeded>>

(* A new process subscribes. *)
Restart(m) ==
  /\ m \in down
  /\ down' = down \ {m}
  /\ UNCHANGED <<log, committed, owner, pc, position, claims, results, counters,
                 history>>

Handle(w) ==
  \/ CreateDraft(w)
  \/ Complete(w)
  \/ UnwrapFails(w)
  \/ \E released \in BOOLEAN : HandlerFails(w, released)

(* What a worker does unless a fault keeps it from it. *)
Proceed(w) ==
  \/ Fetch(w)
  \/ Leave(w)
  \/ Claim(w)
  \/ Handle(w)
  \/ DeadLetter(w)
  \/ Commit(w)
  \/ CommitRefused(w)

Next ==
  \/ \E c \in Commands, p \in Partitions : Publish(c, p)
  \/ NextGeneration
  \/ Rebalance
  \/ \E w \in Workers :
       \/ Proceed(w)
       \/ FetchFails(w)
       \/ \E written \in BOOLEAN : ClaimFails(w, written)
       \/ CompleteUnanswered(w)
       \/ DeadLetterFails(w)
       \/ CommitFails(w)
  \/ \E m \in Members : Crash(m) \/ Restart(m)

Spec == Init /\ [][Next]_vars

(* Workers go on, and the members that wait in cg.Next get the next        *)
(* generation; when it fails, the process subscribes again.  A new process *)
(* is not owed.                                                            *)
Fairness ==
  /\ \A w \in Workers : WF_vars(Proceed(w))
  /\ WF_vars(NextGeneration)

FairSpec == Spec /\ Fairness

-----------------------------------------------------------------------------
(* Properties.                                                             *)

Labels == {"out", "fetch", "claim", "handle", "complete", "deadletter", "commit"}

TypeOK ==
  /\ log \in [Partitions -> Seq(Commands)]
  /\ committed \in [Partitions -> Nat]
  /\ \A p \in Partitions : committed[p] <= Len(log[p])
  /\ owner \in [Partitions -> Members \cup {Null}]
  /\ down \in SUBSET Members
  /\ pc \in [Workers -> Labels]
  /\ position \in [Workers -> Nat]
  /\ \A w \in Workers :
       /\ position[w] <= Len(log[w[2]])
       /\ pc[w] \notin {"out", "fetch"} => position[w] > 0
  /\ claims \in SUBSET Commands
  /\ orders \in SUBSET Commands
  /\ completed \in SUBSET Commands
  /\ dlq \in SUBSET Commands
  /\ published \in Nat
  /\ rebalances \in Nat
  /\ faults \in Nat
  /\ succeeded \in [Commands -> Nat]
  /\ stuck \in SUBSET Commands
  /\ dropped \in SUBSET Commands

Owed == {c \in Commands : \E p \in Partitions : \E i \in 1..Len(log[p]) : log[p][i] = c}

Ledger == INSTANCE EventLedger WITH
  Events <- Commands, owed <- Owed, effects <- succeeded, spent <- stuck,
  buried <- dlq \cup dropped

(* Workers of two generations may handle one partition at a time, and      *)
(* messages come again: the handler succeeds once with a command at most,  *)
(* and never after a claim of it was left behind, be it by a worker of     *)
(* another replica.                                                        *)
ImplementsLedger == Ledger!Spec

Handling(w, c) == pc[w] \in {"handle", "complete"} /\ Current(w) = c

Burying(w, c) == pc[w] = "deadletter" /\ Current(w) = c

(* A claimed command is handled by one worker, was handled with success,   *)
(* or its claim is stuck; and no two workers ever handle one command.      *)
ClaimsExplained ==
  /\ \A c \in claims :
       succeeded[c] = 1 \/ c \in stuck \/ \E w \in Workers : Handling(w, c)
  /\ \A v, w \in Workers :
       v # w /\ pc[v] \in {"handle", "complete"}
             /\ pc[w] \in {"handle", "complete"} => Current(v) # Current(w)

(* Its order and its completion event are there, or it is known why not. *)
Settled(c) ==
  \/ c \in orders /\ c \in completed
  \/ c \in dlq \cup stuck \cup dropped

(* A command is committed by whoever finds it claimed, though its handler  *)
(* is still busy in another replica and may yet fail.  It is not lost:     *)
(* what is committed is settled, or in a worker's hand that will settle    *)
(* it.                                                                     *)
NoSilentLoss ==
  \A p \in Partitions : \A i \in 1..committed[p] :
    LET c == log[p][i]
    IN  Settled(c) \/ \E w \in Workers : Handling(w, c) \/ Burying(w, c)

(* Every command that is published is settled, unless every replica stops. *)
Consumed ==
  \A c \in Commands, p \in Partitions :
    (\E i \in 1..Len(log[p]) : log[p][i] = c) ~> Settled(c) \/ down = Members

=============================================================================
