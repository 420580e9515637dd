-------------------------- MODULE EventConsumerProofs --------------------------
(***************************************************************************)
(* Proofs about EventConsumer, for any number of events, messages,         *)
(* replicas, retry attempts, rebalances and restarts.                      *)
(***************************************************************************)
EXTENDS EventConsumer, FiniteSetTheorems, TLAPS

(* Appending to the log leaves what was there where it was. *)
LEMMA LogGrows ==
  ASSUME NEW s \in Seq(Message), NEW m \in Message
  PROVE  /\ Append(s, m) \in Seq(Message)
         /\ Len(Append(s, m)) = Len(s) + 1
         /\ Append(s, m)[Len(s) + 1] = m
         /\ \A i \in 1..Len(s) : Append(s, m)[i] = s[i]
OBVIOUS

(* A message has an attempt left when it is retried. *)
RetryHasAttempt ==
  \A r \in Replicas : pc[r] = "retry" => Current(r).attempt < MaxAttempts

TypeInv == TypeOK /\ RetryHasAttempt

Busy(r) == pc[r] \notin {"out", "fetch", "stopped"}

LEMMA CurrentIsMessage ==
  ASSUME TypeOK, NEW r \in Replicas, Busy(r)
  PROVE  /\ position[r] \in 1..Len(log)
         /\ Current(r) \in Message /\ Current(r) = log[position[r]]
         /\ Event(r) \in Events /\ Current(r).event = Event(r)
<1>1. /\ log \in Seq(Message) /\ position[r] \in 0..Len(log)
      /\ position[r] > 0
  BY Zenon DEF TypeOK, Busy
<1>2. position[r] \in 1..Len(log)
  BY <1>1
<1>3. Current(r) \in Message
  BY <1>1, <1>2 DEF Current
<1> QED
  BY <1>2, <1>3 DEF Current, Event, Message

(* What a step of a loop does to the loops: the one of r goes to label and *)
(* keeps its message or not, those of the others stay.                     *)
LoopAt(r, label, at) ==
  /\ pc'[r] = label /\ position'[r] = at
  /\ \A s \in Replicas \ {r} : pc'[s] = pc[s] /\ position'[s] = position[s]

LoopTyped ==
  /\ pc \in [Replicas -> Labels]
  /\ position \in [Replicas -> 0..Len(log)]
  /\ \A r \in Replicas : position[r] > 0 <=> pc[r] \notin {"out", "fetch", "stopped"}

LEMMA Gone ==
  ASSUME TypeOK, NEW r \in Replicas, NEW label \in Labels, Goto(r, label),
         Busy(r), label \notin {"out", "fetch", "stopped"}, log' = log
  PROVE  LoopAt(r, label, position[r]) /\ LoopTyped'
BY DEF TypeOK, Goto, Busy, LoopAt, LoopTyped

LEMMA Ended ==
  ASSUME TypeOK, NEW r \in Replicas, NEW label \in {"out", "fetch", "stopped"},
         End(r, label), log' = log
  PROVE  LoopAt(r, label, 0) /\ LoopTyped'
<1>1. /\ pc' = [pc EXCEPT ![r] = label] /\ position' = [position EXCEPT ![r] = 0]
      /\ pc \in [Replicas -> Labels] /\ position \in [Replicas -> 0..Len(log)]
      /\ \A s \in Replicas : position[s] > 0 <=> pc[s] \notin {"out", "fetch", "stopped"}
      /\ Len(log) \in Nat
  BY DEF TypeOK, End
<1>2. LoopAt(r, label, 0)
  BY <1>1 DEF LoopAt
<1>3. pc' \in [Replicas -> Labels] /\ position' \in [Replicas -> 0..Len(log')]
  BY <1>1 DEF Labels
<1> QED
  BY <1>1, <1>2, <1>3 DEF LoopAt, LoopTyped

(* TypeOK but for the loops. *)
RestTyped ==
  /\ log \in Seq(Message)
  /\ committed \in 0..Len(log)
  /\ owner \in Replicas
  /\ cursor \in [Replicas -> 0..Len(log)]
  /\ claims \in SUBSET Events
  /\ retryq \in Seq(Message)
  /\ draining \in SUBSET Replicas
  /\ dlq \in SUBSET Events
  /\ published \in 0..MaxPublished
  /\ restarts \in 0..MaxRestarts
  /\ rebalances \in 0..MaxRebalances
  /\ faults \in 0..MaxFaults
  /\ succeeded \in [Events -> Nat]
  /\ stuck \in SUBSET Events
  /\ dropped \in SUBSET Events

LEMMA TypedTogether == TypeOK <=> RestTyped /\ LoopTyped
BY Zenon DEF TypeOK, RestTyped, LoopTyped

LEMMA QueuesTyped ==
  TypeOK => log \in Seq(Message) /\ retryq \in Seq(Message)
BY Zenon DEF TypeOK

LEMMA FaultTyped == TypeOK /\ Fault => faults' \in 0..MaxFaults
BY BoundsAssumption DEF TypeOK, Fault

LEMMA DropTyped ==
  ASSUME TypeOK, NEW r \in Replicas, Busy(r), Drop(r)
  PROVE  dropped' \in SUBSET Events /\ dropped \subseteq dropped'
<1>1. Event(r) \in Events
  BY CurrentIsMessage
<1> QED
  BY <1>1 DEF TypeOK, Drop

(* The log grows by one message. *)
LEMMA GrowthTyped ==
  ASSUME TypeInv, NEW m \in Message, log' = Append(log, m),
         UNCHANGED <<group, position, pc>>
  PROVE  /\ log' \in Seq(Message) /\ LoopTyped' /\ RetryHasAttempt'
         /\ committed' \in 0..Len(log') /\ owner' \in Replicas
         /\ cursor' \in [Replicas -> 0..Len(log')]
<1>1. /\ log' \in Seq(Message) /\ Len(log') = Len(log) + 1
      /\ \A i \in 1..Len(log) : log'[i] = log[i]
      /\ Len(log) \in Nat
  BY LogGrows DEF TypeInv, TypeOK
<1>2. 0..Len(log) \subseteq 0..Len(log')
  BY <1>1
<1>3. \A r \in Replicas : pc[r] = "retry" => log'[position[r]] = log[position[r]]
  BY <1>1, CurrentIsMessage DEF TypeInv, Busy
<1>4. LoopTyped'
  BY <1>2 DEF TypeInv, TypeOK, LoopTyped
<1>5. RetryHasAttempt'
  BY <1>3 DEF TypeInv, RetryHasAttempt, Current
<1> QED
  BY <1>1, <1>2, <1>4, <1>5 DEF TypeInv, TypeOK, group

(* Nothing is retried that was not before. *)
LEMMA RetryKept ==
  ASSUME TypeInv, log' = log, NEW r \in Replicas, NEW label, NEW at,
         LoopAt(r, label, at), label # "retry"
  PROVE  RetryHasAttempt'
<1> SUFFICES ASSUME NEW s \in Replicas, pc'[s] = "retry"
             PROVE  log'[position'[s]].attempt < MaxAttempts
  BY DEF RetryHasAttempt, Current
<1>1. s # r /\ pc[s] = "retry" /\ position'[s] = position[s]
  BY DEF LoopAt
<1> QED
  BY <1>1 DEF TypeInv, RetryHasAttempt, Current

LEMMA TypeInvStep == TypeInv /\ [Next]_vars => TypeInv'
<1> SUFFICES ASSUME TypeInv, [Next]_vars
             PROVE  TypeInv'
  OBVIOUS
<1>0. TypeOK /\ RestTyped /\ LoopTyped
  BY TypedTogether DEF TypeInv
<1>a. ASSUME RestTyped', LoopTyped', RetryHasAttempt'
      PROVE  TypeInv'
  BY <1>a, Zenon DEF TypeInv, TypeOK, RestTyped, LoopTyped
<1> USE DEF topics, group, counters, history
<1>1. ASSUME NEW e \in Events, Publish(e)
      PROVE  TypeInv'
  <2>1. [event |-> e, attempt |-> 1] \in Message
    BY BoundsAssumption DEF Message
  <2>2. /\ log' = Append(log, [event |-> e, attempt |-> 1])
        /\ published' = published + 1 /\ published < MaxPublished
        /\ UNCHANGED <<retryq, dlq, group, position, pc, claims, draining, restarts,
                       rebalances, faults, history>>
    BY <1>1, Zenon DEF Publish
  <2>3. published' \in 0..MaxPublished
    BY <1>0, <2>2, BoundsAssumption DEF RestTyped
  <2>4. RestTyped' /\ LoopTyped' /\ RetryHasAttempt'
    BY <1>0, <2>1, <2>2, <2>3, GrowthTyped, Zenon DEF RestTyped
  <2> QED
    BY <1>a, <2>4
<1>2. ASSUME Requeue
      PROVE  TypeInv'
  <2>1. Head(retryq) \in Message /\ Tail(retryq) \in Seq(Message)
    BY <1>0, <1>2 DEF Requeue, RestTyped
  <2>2. RestTyped' /\ LoopTyped' /\ RetryHasAttempt'
    BY <1>0, <1>2, <2>1, GrowthTyped, Zenon DEF Requeue, RestTyped
  <2> QED
    BY <1>a, <2>2
<1>3. ASSUME NEW r \in Replicas, RetryQueueStops(r)
      PROVE  TypeInv'
  <2>1. faults' \in 0..MaxFaults /\ draining' \in SUBSET Replicas
    BY <1>0, <1>3, FaultTyped DEF RetryQueueStops, RestTyped
  <2>2. UNCHANGED <<topics, group, position, pc, claims, published, restarts,
                    rebalances, history>>
    BY <1>3, Zenon DEF RetryQueueStops
  <2>3. RetryHasAttempt'
    BY <2>2 DEF TypeInv, RetryHasAttempt, Current
  <2> QED
    BY <1>0, <1>a, <2>1, <2>2, <2>3 DEF RestTyped, LoopTyped
<1>4. ASSUME NEW r \in Replicas, Rebalance(r) \/ Takeover(r)
      PROVE  TypeInv'
  <2>1. Assign(r) /\ rebalances' \in 0..MaxRebalances
    BY <1>0, <1>4, BoundsAssumption DEF Rebalance, Takeover, RestTyped
  <2>2. /\ cursor' = [cursor EXCEPT ![r] = committed]
        /\ pc' = [pc EXCEPT ![r] = IF @ = "out" THEN "fetch" ELSE @]
        /\ owner' = r /\ position' = position
        /\ UNCHANGED <<topics, committed, claims, draining, published, restarts,
                       faults, history>>
    BY <2>1, Zenon DEF Assign
  <2>3. cursor' \in [Replicas -> 0..Len(log')]
    BY <1>0, <2>2 DEF RestTyped
  <2>4. RestTyped'
    BY <1>0, <2>1, <2>2, <2>3 DEF RestTyped
  <2>5. LoopTyped'
    BY <1>0, <2>2 DEF LoopTyped, Labels
  <2>6. \A s \in Replicas : pc'[s] = "retry" => pc[s] = "retry"
    BY <1>0, <2>2 DEF LoopTyped
  <2>7. RetryHasAttempt'
    BY <2>2, <2>6 DEF TypeInv, RetryHasAttempt, Current
  <2> QED
    BY <1>a, <2>4, <2>5, <2>7
<1>5. ASSUME NEW r \in Replicas, Fetch(r)
      PROVE  TypeInv'
  <2>1. /\ cursor' = [cursor EXCEPT ![r] = cursor[r] + 1]
        /\ position' = [position EXCEPT ![r] = cursor[r] + 1]
        /\ pc' = [pc EXCEPT ![r] = "claim"]
        /\ UNCHANGED <<topics, committed, owner, claims, draining, counters, history>>
        /\ cursor[r] \in 0..Len(log) /\ cursor[r] < Len(log)
    BY <1>0, <1>5 DEF Fetch, RestTyped
  <2>2. cursor[r] + 1 \in 1..Len(log)
    BY <2>1
  <2>3. RestTyped'
    BY <1>0, <2>1, <2>2 DEF RestTyped
  <2>4. LoopTyped' /\ LoopAt(r, "claim", cursor[r] + 1)
    BY <1>0, <2>1, <2>2 DEF LoopTyped, LoopAt, Labels
  <2>5. RetryHasAttempt'
    BY <2>1, <2>4, RetryKept
  <2> QED
    BY <1>a, <2>3, <2>4, <2>5
(* The other steps of a loop end its handling or go on with its message. *)
<1>b. ASSUME NEW r \in Replicas, RestTyped', log' = log,
             NEW label \in {"out", "fetch", "stopped"}, End(r, label)
      PROVE  TypeInv'
  <2>1. LoopAt(r, label, 0) /\ LoopTyped'
    BY <1>0, <1>b, Ended
  <2>2. RetryHasAttempt'
    BY <1>b, <2>1, RetryKept
  <2> QED
    BY <1>a, <1>b, <2>1, <2>2
<1>c. ASSUME NEW r \in Replicas, Busy(r), RestTyped', log' = log,
             NEW label \in {"handle", "retry", "deadletter", "commit"},
             Goto(r, label),
             label = "retry" => Current(r).attempt < MaxAttempts
      PROVE  TypeInv'
  <2>1. LoopAt(r, label, position[r]) /\ LoopTyped'
    BY <1>0, <1>c, Gone DEF Labels
  <2>2. CASE label # "retry"
    BY <1>a, <1>c, <2>1, <2>2, RetryKept
  <2>3. CASE label = "retry"
    <3>1. RetryHasAttempt'
      BY <1>c, <2>1, <2>3 DEF TypeInv, RetryHasAttempt, Current, LoopAt
    <3> QED
      BY <1>a, <1>c, <2>1, <3>1
  <2> QED
    BY <2>2, <2>3
<1>6. ASSUME NEW r \in Replicas, Leave(r) \/ FetchFails(r) \/ Restart(r)
      PROVE  TypeInv'
  <2>1. /\ UNCHANGED faults \/ Fault
        /\ UNCHANGED restarts \/ (restarts < MaxRestarts /\ restarts' = restarts + 1)
        /\ draining' \in {draining, draining \cup {r}}
        /\ UNCHANGED <<topics, group, claims, published, rebalances, history>>
    BY <1>6, Zenon DEF Leave, FetchFails, Restart, counters
  <2>2. /\ faults' \in 0..MaxFaults /\ restarts' \in 0..MaxRestarts
        /\ draining' \in SUBSET Replicas
    BY <1>0, <2>1, FaultTyped, BoundsAssumption DEF RestTyped
  <2>3. RestTyped'
    BY <1>0, <2>1, <2>2 DEF RestTyped
  <2>4. End(r, "out") \/ End(r, "stopped")
    BY <1>6, Zenon DEF Leave, FetchFails, Restart
  <2> QED
    BY <1>b, <2>1, <2>3, <2>4
<1>7. ASSUME NEW r \in Replicas, Claim(r)
      PROVE  TypeInv'
  <2>1. Busy(r) /\ Event(r) \in Events
    BY <1>0, <1>7, CurrentIsMessage DEF Claim, Busy
  <2>2. RestTyped' /\ log' = log
    BY <1>0, <1>7, <2>1 DEF Claim, RestTyped
  <2>3. End(r, "fetch") \/ Goto(r, "handle")
    BY <1>7, Zenon DEF Claim
  <2> QED
    BY <1>b, <1>c, <2>1, <2>2, <2>3
<1>8. ASSUME NEW r \in Replicas, NEW written \in BOOLEAN, ClaimFails(r, written)
      PROVE  TypeInv'
  <2>1. Busy(r) /\ Event(r) \in Events
    BY <1>0, <1>8, CurrentIsMessage DEF ClaimFails, Busy
  <2>2. /\ claims' \in SUBSET Events /\ stuck' \in SUBSET Events
        /\ faults' \in 0..MaxFaults
        /\ UNCHANGED <<topics, group, draining, published, restarts, rebalances,
                       succeeded, dropped>>
    BY <1>0, <1>8, <2>1, FaultTyped DEF ClaimFails, RestTyped
  <2>3. RestTyped' /\ log' = log /\ End(r, "stopped")
    BY <1>0, <1>8, <2>2 DEF ClaimFails, RestTyped
  <2> QED
    BY <1>b, <2>3
<1>9. ASSUME NEW r \in Replicas, UnwrapFails(r) \/ HandlerSucceeds(r)
      PROVE  TypeInv'
  <2>1. Busy(r) /\ Event(r) \in Events
    BY <1>0, <1>9, CurrentIsMessage DEF UnwrapFails, HandlerSucceeds, Busy
  <2>2. /\ stuck' \in {stuck, stuck \cup {Event(r)}}
        /\ \/ succeeded' = succeeded
           \/ succeeded' = [succeeded EXCEPT ![Event(r)] = succeeded[Event(r)] + 1]
        /\ UNCHANGED <<topics, group, claims, draining, counters, dropped>>
    BY <1>9, Zenon DEF UnwrapFails, HandlerSucceeds
  <2>3. succeeded \in [Events -> Nat] /\ stuck \in SUBSET Events
    BY <1>0, Zenon DEF RestTyped
  <2>4. succeeded' \in [Events -> Nat]
    BY <2>1, <2>2, <2>3
  <2>5. stuck' \in SUBSET Events
    BY <2>1, <2>2, <2>3
  <2>6. RestTyped' /\ log' = log
    BY <1>0, <2>2, <2>4, <2>5, Zenon DEF RestTyped
  <2>7. Goto(r, "deadletter") \/ Goto(r, "commit")
    BY <1>9, Zenon DEF UnwrapFails, HandlerSucceeds
  <2> QED
    BY <1>c, <2>1, <2>6, <2>7
<1>10. ASSUME NEW r \in Replicas, NEW permanent \in BOOLEAN, NEW released \in BOOLEAN,
              HandlerFails(r, permanent, released)
       PROVE  TypeInv'
  <2>1. Busy(r) /\ Event(r) \in Events
    BY <1>0, <1>10, CurrentIsMessage DEF HandlerFails, Busy
  <2>2. /\ claims' \in SUBSET Events /\ stuck' \in SUBSET Events
        /\ faults' \in 0..MaxFaults
        /\ UNCHANGED <<topics, group, draining, published, restarts, rebalances,
                       succeeded, dropped>>
    BY <1>0, <1>10, <2>1, FaultTyped DEF HandlerFails, RestTyped
  <2>3. RestTyped' /\ log' = log
    BY <1>0, <2>2 DEF RestTyped
  <2>4. \/ Goto(r, "retry") /\ Current(r).attempt < MaxAttempts
        \/ Goto(r, "deadletter")
    BY <1>10, Zenon DEF HandlerFails
  <2> QED
    BY <1>c, <2>1, <2>3, <2>4
<1>11. ASSUME NEW r \in Replicas, Enqueue(r)
       PROVE  TypeInv'
  <2>1. Busy(r) /\ Current(r) \in Message /\ Current(r).attempt < MaxAttempts
    BY <1>0, <1>11, CurrentIsMessage DEF Enqueue, Busy, TypeInv, RetryHasAttempt
  <2>2. [Current(r) EXCEPT !.attempt = Current(r).attempt + 1] \in Message
    <3> DEFINE n == Current(r).attempt + 1
    <3>1. n \in 1..MaxAttempts
      BY <2>1, BoundsAssumption DEF Message
    <3> HIDE DEF n
    <3>2. [Current(r) EXCEPT !.attempt = n] \in Message
      BY <2>1, <3>1 DEF Message
    <3> QED
      BY <3>2 DEF n
  <2>3. /\ retryq' = Append(retryq, [Current(r) EXCEPT !.attempt = Current(r).attempt + 1])
        /\ End(r, "fetch")
        /\ UNCHANGED <<log, dlq, group, claims, draining, counters, history>>
    BY <1>11 DEF Enqueue
  <2>4. retryq' \in Seq(Message)
    BY <1>0, <2>2, <2>3 DEF RestTyped
  <2>5. RestTyped'
    BY <1>0, <2>3, <2>4 DEF RestTyped
  <2> QED
    BY <1>b, <2>3, <2>5
<1>12. ASSUME NEW r \in Replicas, EnqueueFails(r) \/ DeadLetterFails(r)
       PROVE  TypeInv'
  <2>1. dropped' \in SUBSET Events /\ faults' \in 0..MaxFaults
    BY <1>0, <1>12, DropTyped, FaultTyped DEF EnqueueFails, DeadLetterFails, Busy
  <2>2. RestTyped' /\ log' = log /\ End(r, "stopped")
    BY <1>0, <1>12, <2>1 DEF EnqueueFails, DeadLetterFails, RestTyped
  <2> QED
    BY <1>b, <2>2
<1>13. ASSUME NEW r \in Replicas, DeadLetter(r)
       PROVE  TypeInv'
  <2>1. Event(r) \in Events
    BY <1>0, <1>13, CurrentIsMessage DEF DeadLetter, Busy
  <2>2. RestTyped' /\ log' = log /\ End(r, "stopped")
    BY <1>0, <1>13, <2>1 DEF DeadLetter, RestTyped
  <2> QED
    BY <1>b, <2>2
<1>14. ASSUME NEW r \in Replicas, Commit(r)
       PROVE  TypeInv'
  <2>1. committed' \in 0..Len(log)
    BY <1>0, <1>14 DEF Commit, LoopTyped
  <2>2. RestTyped' /\ log' = log /\ End(r, "fetch")
    BY <1>0, <1>14, <2>1 DEF Commit, RestTyped
  <2> QED
    BY <1>b, <2>2
<1>15. ASSUME NEW r \in Replicas, CommitFails(r)
       PROVE  TypeInv'
  <2>1. faults' \in 0..MaxFaults
    BY <1>0, <1>15, FaultTyped DEF CommitFails
  <2>2. RestTyped' /\ log' = log /\ End(r, "stopped")
    BY <1>0, <1>15, <2>1 DEF CommitFails, RestTyped
  <2> QED
    BY <1>b, <2>2
<1>16. ASSUME NEW r \in Replicas, Crash(r)
       PROVE  TypeInv'
  <2>1. faults' \in 0..MaxFaults /\ draining' \in SUBSET Replicas
    BY <1>0, <1>16, FaultTyped DEF Crash, RestTyped
  <2>2. stuck' \in SUBSET Events /\ dropped' \in SUBSET Events
    <3>1. pc[r] = "handle" => Event(r) \in Events
      BY <1>0, CurrentIsMessage DEF Busy
    <3>2. pc[r] \in {"retry", "deadletter"} => Busy(r)
      BY DEF Busy
    <3> QED
      BY <1>0, <1>16, <3>1, <3>2, DropTyped DEF Crash, RestTyped
  <2>3. RestTyped' /\ log' = log /\ End(r, "stopped")
    BY <1>0, <1>16, <2>1, <2>2 DEF Crash, RestTyped
  <2> QED
    BY <1>b, <2>3
<1>17. CASE UNCHANGED vars
  BY <1>0, <1>a, <1>17 DEF vars, RestTyped, LoopTyped, TypeInv, RetryHasAttempt, Current
<1> QED
  BY <1>1, <1>2, <1>3, <1>4, <1>5, <1>6, <1>7, <1>8, <1>9, <1>10, <1>11, <1>12,
     <1>13, <1>14, <1>15, <1>16, <1>17, Zenon DEF Next, Proceed, Fail

LEMMA TypeInvCorrect == Spec => []TypeInv
<1>1. Init => TypeInv
  BY BoundsAssumption
  DEF Init, TypeInv, TypeOK, RetryHasAttempt, Labels
<1> QED
  BY <1>1, TypeInvStep, PTL DEF Spec

(* Type correctness: offsets stay within the log, a loop has a message     *)
(* exactly while it is busy, and no message is ever sent on with more than *)
(* the allowed attempts.                                                   *)
THEOREM TypeCorrect == Spec => []TypeOK
<1>1. TypeInv => TypeOK
  BY DEF TypeInv
<1> QED
  BY <1>1, TypeInvCorrect, PTL

-----------------------------------------------------------------------------
(***************************************************************************)
(* What every step leaves as it was.                                       *)
(***************************************************************************)

LEMMA MessagesStay ==
  ASSUME TypeOK, [Next]_vars
  PROVE  Len(log) <= Len(log') /\ \A i \in 1..Len(log) : log'[i] = log[i]
<1>1. ASSUME NEW m \in Message, log' = Append(log, m)
      PROVE  Len(log) <= Len(log') /\ \A i \in 1..Len(log) : log'[i] = log[i]
  BY <1>1, LogGrows DEF TypeOK
<1>2. ASSUME NEW e \in Events, Publish(e)
      PROVE  Len(log) <= Len(log') /\ \A i \in 1..Len(log) : log'[i] = log[i]
  <2>1. [event |-> e, attempt |-> 1] \in Message
    BY BoundsAssumption DEF Message
  <2> QED
    BY <1>1, <1>2, <2>1 DEF Publish
<1>3. ASSUME Requeue
      PROVE  Len(log) <= Len(log') /\ \A i \in 1..Len(log) : log'[i] = log[i]
  <2>1. Head(retryq) \in Message
    BY <1>3 DEF Requeue, TypeOK
  <2> QED
    BY <1>1, <1>3, <2>1 DEF Requeue
<1>4. CASE log' = log
  BY <1>4 DEF TypeOK
<1> QED
  BY <1>2, <1>3, <1>4, Zenon
  DEF Next, Proceed, Fail, vars, topics, RetryQueueStops, Rebalance, Takeover,
      Assign, Fetch, Leave, FetchFails, Claim, ClaimFails, UnwrapFails,
      HandlerSucceeds, HandlerFails, Enqueue, EnqueueFails, DeadLetter,
      DeadLetterFails, Commit, CommitFails, Crash, Restart

(* A message in hand stays the same while the log grows. *)
LEMMA EventStays ==
  ASSUME TypeOK, [Next]_vars, NEW s \in Replicas, Busy(s),
         position'[s] = position[s]
  PROVE  Current(s)' = Current(s) /\ Event(s)' = Event(s)
<1>1. position[s] \in 1..Len(log)
  BY CurrentIsMessage
<1>2. log'[position[s]] = log[position[s]]
  BY <1>1, MessagesStay
<1> QED
  BY <1>2, Zenon DEF Current, Event

(* A step of one loop is none of the others. *)
LEMMA OthersStay ==
  ASSUME TypeOK, NEW r \in Replicas, Proceed(r) \/ Fail(r) \/ Restart(r)
  PROVE  \A s \in Replicas \ {r} : pc'[s] = pc[s] /\ position'[s] = position[s]
<1>1. \/ \E label : Goto(r, label)
      \/ \E label : End(r, label)
      \/ Fetch(r)
  BY Zenon
  DEF Proceed, Fail, Fetch, Leave, FetchFails, Claim, ClaimFails, UnwrapFails,
      HandlerSucceeds, HandlerFails, Enqueue, EnqueueFails, DeadLetter,
      DeadLetterFails, Commit, CommitFails, Crash, Restart
<1> QED
  BY <1>1 DEF TypeOK, Goto, End, Fetch

(* Where the loop of r goes. *)
LEMMA GoesTo ==
  ASSUME TypeOK, NEW r \in Replicas, NEW label
  PROVE  /\ Goto(r, label) => pc'[r] = label /\ position'[r] = position[r]
         /\ End(r, label) => pc'[r] = label /\ position'[r] = 0
BY DEF TypeOK, Goto, End

(* Steps outside of the loops: a replica may join, nothing else happens to *)
(* a loop.                                                                 *)
Outside ==
  \/ \E e \in Events : Publish(e)
  \/ Requeue
  \/ \E r \in Replicas : RetryQueueStops(r) \/ Rebalance(r) \/ Takeover(r)
  \/ UNCHANGED vars

LEMMA OutsideStays ==
  ASSUME TypeOK, Outside
  PROVE  /\ UNCHANGED <<committed, position, claims, dlq, succeeded, stuck, dropped>>
         /\ \A s \in Replicas :
              \/ pc'[s] = pc[s]
              \/ pc[s] = "out" /\ pc'[s] = "fetch" /\ cursor'[s] = committed
         /\ \A s \in Replicas : cursor'[s] = cursor[s] \/ cursor'[s] = committed
<1>1. ASSUME NEW r \in Replicas, Assign(r)
      PROVE  /\ UNCHANGED <<committed, position, claims, dlq, succeeded, stuck, dropped>>
             /\ \A s \in Replicas :
                  \/ pc'[s] = pc[s]
                  \/ pc[s] = "out" /\ pc'[s] = "fetch" /\ cursor'[s] = committed
             /\ \A s \in Replicas : cursor'[s] = cursor[s] \/ cursor'[s] = committed
  BY <1>1 DEF Assign, TypeOK, topics, history
<1>2. CASE UNCHANGED <<committed, cursor, position, pc, claims, dlq, succeeded, stuck,
                       dropped>>
  BY <1>2
<1> QED
  BY <1>1, <1>2, Zenon
  DEF Outside, Publish, Requeue, RetryQueueStops, Rebalance, Takeover, vars,
      topics, group, history

LEMMA EveryStep ==
  [Next]_vars <=> Outside \/ \E r \in Replicas : Proceed(r) \/ Fail(r) \/ Restart(r)
BY Zenon DEF Next, Outside

-----------------------------------------------------------------------------
(***************************************************************************)
(* Claims.  A success always holds the claim of its event; a claim is held *)
(* by one handling at a time, which alone gives it up, before any success; *)
(* and a claim that a failed handling left behind is never taken again.    *)
(***************************************************************************)

SuccessIsClaimed ==
  \A e \in Events : succeeded[e] <= 1 /\ (succeeded[e] = 1 => e \in claims)

HandledIsClaimed ==
  \A r \in Replicas :
    pc[r] = "handle" => Event(r) \in claims /\ succeeded[Event(r)] = 0

HandledByOne ==
  \A r, s \in Replicas :
    pc[r] = "handle" /\ pc[s] = "handle" /\ Event(r) = Event(s) => r = s

CommittedSucceeded ==
  \A r \in Replicas : pc[r] = "commit" => succeeded[Event(r)] = 1

StuckStaysClaimed ==
  \A e \in stuck :
    /\ e \in claims
    /\ succeeded[e] = 0
    /\ \A r \in Replicas : pc[r] = "handle" => Event(r) # e

ClaimInv ==
  /\ SuccessIsClaimed /\ HandledIsClaimed /\ HandledByOne
  /\ CommittedSucceeded /\ StuckStaysClaimed /\ ClaimsExplained

(* Handlings that go on, and those that end with their claim left behind. *)
LEMMA ClaimKept ==
  ASSUME TypeOK, ClaimInv, [Next]_vars, UNCHANGED <<claims, succeeded>>,
         stuck \subseteq stuck',
         \A s \in Replicas : pc'[s] \in {"handle", "commit"} =>
           pc[s] = pc'[s] /\ position'[s] = position[s],
         \A s \in Replicas : pc[s] = "handle" =>
           pc'[s] = "handle" \/ Event(s) \in stuck',
         \A e \in stuck' \ stuck : \E s \in Replicas :
           pc[s] = "handle" /\ Event(s) = e /\ pc'[s] # "handle"
  PROVE  ClaimInv'
<1>1. \A s \in Replicas : pc'[s] \in {"handle", "commit"} =>
        pc[s] = pc'[s] /\ Event(s)' = Event(s)
  BY EventStays DEF Busy
<1>2. SuccessIsClaimed' /\ HandledIsClaimed' /\ CommittedSucceeded'
  BY <1>1 DEF ClaimInv, SuccessIsClaimed, HandledIsClaimed, CommittedSucceeded
<1>3. HandledByOne'
  BY <1>1 DEF ClaimInv, HandledByOne
<1>4. StuckStaysClaimed'
  BY <1>1
  DEF ClaimInv, StuckStaysClaimed, HandledIsClaimed, HandledByOne
<1>5. ClaimsExplained'
  <2>1. ASSUME NEW s \in Replicas, pc[s] = "handle", pc'[s] = "handle"
        PROVE  Event(s)' = Event(s)
    BY <1>1, <2>1
  <2> QED
    BY <2>1 DEF ClaimInv, ClaimsExplained, Handling
<1> QED
  BY <1>2, <1>3, <1>4, <1>5 DEF ClaimInv

LEMMA ClaimInvStep == TypeOK /\ ClaimInv /\ [Next]_vars => ClaimInv'
<1> SUFFICES ASSUME TypeOK, ClaimInv, [Next]_vars
             PROVE  ClaimInv'
  OBVIOUS
<1>0. /\ claims \subseteq Events /\ stuck \subseteq Events
      /\ succeeded \in [Events -> Nat]
      /\ \A s \in Replicas : Busy(s) => Event(s) \in Events
  BY CurrentIsMessage DEF TypeOK
<1>1. CASE Outside
  <2>1. /\ UNCHANGED <<claims, succeeded, stuck, position>>
        /\ \A s \in Replicas : pc'[s] = pc[s] \/ (pc[s] = "out" /\ pc'[s] = "fetch")
    BY <1>1, OutsideStays
  <2> QED
    BY <2>1, ClaimKept
<1>2. ASSUME NEW r \in Replicas,
             \/ Fetch(r) \/ Leave(r) \/ FetchFails(r) \/ Enqueue(r) \/ EnqueueFails(r)
             \/ DeadLetter(r) \/ DeadLetterFails(r) \/ Commit(r) \/ CommitFails(r)
             \/ Restart(r)
      PROVE  ClaimInv'
  <2>1. \A s \in Replicas \ {r} : pc'[s] = pc[s] /\ position'[s] = position[s]
    BY <1>2, OthersStay DEF Proceed, Fail
  <2>2. pc[r] # "handle" /\ UNCHANGED <<claims, succeeded, stuck>>
    BY <1>2
    DEF Fetch, Leave, FetchFails, Enqueue, EnqueueFails, DeadLetter,
        DeadLetterFails, Commit, CommitFails, Restart, history
  <2>3. pc'[r] \in {"claim", "out", "fetch", "stopped"}
    <3>1. Fetch(r) => pc'[r] = "claim"
      BY DEF Fetch, TypeOK
    <3>2. ~Fetch(r) => End(r, "out") \/ End(r, "fetch") \/ End(r, "stopped")
      BY <1>2, Zenon
      DEF Leave, FetchFails, Enqueue, EnqueueFails, DeadLetter, DeadLetterFails,
          Commit, CommitFails, Restart
    <3> QED
      BY <3>1, <3>2, GoesTo
  <2> QED
    BY <2>1, <2>2, <2>3, ClaimKept
<1>3. ASSUME NEW r \in Replicas, Claim(r)
      PROVE  ClaimInv'
  <2>1. \A s \in Replicas \ {r} : pc'[s] = pc[s] /\ position'[s] = position[s]
    BY <1>3, OthersStay DEF Proceed
  <2>2. /\ pc[r] = "claim" /\ Busy(r) /\ claims' = claims \cup {Event(r)}
        /\ UNCHANGED <<succeeded, stuck>>
    BY <1>3 DEF Claim, history, Busy
  <2>3. CASE Event(r) \in claims
    <3>1. pc'[r] = "fetch" /\ claims' = claims
      BY <1>3, <2>2, <2>3, GoesTo DEF Claim
    <3> QED
      BY <2>1, <2>2, <3>1, ClaimKept
  <2>4. CASE Event(r) \notin claims
    <3>1. pc'[r] = "handle" /\ position'[r] = position[r]
      BY <1>3, <2>4, GoesTo DEF Claim
    <3>2. Event(r)' = Event(r) /\ \A s \in Replicas : Busy(s) => Event(s)' = Event(s)
      BY <2>1, <2>2, <3>1, EventStays
    <3>3. succeeded[Event(r)] = 0
      BY <1>0, <2>2, <2>4 DEF ClaimInv, SuccessIsClaimed
    <3>4. \A s \in Replicas : pc'[s] \in {"handle", "commit"} =>
            s = r \/ (pc[s] = pc'[s] /\ Event(s)' = Event(s))
      BY <2>1, <3>2 DEF Busy
    <3>5. SuccessIsClaimed' /\ HandledIsClaimed' /\ CommittedSucceeded'
      BY <2>2, <3>1, <3>2, <3>3, <3>4
      DEF ClaimInv, SuccessIsClaimed, HandledIsClaimed, CommittedSucceeded
    <3>6. HandledByOne'
      BY <2>4, <3>2, <3>4 DEF ClaimInv, HandledByOne, HandledIsClaimed
    <3>7. StuckStaysClaimed'
      BY <2>2, <2>4, <3>2, <3>4 DEF ClaimInv, StuckStaysClaimed
    <3>8. ClaimsExplained'
      <4>1. \A s \in Replicas : pc[s] = "handle" => pc'[s] = "handle" /\ Event(s)' = Event(s)
        BY <2>1, <2>2, <3>2 DEF Busy
      <4> QED
        BY <2>2, <3>1, <3>2, <4>1 DEF ClaimInv, ClaimsExplained, Handling
    <3> QED
      BY <3>5, <3>6, <3>7, <3>8 DEF ClaimInv
  <2> QED
    BY <2>3, <2>4
<1>4. ASSUME NEW r \in Replicas, NEW written \in BOOLEAN, ClaimFails(r, written)
      PROVE  ClaimInv'
  <2>1. \A s \in Replicas \ {r} : pc'[s] = pc[s] /\ position'[s] = position[s]
    BY <1>4, OthersStay DEF Fail
  <2>2. /\ pc[r] = "claim" /\ Busy(r) /\ succeeded' = succeeded
        /\ written => Event(r) \notin claims
        /\ claims' = IF written THEN claims \cup {Event(r)} ELSE claims
        /\ stuck' = IF written THEN stuck \cup {Event(r)} ELSE stuck
        /\ pc'[r] = "stopped"
    BY <1>4, GoesTo DEF ClaimFails, Busy
  <2>3. CASE ~written
    BY <2>1, <2>2, <2>3, ClaimKept
  <2>4. CASE written
    <3>1. succeeded[Event(r)] = 0
      BY <1>0, <2>2, <2>4 DEF ClaimInv, SuccessIsClaimed
    <3>2. \A s \in Replicas : pc'[s] \in {"handle", "commit"} =>
            pc[s] = pc'[s] /\ Event(s)' = Event(s)
      BY <2>1, <2>2, EventStays DEF Busy
    <3>3. SuccessIsClaimed' /\ HandledIsClaimed' /\ CommittedSucceeded'
      BY <2>2, <3>2
      DEF ClaimInv, SuccessIsClaimed, HandledIsClaimed, CommittedSucceeded
    <3>4. HandledByOne'
      BY <3>2 DEF ClaimInv, HandledByOne
    <3>5. StuckStaysClaimed'
      BY <2>2, <2>4, <3>1, <3>2 DEF ClaimInv, StuckStaysClaimed, HandledIsClaimed
    <3>6. ClaimsExplained'
      <4>1. \A s \in Replicas : pc[s] = "handle" => pc'[s] = "handle" /\ Event(s)' = Event(s)
        BY <2>1, <2>2, <3>2
      <4> QED
        BY <2>2, <4>1 DEF ClaimInv, ClaimsExplained, Handling
    <3> QED
      BY <3>3, <3>4, <3>5, <3>6 DEF ClaimInv
  <2> QED
    BY <2>3, <2>4
(* A handling that leaves its claim behind. *)
<1>a. ASSUME NEW r \in Replicas, pc[r] = "handle",
             pc'[r] \in {"retry", "deadletter", "stopped"},
             \A s \in Replicas \ {r} : pc'[s] = pc[s] /\ position'[s] = position[s],
             stuck' = stuck \cup {Event(r)}, UNCHANGED <<claims, succeeded>>
      PROVE  ClaimInv'
  BY <1>a, ClaimKept
<1>5. ASSUME NEW r \in Replicas, UnwrapFails(r)
      PROVE  ClaimInv'
  BY <1>5, <1>a, OthersStay, GoesTo DEF UnwrapFails, Proceed
<1>6. ASSUME NEW r \in Replicas, Crash(r)
      PROVE  ClaimInv'
  <2>1. \A s \in Replicas \ {r} : pc'[s] = pc[s] /\ position'[s] = position[s]
    BY <1>6, OthersStay DEF Fail
  <2>2. /\ pc'[r] = "stopped" /\ UNCHANGED <<claims, succeeded>>
        /\ stuck' = IF pc[r] = "handle" THEN stuck \cup {Event(r)} ELSE stuck
    BY <1>6, GoesTo DEF Crash
  <2>3. CASE pc[r] = "handle"
    BY <1>a, <2>1, <2>2, <2>3
  <2>4. CASE pc[r] # "handle"
    BY <2>1, <2>2, <2>4, ClaimKept
  <2> QED
    BY <2>3, <2>4
<1>7. ASSUME NEW r \in Replicas, HandlerSucceeds(r)
      PROVE  ClaimInv'
  <2>1. \A s \in Replicas \ {r} : pc'[s] = pc[s] /\ position'[s] = position[s]
    BY <1>7, OthersStay DEF Proceed
  <2>2. /\ pc[r] = "handle" /\ pc'[r] = "commit" /\ position'[r] = position[r]
        /\ succeeded' = [succeeded EXCEPT ![Event(r)] = @ + 1]
        /\ UNCHANGED <<claims, stuck>>
    BY <1>7, GoesTo DEF HandlerSucceeds
  <2>3. Event(r) \in claims /\ succeeded[Event(r)] = 0 /\ Event(r) \in Events
    BY <1>0, <2>2 DEF ClaimInv, HandledIsClaimed, Busy
  <2>4. /\ succeeded'[Event(r)] = 1
        /\ \A e \in Events \ {Event(r)} : succeeded'[e] = succeeded[e]
    BY <1>0, <2>2, <2>3
  <2>5. \A s \in Replicas : Busy(s) => Event(s)' = Event(s) /\ Event(s) \in Events
    BY <1>0, <2>1, <2>2, EventStays
  <2>6. \A s \in Replicas : pc'[s] \in {"handle", "commit"} =>
          s = r \/ (pc[s] = pc'[s] /\ Event(s)' = Event(s) /\ Event(s) \in Events)
    BY <2>1, <2>5 DEF Busy
  <2>7. SuccessIsClaimed'
    BY <2>2, <2>3, <2>4 DEF ClaimInv, SuccessIsClaimed
  <2>8. HandledIsClaimed'
    BY <2>2, <2>4, <2>6 DEF ClaimInv, HandledIsClaimed, HandledByOne
  <2>9. HandledByOne'
    BY <2>2, <2>6 DEF ClaimInv, HandledByOne
  <2>10. CommittedSucceeded'
    <3>1. Event(r)' = Event(r)
      BY <2>2, <2>5 DEF Busy
    <3> QED
      BY <2>4, <2>6, <3>1 DEF ClaimInv, CommittedSucceeded
  <2>11. StuckStaysClaimed'
    BY <1>0, <2>2, <2>4, <2>6 DEF ClaimInv, StuckStaysClaimed
  <2>12. ClaimsExplained'
    <3>1. \A s \in Replicas \ {r} : pc[s] = "handle" => Event(s)' = Event(s)
      BY <2>5 DEF Busy
    <3> QED
      BY <1>0, <2>1, <2>2, <2>4, <3>1 DEF ClaimInv, ClaimsExplained, Handling
  <2> QED
    BY <2>7, <2>8, <2>9, <2>10, <2>11, <2>12 DEF ClaimInv
<1>8. ASSUME NEW r \in Replicas, NEW permanent \in BOOLEAN, NEW released \in BOOLEAN,
             HandlerFails(r, permanent, released)
      PROVE  ClaimInv'
  <2>1. \A s \in Replicas \ {r} : pc'[s] = pc[s] /\ position'[s] = position[s]
    BY <1>8, OthersStay DEF Fail
  <2>2. /\ pc[r] = "handle" /\ pc'[r] \in {"retry", "deadletter"}
        /\ claims' = IF released THEN claims \ {Event(r)} ELSE claims
        /\ stuck' = IF released THEN stuck ELSE stuck \cup {Event(r)}
        /\ UNCHANGED succeeded
    BY <1>8, GoesTo DEF HandlerFails
  <2>3. CASE ~released
    BY <1>a, <2>1, <2>2, <2>3
  <2>4. CASE released
    <3>1. succeeded[Event(r)] = 0 /\ Event(r) \notin stuck
      BY <2>2 DEF ClaimInv, HandledIsClaimed, StuckStaysClaimed
    <3>2. \A s \in Replicas : pc'[s] \in {"handle", "commit"} =>
            s # r /\ pc[s] = pc'[s] /\ Event(s)' = Event(s)
      BY <2>1, <2>2, EventStays DEF Busy
    <3>3. SuccessIsClaimed'
      BY <2>2, <2>4, <3>1 DEF ClaimInv, SuccessIsClaimed
    <3>4. HandledIsClaimed'
      BY <2>2, <2>4, <3>2 DEF ClaimInv, HandledIsClaimed, HandledByOne
    <3>5. HandledByOne' /\ CommittedSucceeded'
      BY <2>2, <3>2 DEF ClaimInv, HandledByOne, CommittedSucceeded
    <3>6. StuckStaysClaimed'
      BY <2>2, <2>4, <3>1, <3>2 DEF ClaimInv, StuckStaysClaimed
    <3>7. ClaimsExplained'
      <4>1. \A s \in Replicas \ {r} :
              pc[s] = "handle" => pc'[s] = "handle" /\ Event(s)' = Event(s)
        BY <2>1, <3>2
      <4> QED
        BY <2>2, <2>4, <4>1 DEF ClaimInv, ClaimsExplained, Handling
    <3> QED
      BY <3>3, <3>4, <3>5, <3>6, <3>7 DEF ClaimInv
  <2> QED
    BY <2>3, <2>4
<1> QED
  BY <1>1, <1>2, <1>3, <1>4, <1>5, <1>6, <1>7, <1>8, EveryStep, Zenon
  DEF Proceed, Fail

LEMMA ClaimInvCorrect == Spec => []ClaimInv
<1>1. Init => ClaimInv
  BY DEF Init, ClaimInv, SuccessIsClaimed, HandledIsClaimed, HandledByOne,
         CommittedSucceeded, StuckStaysClaimed, ClaimsExplained
<1> QED
  BY <1>1, ClaimInvStep, TypeCorrect, PTL DEF Spec

(* A claim without a success is being handled or was left behind by one of *)
(* the ways the code leaves it behind.                                     *)
THEOREM ClaimsAreExplained == Spec => []ClaimsExplained
<1>1. ClaimInv => ClaimsExplained
  BY DEF ClaimInv
<1> QED
  BY <1>1, ClaimInvCorrect, PTL

-----------------------------------------------------------------------------
(***************************************************************************)
(* Commits.  What a replica has read is covered, except the message it is  *)
(* about to claim: from the place where its reader is, which a rebalance   *)
(* may have moved back, as well as from the message in its hand, whose     *)
(* offset it will commit.  What is committed is covered in any case.       *)
(***************************************************************************)

Covered(e, offset) ==
  \/ Accounted(e, offset)
  \/ \E r \in Replicas : InHand(r, e)
  \/ e \in dropped

CommittedCovered == \A i \in 1..committed : Covered(log[i].event, committed)

Reading(r) == pc[r] \notin {"out", "stopped"}

ToClaim(r, i) == pc[r] = "claim" /\ log[i].event = Event(r)

ReadCovered ==
  \A r \in Replicas : Reading(r) =>
    \A i \in 1..cursor[r] : Covered(log[i].event, cursor[r]) \/ ToClaim(r, i)

HeldCovered ==
  \A r \in Replicas : Busy(r) =>
    \A i \in 1..position[r] : Covered(log[i].event, position[r]) \/ ToClaim(r, i)

LossInv == CommittedCovered /\ ReadCovered /\ HeldCovered

(* What accounts for an event goes on doing so: successes, dead letters    *)
(* and stuck claims stay, the log only grows, and a message that leaves    *)
(* the retry queue goes to the end of the log.                             *)
LEMMA AccountedStays ==
  ASSUME TypeOK, ClaimInv, [Next]_vars,
         NEW e \in Events, NEW offset \in 0..Len(log), Accounted(e, offset)
  PROVE  Accounted(e, offset)'
<1> USE DEF topics, group, history
<1>1. ASSUME succeeded' = succeeded, dlq \subseteq dlq', stuck \subseteq stuck',
             log' = log, retryq' = retryq
      PROVE  Accounted(e, offset)'
  BY <1>1 DEF Accounted
<1>2. ASSUME NEW f \in Events, Publish(f)
      PROVE  Accounted(e, offset)'
  <2>1. [event |-> f, attempt |-> 1] \in Message
    BY BoundsAssumption DEF Message
  <2>2. Len(log') = Len(log) + 1 /\ \A i \in 1..Len(log) : log'[i] = log[i]
    BY <1>2, <2>1, LogGrows, QueuesTyped DEF Publish
  <2> QED
    BY <1>2, <2>2, QueuesTyped DEF Publish, Accounted
<1>3. CASE Requeue
  <2>0. log \in Seq(Message) /\ retryq \in Seq(Message) /\ retryq # <<>>
        /\ log' = Append(log, Head(retryq)) /\ retryq' = Tail(retryq)
    BY <1>3, QueuesTyped, Zenon DEF Requeue
  <2>1. Head(retryq) \in Message
    BY <2>0
  <2>2. /\ Len(log') = Len(log) + 1
        /\ log'[Len(log) + 1] = Head(retryq)
        /\ \A i \in 1..Len(log) : log'[i] = log[i]
    BY <2>0, <2>1, LogGrows
  <2>3. ASSUME NEW j \in 1..Len(retryq), retryq[j].event = e
        PROVE  Accounted(e, offset)'
    <3>1. CASE j = 1
      <4>1. log'[Len(log) + 1].event = e
        BY <2>0, <2>2, <2>3, <3>1
      <4>2. Len(log) + 1 \in offset + 1 .. Len(log')
        BY <2>0, <2>2
      <4> QED
        BY <4>1, <4>2 DEF Accounted
    <3>2. CASE j # 1
      <4>1. j - 1 \in 1..Len(retryq') /\ retryq'[j - 1] = retryq[j]
        BY <2>0, <3>2
      <4> QED
        BY <2>3, <4>1 DEF Accounted
    <3> QED
      BY <3>1, <3>2
  <2>4. ASSUME NEW j \in offset + 1 .. Len(log), log[j].event = e
        PROVE  Accounted(e, offset)'
    <3>1. j \in offset + 1 .. Len(log') /\ log'[j].event = e
      BY <2>0, <2>2, <2>4
    <3> QED
      BY <3>1 DEF Accounted
  <2> QED
    BY <1>3, <2>3, <2>4 DEF Requeue, Accounted
<1>4. ASSUME NEW r \in Replicas, HandlerSucceeds(r)
      PROVE  Accounted(e, offset)'
  <2>1. Event(r) \in Events /\ succeeded[Event(r)] = 0
    BY <1>4, CurrentIsMessage
    DEF HandlerSucceeds, Busy, ClaimInv, HandledIsClaimed
  <2>2. succeeded[e] = 1 => succeeded'[e] = 1
    BY <1>4, <2>1 DEF HandlerSucceeds, TypeOK
  <2> QED
    BY <1>4, <2>2 DEF HandlerSucceeds, Accounted
<1>5. ASSUME NEW r \in Replicas, Enqueue(r)
      PROVE  Accounted(e, offset)'
  <2> DEFINE m == [Current(r) EXCEPT !.attempt = @ + 1]
  <2>1. /\ retryq' = Append(retryq, m)
        /\ UNCHANGED <<succeeded, dlq, stuck, log>>
    BY <1>5, Zenon DEF Enqueue
  <2> HIDE DEF m
  <2>2. Len(retryq') = Len(retryq) + 1 /\ \A j \in 1..Len(retryq) : retryq'[j] = retryq[j]
    BY <2>1, QueuesTyped
  <2> QED
    BY <2>1, <2>2, QueuesTyped DEF Accounted
<1>6. ASSUME NEW r \in Replicas, Proceed(r) \/ Fail(r) \/ Restart(r),
             ~HandlerSucceeds(r), ~Enqueue(r)
      PROVE  /\ succeeded' = succeeded /\ dlq \subseteq dlq' /\ stuck \subseteq stuck'
             /\ log' = log /\ retryq' = retryq
  BY <1>6
  DEF Proceed, Fail, Fetch, Leave, FetchFails, Claim, ClaimFails, UnwrapFails,
      HandlerFails, EnqueueFails, DeadLetter, DeadLetterFails, Commit,
      CommitFails, Crash, Restart
<1>7. Outside => \/ \E f \in Events : Publish(f)
                 \/ Requeue
                 \/ UNCHANGED <<topics, succeeded, stuck>>
  BY Zenon
  DEF Outside, RetryQueueStops, Rebalance, Takeover, Assign, vars
<1> QED
  BY <1>1, <1>2, <1>3, <1>4, <1>5, <1>6, <1>7, EveryStep

(* The event of a replica that gives it up without sending it on is        *)
(* dropped, unless it is still to be read from where others will read on.  *)
GivesUp(r) ==
  /\ pc[r] \in {"retry", "deadletter"} /\ pc'[r] = "stopped"
  /\ ~Overtaken(r)

LEMMA HandEnds ==
  ASSUME TypeOK, ClaimInv, [Next]_vars, NEW r \in Replicas, NEW e \in Events,
         InHand(r, e), NEW offset \in 0..Len(log), GivesUp(r) => offset < position[r]
  PROVE  Covered(e, offset)'
<1>1. /\ Busy(r) /\ Event(r) = e /\ pc[r] \in {"handle", "retry", "deadletter"}
      /\ position[r] \in 1..Len(log) /\ Current(r) \in Message
      /\ Current(r).event = e /\ log[position[r]].event = e
  BY CurrentIsMessage, Zenon DEF InHand, Busy
<1>2. CASE pc'[r] = pc[r] /\ position'[r] = position[r]
  BY <1>1, <1>2, EventStays DEF Covered, InHand
<1>3. CASE UnwrapFails(r)
  <2>1. pc'[r] = "deadletter" /\ position'[r] = position[r]
    BY <1>3, GoesTo DEF UnwrapFails
  <2> QED
    BY <1>1, <2>1, EventStays DEF Covered, InHand
<1>4. CASE \E permanent, released \in BOOLEAN : HandlerFails(r, permanent, released)
  <2>1. pc'[r] \in {"retry", "deadletter"} /\ position'[r] = position[r]
    BY <1>4, GoesTo DEF HandlerFails
  <2> QED
    BY <1>1, <2>1, EventStays DEF Covered, InHand
<1>5. CASE HandlerSucceeds(r)
  <2>1. succeeded[e] = 0
    BY <1>1, <1>5 DEF HandlerSucceeds, ClaimInv, HandledIsClaimed
  <2>2. succeeded'[e] = 1
    BY <1>1, <1>5, <2>1 DEF HandlerSucceeds, TypeOK
  <2> QED
    BY <2>2 DEF Covered, Accounted
<1>6. CASE Enqueue(r)
  <2>1. retryq' = Append(retryq, [Current(r) EXCEPT !.attempt = Current(r).attempt + 1])
    BY <1>6 DEF Enqueue
  <2> DEFINE m == [Current(r) EXCEPT !.attempt = Current(r).attempt + 1]
  <2>2. m.event = e
    BY <1>1 DEF Message
  <2> HIDE DEF m
  <2>3. Len(retryq') = Len(retryq) + 1 /\ retryq'[Len(retryq) + 1] = m
        /\ Len(retryq) \in Nat
    BY <2>1 DEF TypeOK, m
  <2>4. \E j \in 1..Len(retryq') : retryq'[j].event = e
    BY <2>2, <2>3
  <2> QED
    BY <2>4 DEF Covered, Accounted
<1>7. CASE DeadLetter(r)
  BY <1>1, <1>7 DEF DeadLetter, Covered, Accounted
<1>8. CASE EnqueueFails(r) \/ DeadLetterFails(r) \/ (Crash(r) /\ pc[r] # "handle")
  <2>1. Drop(r) /\ pc'[r] = "stopped" /\ log' = log /\ pc[r] \in {"retry", "deadletter"}
    BY <1>1, <1>8, GoesTo DEF EnqueueFails, DeadLetterFails, Crash, topics
  <2>2. CASE Overtaken(r)
    BY <1>1, <2>1, <2>2 DEF Drop, Covered
  <2>3. CASE ~Overtaken(r)
    <3>1. position[r] \in offset + 1 .. Len(log') /\ log'[position[r]].event = e
      BY <1>1, <2>1, <2>3 DEF GivesUp, TypeOK
    <3> QED
      BY <3>1 DEF Covered, Accounted
  <2> QED
    BY <2>2, <2>3
<1>9. CASE Crash(r) /\ pc[r] = "handle"
  BY <1>1, <1>9 DEF Crash, Covered, Accounted
<1>10. CASE Outside
  BY <1>1, <1>2, <1>10, OutsideStays
<1>11. ASSUME NEW s \in Replicas \ {r}, Proceed(s) \/ Fail(s) \/ Restart(s)
       PROVE  Covered(e, offset)'
  BY <1>2, <1>11, OthersStay
<1>12. ASSUME Proceed(r) \/ Fail(r) \/ Restart(r)
       PROVE  Covered(e, offset)'
  BY <1>1, <1>3, <1>4, <1>5, <1>6, <1>7, <1>8, <1>9, <1>12, Zenon
  DEF Proceed, Fail, Fetch, Leave, FetchFails, Claim, ClaimFails, Commit,
      CommitFails, Restart
<1> QED
  BY <1>10, <1>11, <1>12, EveryStep

LEMMA CoveredStays ==
  ASSUME TypeOK, ClaimInv, [Next]_vars, NEW i \in 1..Len(log),
         NEW offset \in 0..Len(log), Covered(log[i].event, offset),
         \A r \in Replicas : GivesUp(r) => offset < position[r]
  PROVE  Covered(log[i].event, offset)'
<1>1. PICK e \in Events : e = log[i].event
  <2>1. log[i] \in Message
    BY DEF TypeOK
  <2> QED
    BY <2>1 DEF Message
<1>2. Covered(e, offset)
  BY <1>1
<1>3. ASSUME Accounted(e, offset)
      PROVE  Covered(e, offset)'
  <2>1. Accounted(e, offset)'
    BY <1>3, AccountedStays
  <2> QED
    BY <2>1, Zenon DEF Covered
<1>4. ASSUME NEW r \in Replicas, InHand(r, e)
      PROVE  Covered(e, offset)'
  BY <1>4, HandEnds
<1>5. dropped \subseteq dropped'
  BY Zenon
  DEF Next, Proceed, Fail, vars, history, Publish, Requeue, RetryQueueStops,
      Rebalance, Takeover, Assign, Fetch, Leave, FetchFails, Claim, ClaimFails,
      UnwrapFails, HandlerSucceeds, HandlerFails, Enqueue, EnqueueFails,
      DeadLetter, DeadLetterFails, Commit, CommitFails, Crash, Restart, Drop
<1>6. Covered(e, offset)'
  <2>1. CASE e \in dropped
    BY <1>5, <2>1 DEF Covered
  <2> QED
    BY <1>2, <1>3, <1>4, <2>1, Zenon DEF Covered
<1>7. log'[i] = log[i]
  BY MessagesStay
<1> QED
  BY <1>1, <1>6, <1>7 DEF Covered, Accounted, InHand

(* A message to be claimed is covered by the claim, if not before. *)
LEMMA ClaimCovers ==
  ASSUME TypeOK, ClaimInv, [Next]_vars, NEW r \in Replicas, NEW i \in 1..Len(log),
         ToClaim(r, i), pc'[r] \notin {"out", "stopped"}, NEW offset \in 0..Len(log)
  PROVE  Covered(log[i].event, offset)' \/ ToClaim(r, i)'
<1>1. /\ pc[r] = "claim" /\ Busy(r) /\ log[i].event = Event(r) /\ Event(r) \in Events
      /\ log'[i] = log[i]
  BY CurrentIsMessage, MessagesStay DEF ToClaim, Busy
<1>2. CASE pc'[r] = pc[r] /\ position'[r] = position[r]
  BY <1>1, <1>2, EventStays DEF ToClaim
<1>3. CASE Claim(r)
  <2>1. CASE Event(r) \in claims
    <3>1. \/ succeeded[Event(r)] = 1
          \/ Event(r) \in stuck
          \/ \E s \in Replicas : pc[s] = "handle" /\ Event(s) = Event(r)
      BY <2>1 DEF ClaimInv, ClaimsExplained, Handling
    <3>2. succeeded' = succeeded /\ stuck' = stuck
      BY <1>3 DEF Claim, history
    <3>3. ASSUME NEW s \in Replicas, pc[s] = "handle", Event(s) = Event(r)
          PROVE  pc'[s] = "handle" /\ Event(s)' = Event(r)
      <4>1. s # r /\ Busy(s)
        BY <1>1, <3>3 DEF Busy
      <4>2. pc'[s] = pc[s] /\ position'[s] = position[s]
        BY <1>3, <4>1, OthersStay DEF Proceed
      <4> QED
        BY <3>3, <4>1, <4>2, EventStays
    <3> QED
      BY <1>1, <3>1, <3>2, <3>3 DEF Covered, Accounted, InHand
  <2>2. CASE Event(r) \notin claims
    <3>1. pc'[r] = "handle" /\ position'[r] = position[r]
      BY <1>3, <2>2, GoesTo DEF Claim
    <3>2. Event(r)' = Event(r)
      BY <1>1, <3>1, EventStays
    <3> QED
      BY <1>1, <3>1, <3>2 DEF Covered, InHand
  <2> QED
    BY <2>1, <2>2
<1>4. CASE Crash(r) \/ \E written \in BOOLEAN : ClaimFails(r, written)
  BY <1>4, GoesTo DEF Crash, ClaimFails
<1>5. CASE Outside
  BY <1>1, <1>2, <1>5, OutsideStays
<1>6. ASSUME NEW s \in Replicas \ {r}, Proceed(s) \/ Fail(s) \/ Restart(s)
      PROVE  pc'[r] = pc[r] /\ position'[r] = position[r]
  BY <1>6, OthersStay
<1>7. Proceed(r) \/ Fail(r) \/ Restart(r) =>
        Claim(r) \/ Crash(r) \/ \E written \in BOOLEAN : ClaimFails(r, written)
  BY <1>1, Zenon
  DEF Proceed, Fail, Fetch, Leave, FetchFails, UnwrapFails, HandlerSucceeds,
      HandlerFails, Enqueue, EnqueueFails, DeadLetter, DeadLetterFails, Commit,
      CommitFails, Restart
<1> QED
  BY <1>2, <1>3, <1>4, <1>5, <1>6, <1>7, EveryStep, Zenon

(* What was read up to an offset stays covered there, for a replica that   *)
(* goes on. *)
LEMMA ReadStays ==
  ASSUME TypeOK, ClaimInv, [Next]_vars, NEW r \in Replicas, NEW offset \in 0..Len(log),
         \A i \in 1..offset : Covered(log[i].event, offset) \/ ToClaim(r, i),
         \A s \in Replicas : GivesUp(s) => offset < position[s],
         pc'[r] \notin {"out", "stopped"}
  PROVE  \A i \in 1..offset : Covered(log[i].event, offset)' \/ ToClaim(r, i)'
<1> SUFFICES ASSUME NEW i \in 1..offset
             PROVE  Covered(log[i].event, offset)' \/ ToClaim(r, i)'
  OBVIOUS
<1>1. i \in 1..Len(log)
  BY DEF TypeOK
<1> QED
  BY <1>1, CoveredStays, ClaimCovers

(* Whoever gives up an event without a trace is ahead of all the others,   *)
(* and of the committed offset. *)
LEMMA GivesUpAhead ==
  ASSUME TypeOK, NEW r \in Replicas, GivesUp(r)
  PROVE  /\ committed < position[r]
         /\ \A s \in Replicas \ {r} : position[s] < position[r]
         /\ \A s \in Replicas \ {r} : Reading(s) => cursor[s] < position[r]
BY DEF GivesUp, Overtaken, Reading, TypeOK

LEMMA LossInvStep == TypeOK /\ ClaimInv /\ LossInv /\ [Next]_vars /\ TypeOK' => LossInv'
<1> SUFFICES ASSUME TypeOK, ClaimInv, LossInv, [Next]_vars, TypeOK'
             PROVE  LossInv'
  OBVIOUS
<1>0. /\ committed \in 0..Len(log)
      /\ \A r \in Replicas : cursor[r] \in 0..Len(log) /\ position[r] \in 0..Len(log)
  BY DEF TypeOK
<1>a. ASSUME NEW r \in Replicas
      PROVE  GivesUp(r) => committed < position[r]
  BY GivesUpAhead
<1>b. ASSUME NEW r \in Replicas, NEW s \in Replicas, Reading(s)', GivesUp(r)
      PROVE  position[s] < position[r] /\ (Reading(s) => cursor[s] < position[r])
  <2>1. s # r
    BY <1>b DEF GivesUp, Reading
  <2> QED
    BY <1>b, <2>1, GivesUpAhead
(* What was committed, and what a replica that goes on has read and holds, *)
(* stays covered at the old offsets.                                       *)
<1>1. ASSUME NEW o \in 0..Len(log), o = committed
      PROVE  \A i \in 1..o : Covered(log[i].event, o)'
  <2> SUFFICES ASSUME NEW i \in 1..o
               PROVE  Covered(log[i].event, o)'
    OBVIOUS
  <2>1. i \in 1..Len(log)
    BY DEF TypeOK
  <2>2. Covered(log[i].event, o)
    BY <1>1, Zenon DEF LossInv, CommittedCovered
  <2> QED
    BY <1>1, <1>a, <2>1, <2>2, CoveredStays
<1>2. ASSUME NEW r \in Replicas, NEW o \in 0..Len(log), o = cursor[r],
             Reading(r), Reading(r)'
      PROVE  \A i \in 1..o : Covered(log[i].event, o)' \/ ToClaim(r, i)'
  <2>1. \A i \in 1..o : Covered(log[i].event, o) \/ ToClaim(r, i)
    BY <1>2 DEF LossInv, ReadCovered
  <2>2. \A s \in Replicas : GivesUp(s) => o < position[s]
    BY <1>2, <1>b
  <2> QED
    BY <1>2, <2>1, <2>2, ReadStays DEF Reading
<1>3. ASSUME NEW r \in Replicas, NEW o \in 0..Len(log), o = position[r],
             Busy(r), Reading(r)'
      PROVE  \A i \in 1..o : Covered(log[i].event, o)' \/ ToClaim(r, i)'
  <2>1. \A i \in 1..o : Covered(log[i].event, o) \/ ToClaim(r, i)
    BY <1>3 DEF LossInv, HeldCovered
  <2>2. \A s \in Replicas : GivesUp(s) => o < position[s]
    BY <1>3, <1>b
  <2> QED
    BY <1>3, <2>1, <2>2, ReadStays DEF Reading
(* The reader goes on to the next message. *)
<1>4. ASSUME NEW r \in Replicas, NEW n \in 1..Len(log), Fetch(r), n = cursor[r] + 1
      PROVE  \A i \in 1..n : Covered(log[i].event, n)' \/ ToClaim(r, i)'
  <2>1. /\ pc[r] = "fetch" /\ pc'[r] = "claim" /\ position'[r] = n /\ log' = log
        /\ cursor[r] \in 0..Len(log)
    BY <1>0, <1>4 DEF Fetch, TypeOK, topics
  <2>2. PICK o \in 0..Len(log) : o = cursor[r]
    BY <2>1
  <2>3. \A i \in 1..o : Covered(log[i].event, o)' \/ ToClaim(r, i)'
    BY <1>2, <2>1, <2>2 DEF Reading
  <2>4. Event(r)' = log[n].event
    BY <2>1, Zenon DEF Event, Current
  <2>5. ToClaim(r, n)'
    BY <2>1, <2>4, Zenon DEF ToClaim
  <2>6. ASSUME NEW i \in 1..o, Covered(log[i].event, o)'
        PROVE  Covered(log[i].event, n)' \/ ToClaim(r, i)'
    <3>1. CASE \E j \in o + 1 .. Len(log') : log'[j].event = log'[i].event
      <4>1. PICK j \in o + 1 .. Len(log') : log'[j].event = log'[i].event
        BY <3>1
      <4>2. CASE j = n
        BY <2>1, <2>4, <4>1, <4>2 DEF ToClaim
      <4>3. CASE j # n
        <5>1. j \in n + 1 .. Len(log')
          BY <1>4, <2>1, <2>2, <4>3
        <5> QED
          BY <4>1, <5>1 DEF Covered, Accounted
      <4> QED
        BY <4>2, <4>3
    <3> QED
      BY <2>6, <3>1, Zenon DEF Covered, Accounted
  <2>7. ASSUME NEW i \in 1..n
        PROVE  Covered(log[i].event, n)' \/ ToClaim(r, i)'
    <3>1. i \in 1..o \/ i = n
      BY <1>4, <2>1, <2>2
    <3> QED
      BY <2>3, <2>5, <2>6, <3>1
  <2> QED
    BY <2>7
(* What a step may do to offsets. *)
<1>5. ASSUME NEW r \in Replicas, ~Fetch(r)
      PROVE  /\ Reading(r)' => \/ cursor'[r] = cursor[r] /\ Reading(r)
                               \/ cursor'[r] = committed /\ committed' = committed
             /\ Busy(r)' => Busy(r) /\ position'[r] = position[r]
  <2>1. CASE Outside
    BY <2>1, OutsideStays DEF Reading, Busy
  <2>2. ASSUME NEW s \in Replicas \ {r}, Proceed(s) \/ Fail(s) \/ Restart(s)
        PROVE  /\ pc'[r] = pc[r] /\ position'[r] = position[r]
               /\ cursor'[r] = cursor[r]
    <3>1. pc'[r] = pc[r] /\ position'[r] = position[r]
      BY <2>2, OthersStay
    <3>2. cursor'[r] = cursor[r]
      <4>1. cursor' = cursor \/ cursor' = [cursor EXCEPT ![s] = cursor[s] + 1]
        BY <2>2
        DEF Proceed, Fail, group, Fetch, Leave, FetchFails, Claim, ClaimFails,
            UnwrapFails, HandlerSucceeds, HandlerFails, Enqueue, EnqueueFails,
            DeadLetter, DeadLetterFails, Commit, CommitFails, Crash, Restart
      <4> QED
        BY <4>1 DEF TypeOK
    <3> QED
      BY <3>1, <3>2
  <2>3. ASSUME Proceed(r) \/ Fail(r) \/ Restart(r)
        PROVE  /\ cursor' = cursor
               /\ \/ End(r, "out") \/ End(r, "stopped")
                  \/ End(r, "fetch") /\ Busy(r)
                  \/ Busy(r) /\ \E label : Goto(r, label)
    BY <1>5, <2>3, Zenon
    DEF Proceed, Fail, Busy, group, Fetch, Leave, FetchFails, Claim, ClaimFails,
        UnwrapFails, HandlerSucceeds, HandlerFails, Enqueue, EnqueueFails,
        DeadLetter, DeadLetterFails, Commit, CommitFails, Crash, Restart
  <2>4. ASSUME Proceed(r) \/ Fail(r) \/ Restart(r)
        PROVE  /\ Reading(r)' => cursor'[r] = cursor[r] /\ Reading(r)
               /\ Busy(r)' => Busy(r) /\ position'[r] = position[r]
    BY <2>3, <2>4, GoesTo DEF Reading, Busy
  <2> QED
    BY <2>1, <2>2, <2>4, EveryStep DEF Reading, Busy
<1>6. CommittedCovered'
  <2>1. CASE committed' = committed
    <3>1. PICK o \in 0..Len(log) : o = committed
      BY <1>0
    <3>2. \A i \in 1..o : Covered(log[i].event, o)'
      BY <1>1, <3>1
    <3> QED
      BY <2>1, <3>1, <3>2 DEF CommittedCovered
  <2>2. ASSUME NEW r \in Replicas, Commit(r)
        PROVE  CommittedCovered'
    <3>1. PICK o \in 0..Len(log) : o = position[r]
      BY <1>0
    <3>2. pc[r] = "commit" /\ pc'[r] = "fetch" /\ committed' = o
      BY <2>2, <3>1, GoesTo DEF Commit
    <3>3. \A i \in 1..o : Covered(log[i].event, o)' \/ ToClaim(r, i)'
      BY <1>3, <3>1, <3>2 DEF Busy, Reading
    <3>4. \A i \in 1..o : ~ToClaim(r, i)'
      BY <3>2 DEF ToClaim
    <3> QED
      BY <3>2, <3>3, <3>4 DEF CommittedCovered
  <2>3. committed' = committed \/ \E r \in Replicas : Commit(r)
    BY Zenon
    DEF Next, Proceed, Fail, vars, group, Publish, Requeue, RetryQueueStops,
        Rebalance, Takeover, Assign, Fetch, Leave, FetchFails, Claim, ClaimFails,
        UnwrapFails, HandlerSucceeds, HandlerFails, Enqueue, EnqueueFails,
        DeadLetter, DeadLetterFails, CommitFails, Crash, Restart
  <2> QED
    BY <2>1, <2>2, <2>3
<1>7. ASSUME NEW r \in Replicas, Fetch(r)
      PROVE  \E n \in 1..Len(log) : /\ n = cursor[r] + 1
                                    /\ cursor'[r] = n /\ position'[r] = n
  <2>1. /\ cursor[r] < Len(log)
        /\ cursor' = [cursor EXCEPT ![r] = cursor[r] + 1]
        /\ position' = [position EXCEPT ![r] = cursor[r] + 1]
    BY <1>7, Zenon DEF Fetch
  <2>2. /\ cursor \in [Replicas -> 0..Len(log)]
        /\ position \in [Replicas -> 0..Len(log)]
    BY Zenon DEF TypeOK
  <2>3. cursor'[r] = cursor[r] + 1 /\ position'[r] = cursor[r] + 1
    BY <2>1, <2>2, Zenon
  <2>4. cursor[r] + 1 \in 1..Len(log)
    BY <2>1, <2>2, QueuesTyped
  <2> QED
    BY <2>3, <2>4, Zenon
<1>8. ReadCovered'
  <2> SUFFICES ASSUME NEW r \in Replicas, Reading(r)', NEW n, n = cursor'[r],
                      NEW i \in 1..n
               PROVE  Covered(log[i].event, n)' \/ ToClaim(r, i)'
    BY DEF ReadCovered
  <2>1. CASE Fetch(r)
    BY <1>4, <1>7, <2>1
  <2>2. CASE cursor'[r] = cursor[r] /\ Reading(r)
    BY <1>0, <1>2, <2>2
  <2>3. CASE cursor'[r] = committed /\ committed' = committed
    BY <1>0, <1>1, <2>3
  <2> QED
    BY <1>5, <2>1, <2>2, <2>3
<1>9. HeldCovered'
  <2> SUFFICES ASSUME NEW r \in Replicas, Busy(r)', NEW n, n = position'[r],
                      NEW i \in 1..n
               PROVE  Covered(log[i].event, n)' \/ ToClaim(r, i)'
    BY DEF HeldCovered
  <2>1. CASE Fetch(r)
    BY <1>4, <1>7, <2>1
  <2>2. CASE position'[r] = position[r] /\ Busy(r)
    BY <1>0, <1>3, <2>2 DEF Busy, Reading
  <2> QED
    BY <1>5, <2>1, <2>2
<1> QED
  BY <1>6, <1>8, <1>9 DEF LossInv

LEMMA LossInvCorrect == Spec => []LossInv
<1>1. Init => LossInv
  BY DEF Init, LossInv, CommittedCovered, ReadCovered, HeldCovered, Reading, Busy
<1> QED
  BY <1>1, LossInvStep, TypeCorrect, ClaimInvCorrect, PTL DEF Spec

(* Cumulative commits over skipped and retried messages lose no event      *)
(* silently, whoever has the partition and whoever had it before: whatever *)
(* is committed succeeded, is dead-lettered, is still to come, is one of   *)
(* the stuck claims or in a replica's hand, or was dropped by a replica    *)
(* that failed to send it on after another had gone past it.               *)
THEOREM CommitsLoseNothingSilently == Spec => []NoSilentLoss
<1>1. LossInv => NoSilentLoss
  BY DEF LossInv, CommittedCovered, Covered, NoSilentLoss
<1> QED
  BY <1>1, LossInvCorrect, PTL

(* The owner waits for a message and none is on its way: not in the log,   *)
(* the retry queue or the hand of a replica that had the partition before. *)
Idle ==
  /\ pc[owner] = "fetch" /\ cursor[owner] = Len(log)
  /\ retryq = <<>>
  /\ \A r \in Replicas : position[r] = 0

NothingLeftOver ==
  Idle => \A i \in 1..Len(log) : Outcome(log[i].event) \/ log[i].event \in dropped

(* What Settles promises is there when the group has come to rest:         *)
(* whatever was skipped, retried, redelivered or never committed on the    *)
(* way, each event of the log has succeeded, is dead-lettered, has a stuck *)
(* claim, or is one of those dropped by an overtaken replica.              *)
THEOREM IdleGroupLeavesNothing == Spec => []NothingLeftOver
<1>1. ASSUME TypeOK, ReadCovered
      PROVE  NothingLeftOver
  <2> SUFFICES ASSUME Idle, NEW i \in 1..Len(log)
               PROVE  Outcome(log[i].event) \/ log[i].event \in dropped
    BY Zenon DEF NothingLeftOver
  <2>1. owner \in Replicas /\ Reading(owner) /\ pc[owner] = "fetch"
    BY <1>1 DEF Idle, Reading, TypeOK
  <2>2. Covered(log[i].event, Len(log))
    BY <1>1, <2>1, Zenon DEF ReadCovered, ToClaim, Idle
  <2>3. \A r \in Replicas : ~InHand(r, log[i].event)
    BY <1>1 DEF Idle, InHand, TypeOK
  <2>4. 1..Len(retryq) = {} /\ Len(log) + 1 .. Len(log) = {}
    BY <1>1 DEF Idle, TypeOK
  <2> QED
    BY <2>2, <2>3, <2>4, Zenon DEF Covered, Accounted, Outcome
<1>2. LossInv => ReadCovered
  BY DEF LossInv
<1> QED
  BY <1>1, <1>2, TypeCorrect, LossInvCorrect, PTL

-----------------------------------------------------------------------------
(***************************************************************************)
(* Refinement of EventLedger.  The message in hand is in the log, so its   *)
(* event is owed; a stuck claim keeps its event from being handled.        *)
(***************************************************************************)

(* A message more is one event more that is owed. *)
LEMMA OwedGrows ==
  ASSUME TypeOK, NEW m \in Message, log' = Append(log, m)
  PROVE  Owed' = Owed \cup {m.event}
<1>1. /\ log \in Seq(Message)
      /\ Len(log') = Len(log) + 1 /\ log'[Len(log) + 1] = m
      /\ \A i \in 1..Len(log) : log'[i] = log[i]
  BY LogGrows DEF TypeOK
<1>2. ASSUME NEW i \in 1..Len(log')
      PROVE  log'[i].event \in Owed \cup {m.event}
  <2>1. i \in 1..Len(log) \/ i = Len(log) + 1
    BY <1>1
  <2> QED
    BY <1>1, <2>1 DEF Owed
<1>3. m.event \in Owed'
  <2>1. Len(log) + 1 \in 1..Len(log')
    BY <1>1
  <2> QED
    BY <1>1, <2>1 DEF Owed
<1>4. ASSUME NEW i \in 1..Len(log)
      PROVE  log[i].event \in Owed'
  <2>1. i \in 1..Len(log')
    BY <1>1
  <2> QED
    BY <1>1, <2>1 DEF Owed
<1> QED
  BY <1>2, <1>3, <1>4 DEF Owed

LEMMA LedgerStep ==
  TypeOK /\ ClaimInv /\ [Next]_vars => [Ledger!Next]_(Ledger!vars)
<1> SUFFICES ASSUME TypeOK, ClaimInv, [Next]_vars
             PROVE  [Ledger!Next]_(Ledger!vars)
  OBVIOUS
<1> USE DEF topics, history
<1>0. \A r \in Replicas :
        /\ Busy(r) => Event(r) \in Events /\ Event(r) \in Owed
        /\ pc[r] = "handle" =>
             Busy(r) /\ succeeded[Event(r)] = 0 /\ Event(r) \notin stuck
  <2> TAKE r \in Replicas
  <2>1. Busy(r) => Event(r) \in Events /\ Event(r) \in Owed
    BY CurrentIsMessage DEF Owed
  <2> QED
    BY <2>1 DEF Busy, ClaimInv, HandledIsClaimed, StuckStaysClaimed
<1>1. ASSUME NEW m \in Message, log' = Append(log, m),
             UNCHANGED <<dlq, succeeded, stuck>>
      PROVE  Ledger!Next
  <2>1. m.event \in Events
    BY DEF Message
  <2>2. Ledger!Arrive(m.event)
    BY <1>1, OwedGrows DEF Ledger!Arrive
  <2> QED
    BY <2>1, <2>2 DEF Ledger!Next
<1>2. ASSUME NEW e \in Events, Publish(e)
      PROVE  Ledger!Next
  <2>1. [event |-> e, attempt |-> 1] \in Message
    BY BoundsAssumption DEF Message
  <2> QED
    BY <1>1, <1>2, <2>1 DEF Publish
<1>3. ASSUME Requeue
      PROVE  Ledger!Next
  <2>1. Head(retryq) \in Message
    BY <1>3 DEF Requeue, TypeOK
  <2> QED
    BY <1>1, <1>3, <2>1 DEF Requeue
<1>4. ASSUME NEW r \in Replicas, HandlerSucceeds(r)
      PROVE  Ledger!Next
  <2>1. /\ log' = log /\ dlq' = dlq /\ stuck' = stuck
        /\ succeeded' = [succeeded EXCEPT ![Event(r)] = @ + 1]
        /\ pc[r] = "handle"
    BY <1>4 DEF HandlerSucceeds
  <2>2. succeeded[Event(r)] + 1 = 1
    BY <1>0, <2>1
  <2>3. Owed' = Owed /\ succeeded' = [succeeded EXCEPT ![Event(r)] = 1]
    BY <2>1, <2>2 DEF Owed
  <2>4. Ledger!Succeed(Event(r))
    BY <1>0, <2>1, <2>3 DEF Ledger!Succeed
  <2> QED
    BY <1>0, <2>1, <2>4 DEF Ledger!Next
<1>5. ASSUME NEW spending \in SUBSET Owed, NEW burying \in SUBSET Owed,
             \A e \in spending : succeeded[e] = 0,
             stuck' = stuck \cup spending, dlq' = dlq \cup burying,
             UNCHANGED <<log, succeeded>>
      PROVE  Ledger!Next
  <2>1. Owed' = Owed
    BY <1>5 DEF Owed
  <2>2. Ledger!Abandon(spending, burying)
    BY <1>5, <2>1 DEF Ledger!Abandon
  <2> QED
    BY <2>2 DEF Ledger!Next
<1>6. ASSUME NEW r \in Replicas, pc[r] = "handle", stuck' = stuck \cup {Event(r)},
             UNCHANGED <<log, dlq, succeeded>>
      PROVE  Ledger!Next
  <2>1. /\ dlq' = dlq \cup {}
        /\ {Event(r)} \in SUBSET Owed /\ {} \in SUBSET Owed
        /\ \A e \in {Event(r)} : succeeded[e] = 0
    BY <1>0, <1>6
  <2> QED
    BY <1>5, <1>6, <2>1
<1>7. ASSUME NEW r \in Replicas, DeadLetter(r)
      PROVE  Ledger!Next
  <2>1. /\ stuck' = stuck \cup {} /\ dlq' = dlq \cup {Event(r)}
        /\ UNCHANGED <<log, succeeded>>
        /\ {Event(r)} \in SUBSET Owed /\ {} \in SUBSET Owed
        /\ \A e \in {} : succeeded[e] = 0
    BY <1>0, <1>7 DEF DeadLetter, Busy
  <2> QED
    BY <1>5, <2>1
<1>8. ASSUME NEW r \in Replicas, NEW written \in BOOLEAN, ClaimFails(r, written)
      PROVE  Ledger!Next
  <2> DEFINE spending == IF written THEN {Event(r)} ELSE {}
  <2>1. /\ pc[r] = "claim" /\ (written => Event(r) \notin claims)
        /\ stuck' = IF written THEN stuck \cup {Event(r)} ELSE stuck
        /\ UNCHANGED <<log, dlq, succeeded>>
    BY <1>8 DEF ClaimFails
  <2>2. Event(r) \in Owed /\ (written => succeeded[Event(r)] = 0)
    BY <1>0, <2>1 DEF Busy, ClaimInv, SuccessIsClaimed, TypeOK
  <2>3. /\ stuck' = stuck \cup spending /\ dlq' = dlq \cup {}
        /\ spending \in SUBSET Owed /\ {} \in SUBSET Owed
        /\ \A e \in spending : succeeded[e] = 0
    BY <2>1, <2>2
  <2> HIDE DEF spending
  <2> QED
    BY <1>5, <2>1, <2>3
<1>9. ASSUME UNCHANGED <<log, dlq, succeeded, stuck>>
      PROVE  UNCHANGED Ledger!vars
  BY <1>9 DEF Ledger!vars, Owed
<1>10. ASSUME NEW r \in Replicas, UnwrapFails(r) \/ Crash(r)
                \/ \E permanent, released \in BOOLEAN : HandlerFails(r, permanent, released)
       PROVE  \/ UNCHANGED <<log, dlq, succeeded, stuck>>
              \/ /\ pc[r] = "handle" /\ stuck' = stuck \cup {Event(r)}
                 /\ UNCHANGED <<log, dlq, succeeded>>
  BY <1>10, Zenon DEF UnwrapFails, Crash, HandlerFails
<1>11. ASSUME NEW r \in Replicas,
              \/ Fetch(r) \/ Leave(r) \/ FetchFails(r) \/ Claim(r) \/ Enqueue(r)
              \/ EnqueueFails(r) \/ DeadLetterFails(r) \/ Commit(r) \/ CommitFails(r)
              \/ Restart(r)
       PROVE  UNCHANGED <<log, dlq, succeeded, stuck>>
  BY <1>11
  DEF Fetch, Leave, FetchFails, Claim, Enqueue, EnqueueFails, DeadLetterFails,
      Commit, CommitFails, Restart
<1>12. Outside => \/ \E e \in Events : Publish(e)
                  \/ Requeue
                  \/ UNCHANGED <<log, dlq, succeeded, stuck>>
  BY Zenon DEF Outside, RetryQueueStops, Rebalance, Takeover, Assign, vars
<1> QED
  BY <1>2, <1>3, <1>4, <1>6, <1>7, <1>8, <1>9, <1>10, <1>11, <1>12, EveryStep,
     Zenon DEF Proceed, Fail

(* However the messages of an event are duplicated, redelivered or         *)
(* retried, wherever a process stops and whoever has the partition, the    *)
(* loops keep the ledger of EventLedger: one effect at most, and none once *)
(* the event is spent.                                                     *)
THEOREM LedgerImplemented == Spec => ImplementsLedger
<1>1. Init => Ledger!Init
  BY DEF Init, Ledger!Init, Owed
<1> QED
  BY <1>1, LedgerStep, TypeCorrect, ClaimInvCorrect, PTL
  DEF Spec, ImplementsLedger, Ledger!Spec

-----------------------------------------------------------------------------
(***************************************************************************)
(* Dead letters.  Subscribe returns after each of them, and nothing starts *)
(* the loop again but a new process.                                       *)
(***************************************************************************)

Stopped == {r \in Replicas : pc[r] = "stopped"}

EachDeadLetterStops == Cardinality(dlq) <= restarts + Cardinality(Stopped)

FewDeadLetters == IsFiniteSet(dlq) /\ EachDeadLetterStops

LEMMA StoppedFinite ==
  ASSUME NEW S \in SUBSET Replicas
  PROVE  IsFiniteSet(S) /\ Cardinality(S) \in Nat
BY ReplicasAssumption, FS_Subset, FS_CardinalityType

LEMMA DeadLettersStep == TypeOK /\ FewDeadLetters /\ [Next]_vars => FewDeadLetters'
<1> SUFFICES ASSUME TypeOK, FewDeadLetters, [Next]_vars
             PROVE  FewDeadLetters'
  OBVIOUS
<1> USE DEF FewDeadLetters, EachDeadLetterStops
<1>1. /\ Cardinality(dlq) \in Nat /\ restarts \in Nat
      /\ IsFiniteSet(Stopped) /\ Cardinality(Stopped) \in Nat
      /\ Stopped' \in SUBSET Replicas
      /\ IsFiniteSet(Stopped') /\ Cardinality(Stopped') \in Nat
  <2>1. Cardinality(dlq) \in Nat
    BY FS_CardinalityType
  <2>2. restarts \in Nat
    BY BoundsAssumption DEF TypeOK
  <2>3. Stopped \in SUBSET Replicas /\ Stopped' \in SUBSET Replicas
    BY DEF Stopped
  <2> QED
    BY <2>1, <2>2, <2>3, StoppedFinite
<1>2. ASSUME dlq' = dlq, restarts' = restarts, Stopped \subseteq Stopped'
      PROVE  FewDeadLetters'
  <2>1. Cardinality(Stopped) <= Cardinality(Stopped')
    BY <1>1, <1>2, FS_Subset
  <2> QED
    BY <1>1, <1>2, <2>1
<1>3. ASSUME NEW r \in Replicas, DeadLetter(r)
      PROVE  FewDeadLetters'
  <2>1. pc[r] = "deadletter" /\ pc'[r] = "stopped" /\ restarts' = restarts
        /\ dlq' = dlq \cup {Event(r)}
    BY <1>3, GoesTo DEF DeadLetter, counters
  <2>2. \A s \in Replicas \ {r} : pc'[s] = pc[s]
    BY <1>3, OthersStay DEF Proceed
  <2>3. Stopped' = Stopped \cup {r} /\ r \notin Stopped
    BY <2>1, <2>2 DEF Stopped
  <2>4. Cardinality(Stopped') = Cardinality(Stopped) + 1
    BY <1>1, <2>3, FS_AddElement
  <2>5. /\ IsFiniteSet(dlq')
        /\ Cardinality(dlq') = Cardinality(dlq) \/ Cardinality(dlq') = Cardinality(dlq) + 1
    BY <2>1, FS_AddElement
  <2> QED
    BY <1>1, <2>1, <2>4, <2>5
<1>4. ASSUME NEW r \in Replicas, Restart(r)
      PROVE  FewDeadLetters'
  <2>1. /\ pc[r] = "stopped" /\ pc'[r] = "out" /\ dlq' = dlq
        /\ restarts' = restarts + 1
    BY <1>4, GoesTo DEF Restart, topics
  <2>2. \A s \in Replicas \ {r} : pc'[s] = pc[s]
    BY <1>4, OthersStay
  <2>3. Stopped' = Stopped \ {r} /\ r \in Stopped
    BY <2>1, <2>2 DEF Stopped
  <2>4. Cardinality(Stopped') = Cardinality(Stopped) - 1
    BY <1>1, <2>3, FS_RemoveElement
  <2> QED
    BY <1>1, <2>1, <2>4
<1>5. ASSUME NEW r \in Replicas, Proceed(r) \/ Fail(r), ~DeadLetter(r)
      PROVE  dlq' = dlq /\ restarts' = restarts /\ Stopped \subseteq Stopped'
  <2>1. dlq' = dlq /\ restarts' = restarts
    BY <1>5
    DEF Proceed, Fail, topics, counters, Fetch, Leave, FetchFails, Claim,
        ClaimFails, UnwrapFails, HandlerSucceeds, HandlerFails, Enqueue,
        EnqueueFails, DeadLetterFails, Commit, CommitFails, Crash
  <2>2. pc[r] # "stopped"
    BY <1>5, Zenon
    DEF Proceed, Fail, Fetch, Leave, FetchFails, Claim, ClaimFails, UnwrapFails,
        HandlerSucceeds, HandlerFails, Enqueue, EnqueueFails, DeadLetterFails,
        Commit, CommitFails, Crash
  <2>3. \A s \in Replicas \ {r} : pc'[s] = pc[s]
    BY <1>5, OthersStay
  <2> QED
    BY <2>1, <2>2, <2>3 DEF Stopped
<1>6. CASE Outside
  <2>1. dlq' = dlq /\ Stopped \subseteq Stopped'
    BY <1>6, OutsideStays DEF Stopped
  <2>2. restarts' = restarts
    BY <1>6
    DEF Outside, Publish, Requeue, RetryQueueStops, Rebalance, Takeover, Assign,
        vars, counters
  <2> QED
    BY <1>2, <2>1, <2>2
<1> QED
  BY <1>2, <1>3, <1>4, <1>5, <1>6, EveryStep

(* There are never more events in the dead-letter topic than processes     *)
(* that have stopped: broker.Subscribe returns after each dead letter, so  *)
(* every event the service gives up on takes down the consumer of one      *)
(* replica until that is started again, and the last one the partition.    *)
THEOREM DeadLettersCostRestarts == Spec => []EachDeadLetterStops
<1>1. Init => FewDeadLetters
  <2> SUFFICES ASSUME Init
               PROVE  FewDeadLetters
    OBVIOUS
  <2>1. dlq = {} /\ restarts = 0 /\ Stopped \in SUBSET Replicas
    BY DEF Init, Stopped
  <2> QED
    BY <2>1, StoppedFinite, FS_EmptySet DEF FewDeadLetters, EachDeadLetterStops
<1>2. FewDeadLetters => EachDeadLetterStops
  BY DEF FewDeadLetters
<1> QED
  BY <1>1, <1>2, DeadLettersStep, TypeCorrect, PTL DEF Spec

=============================================================================
