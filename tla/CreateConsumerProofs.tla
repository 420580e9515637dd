------------------------ MODULE CreateConsumerProofs ------------------------
(***************************************************************************)
(* What holds of the consumers of create commands for every value of their *)
(* constants.  The loop's theorems are carried over from EventConsumer     *)
(* along the refinement.                                                   *)
(***************************************************************************)
EXTENDS CreateConsumer, TLAPS

LoopProofs == INSTANCE EventConsumerProofs

(* Every step of the consumers is a step of EventConsumer's loops or       *)
(* leaves them where they are: the handler's own steps are within one of   *)
(* a loop's steps.                                                         *)
LEMMA LoopStep == [Next]_vars => [Loop!Next]_loop
<1> SUFFICES ASSUME [Next]_vars
             PROVE  [Loop!Next]_loop
  OBVIOUS
<1>1. ASSUME NEW e \in Events, Around(Loop!Publish(e))
      PROVE  Loop!Next
  BY <1>1, Zenon DEF Around, Loop!Next
<1>2. CASE Around(Loop!Requeue)
  BY <1>2, Zenon DEF Around, Loop!Next
<1>3. ASSUME NEW r \in Replicas,
             \/ Around(Loop!RetryQueueStops(r)) \/ Around(Loop!Rebalance(r))
             \/ Around(Loop!Takeover(r)) \/ Around(Loop!Restart(r))
      PROVE  Loop!Next
  BY <1>3, Zenon DEF Around, Loop!Next
<1>4. ASSUME NEW r \in Replicas, Proceed(r)
      PROVE  Loop!Proceed(r) \/ UNCHANGED loop
  BY <1>4, Zenon
  DEF Proceed, Around, Claim, UnwrapFails, Handle, Insert, InsertRefused, ReadBack,
      PublishResult, Loop!Proceed
<1>5. ASSUME NEW r \in Replicas, Fail(r)
      PROVE  Loop!Fail(r) \/ UNCHANGED loop
  <2>1. ASSUME NEW released \in BOOLEAN, DecodeFails(r, released)
        PROVE  Loop!Fail(r)
    BY <2>1, Zenon DEF DecodeFails, Loop!Fail
  <2>2. ASSUME NEW sent \in BOOLEAN, NEW released \in BOOLEAN,
               PublishFails(r, sent, released)
        PROVE  Loop!Fail(r)
    BY <2>2, Zenon DEF PublishFails, Loop!Fail
  <2>3. ASSUME NEW written \in BOOLEAN, InsertFails(r, written)
        PROVE  UNCHANGED loop
    BY <2>3, Zenon DEF InsertFails
  <2>4. CASE ReadBackFails(r)
    BY <2>4, Zenon DEF ReadBackFails
  <2>5. ASSUME NEW sent \in BOOLEAN, Crash(r, sent)
        PROVE  Loop!Fail(r)
    BY <2>5, Zenon DEF Crash, Loop!Fail
  <2>6. ASSUME NEW written \in BOOLEAN, Around(Loop!ClaimFails(r, written))
        PROVE  Loop!Fail(r)
    BY <2>6, Zenon DEF Around, Loop!Fail
  <2>7. ASSUME \/ Around(Loop!FetchFails(r)) \/ Around(Loop!EnqueueFails(r))
               \/ Around(Loop!DeadLetterFails(r)) \/ Around(Loop!CommitFails(r))
        PROVE  Loop!Fail(r)
    BY <2>7, Zenon DEF Around, Loop!Fail
  <2> QED
    BY <1>5, <2>1, <2>2, <2>3, <2>4, <2>5, <2>6, <2>7, Zenon DEF Fail, HandleFails
<1>6. ASSUME NEW r \in Replicas, Loop!Proceed(r) \/ Loop!Fail(r)
      PROVE  Loop!Next
  BY <1>6, Zenon DEF Loop!Next
<1>7. CASE UNCHANGED vars
  BY <1>7, Zenon DEF vars
<1> QED
  BY <1>1, <1>2, <1>3, <1>4, <1>5, <1>6, <1>7, Zenon DEF Next

(* EventConsumer's theorems speak of the instance LoopProofs, the consumer *)
(* of the instance Loop; both stand for the same formulas.                 *)
LEMMA SameNext == Loop!Next <=> LoopProofs!Next
BY Zenon
DEF Loop!Next, LoopProofs!Next, Loop!Publish, LoopProofs!Publish, Loop!Requeue,
    LoopProofs!Requeue, Loop!RetryQueueStops, LoopProofs!RetryQueueStops,
    Loop!Assign, LoopProofs!Assign, Loop!Rebalance, LoopProofs!Rebalance,
    Loop!Takeover, LoopProofs!Takeover, Loop!Fetch, LoopProofs!Fetch,
    Loop!Leave, LoopProofs!Leave, Loop!FetchFails, LoopProofs!FetchFails,
    Loop!Claim, LoopProofs!Claim, Loop!ClaimFails, LoopProofs!ClaimFails,
    Loop!UnwrapFails, LoopProofs!UnwrapFails, Loop!HandlerSucceeds,
    LoopProofs!HandlerSucceeds, Loop!HandlerFails, LoopProofs!HandlerFails,
    Loop!Enqueue, LoopProofs!Enqueue, Loop!EnqueueFails,
    LoopProofs!EnqueueFails, Loop!DeadLetter, LoopProofs!DeadLetter,
    Loop!DeadLetterFails, LoopProofs!DeadLetterFails, Loop!Commit,
    LoopProofs!Commit, Loop!CommitFails, LoopProofs!CommitFails, Loop!Crash,
    LoopProofs!Crash, Loop!Restart, LoopProofs!Restart, Loop!Proceed,
    LoopProofs!Proceed, Loop!Fail, LoopProofs!Fail, Loop!Goto, LoopProofs!Goto,
    Loop!End, LoopProofs!End, Loop!Fault, LoopProofs!Fault, Loop!Overtaken,
    LoopProofs!Overtaken, Loop!Drop, LoopProofs!Drop, Loop!Current,
    LoopProofs!Current, Loop!Event, LoopProofs!Event, Loop!topics,
    LoopProofs!topics, Loop!group, LoopProofs!group, Loop!counters,
    LoopProofs!counters, Loop!history, LoopProofs!history

LEMMA SameLoop == Loop!Spec <=> LoopProofs!Spec
<1>1. Loop!Init <=> LoopProofs!Init
  BY Zenon DEF Loop!Init, LoopProofs!Init
<1>2. [Loop!Next]_(Loop!vars) <=> [LoopProofs!Next]_(LoopProofs!vars)
  BY SameNext, Zenon
  DEF Loop!vars, Loop!topics, Loop!group, Loop!counters, Loop!history,
      LoopProofs!vars, LoopProofs!topics, LoopProofs!group, LoopProofs!counters,
      LoopProofs!history
<1> QED
  BY <1>1, <1>2, PTL DEF Loop!Spec, LoopProofs!Spec

LEMMA SameType == Loop!TypeOK <=> LoopProofs!TypeOK
BY Zenon DEF Loop!TypeOK, LoopProofs!TypeOK, Loop!Message, LoopProofs!Message,
   Loop!Labels, LoopProofs!Labels

LEMMA LoopAssumptions ==
  /\ LoopProofs!EventsAssumption
  /\ LoopProofs!ReplicasAssumption
  /\ LoopProofs!BoundsAssumption
<1>1. LoopProofs!EventsAssumption /\ LoopProofs!BoundsAssumption
  BY EventsAssumption, BoundsAssumption, Zenon
  DEF LoopProofs!EventsAssumption, LoopProofs!BoundsAssumption
<1>2. LoopProofs!ReplicasAssumption
  BY ReplicasAssumption, Zenon
  DEF LoopProofs!ReplicasAssumption, IsFiniteSet, LoopProofs!IsFiniteSet
<1> QED
  BY <1>1, <1>2

(* The consumers of create commands implement the loops of EventConsumer,  *)
(* which need not know what a handler does: no step of it touches an       *)
(* offset, a claim, a queue or another replica.                            *)
THEOREM LoopImplemented == Spec => Loop!Spec
<1>1. Init => Loop!Init
  BY Zenon DEF Init
<1>2. [Loop!Next]_loop => [Loop!Next]_(Loop!vars)
  BY Zenon
  DEF loop, Loop!vars, Loop!topics, Loop!group, Loop!counters, Loop!history
<1> QED
  BY <1>1, <1>2, LoopStep, PTL DEF Spec, Loop!Spec

LEMMA LoopTyped == Spec => []Loop!TypeOK
<1>1. LoopProofs!Spec => []LoopProofs!TypeOK
  BY LoopProofs!TypeCorrect, LoopAssumptions
<1> QED
  BY <1>1, SameType, LoopImplemented, SameLoop, PTL

(* Carried over: the consumers of create commands keep the ledger of       *)
(* EventLedger.                                                            *)
THEOREM LedgerImplemented == Spec => Loop!ImplementsLedger
<1>1. LoopProofs!Spec => LoopProofs!ImplementsLedger
  BY LoopProofs!LedgerImplemented, LoopAssumptions
<1>2. LoopProofs!Ledger!Init => Loop!Ledger!Init
  BY Zenon DEF Loop!Ledger!Init, LoopProofs!Ledger!Init, Loop!Owed, LoopProofs!Owed
<1>3. [LoopProofs!Ledger!Next]_(LoopProofs!Ledger!vars)
        => [Loop!Ledger!Next]_(Loop!Ledger!vars)
  BY Zenon
  DEF Loop!Ledger!Next, Loop!Ledger!vars, Loop!Ledger!Arrive, Loop!Ledger!Succeed,
      Loop!Ledger!Abandon, Loop!Owed, LoopProofs!Ledger!Next,
      LoopProofs!Ledger!vars, LoopProofs!Ledger!Arrive, LoopProofs!Ledger!Succeed,
      LoopProofs!Ledger!Abandon, LoopProofs!Owed
<1> QED
  BY <1>1, <1>2, <1>3, LoopImplemented, SameLoop, PTL
  DEF Loop!ImplementsLedger, LoopProofs!ImplementsLedger, Loop!Ledger!Spec,
      LoopProofs!Ledger!Spec

LEMMA LoopLosesNothing == Spec => []Loop!NoSilentLoss
<1>1. LoopProofs!Spec => []LoopProofs!NoSilentLoss
  BY LoopProofs!CommitsLoseNothingSilently, LoopAssumptions
<1>2. LoopProofs!NoSilentLoss => Loop!NoSilentLoss
  BY Zenon
  DEF Loop!NoSilentLoss, LoopProofs!NoSilentLoss, Loop!Accounted,
      LoopProofs!Accounted, Loop!InHand, LoopProofs!InHand, Loop!Event,
      LoopProofs!Event, Loop!Current, LoopProofs!Current
<1> QED
  BY <1>1, <1>2, LoopImplemented, SameLoop, PTL

-----------------------------------------------------------------------------
(* What a handler knows between its steps, and what its results rest on.   *)

Backed(r) ==
  /\ step[r] \in {"read", "success"} => orders[OrderOf[Event(r)]] # Null
  /\ step[r] = "failed" /\ Event(r) \notin disturbed => HeldByAnother(Event(r))

StepBacked == \A r \in Replicas : Backed(r)

(* A handler that succeeded has published a result. *)
SucceededAnswered == \A e \in Events : succeeded[e] # 0 => results[e] # {}

ResultInv ==
  TypeOK /\ StepBacked /\ SuccessIsTrue /\ RefusalIsTrue /\ SucceededAnswered

Steps == {"none", "create", "read", "success", "failed"}

LEMMA EventInHand ==
  ASSUME Loop!TypeOK, NEW r \in Replicas, pc[r] = "handle"
  PROVE  position[r] \in 1..Len(log) /\ Event(r) \in Events
<1>1. log \in Seq(Loop!Message) /\ position[r] \in 0..Len(log) /\ position[r] > 0
  BY Zenon DEF Loop!TypeOK
<1>2. position[r] \in 1..Len(log)
  BY <1>1
<1>3. log[position[r]] \in Loop!Message
  BY <1>1, <1>2
<1> QED
  BY <1>2, <1>3 DEF Loop!Message, Event

(* A message in hand stays the same while the log grows. *)
LEMMA EventStays ==
  ASSUME Loop!TypeOK, [Next]_vars, NEW r \in Replicas, pc[r] = "handle",
         position'[r] = position[r]
  PROVE  Event(r)' = Event(r)
<1>1. [LoopProofs!Next]_(LoopProofs!vars)
  BY LoopStep, SameNext, Zenon
  DEF loop, LoopProofs!vars, LoopProofs!topics, LoopProofs!group,
      LoopProofs!counters, LoopProofs!history
<1>2. \A i \in 1..Len(log) : log'[i] = log[i]
  BY <1>1, SameType, LoopProofs!MessagesStay, LoopAssumptions, Zenon
<1>3. position[r] \in 1..Len(log)
  BY EventInHand
<1> QED
  BY <1>2, <1>3, Zenon DEF Event

(* Where a step of a loop leads, which is no step of the others. *)
LEMMA LoopMoves ==
  ASSUME Loop!TypeOK, NEW r \in Replicas, NEW label,
         Loop!Goto(r, label) \/ Loop!End(r, label)
  PROVE  /\ pc'[r] = label
         /\ \A s \in Replicas \ {r} : pc'[s] = pc[s] /\ position'[s] = position[s]
BY DEF Loop!TypeOK, Loop!Goto, Loop!End

(* Rows and keys stay, and so does what has disturbed an answer. *)
Growing ==
  /\ orders' \in [Orders -> Keys \cup {Null}]
  /\ \A o \in Orders : orders[o] # Null => orders'[o] = orders[o]
  /\ disturbed' \in SUBSET Events
  /\ disturbed \subseteq disturbed'

LEMMA HeldStays ==
  ASSUME Growing, NEW e \in Events
  PROVE  /\ orders[OrderOf[e]] # Null => orders'[OrderOf[e]] # Null
         /\ HeldByAnother(e) => HeldByAnother(e)'
BY CommandsAssumption, NullAssumption DEF Growing, HeldByAnother

(* What was said of an order stays true. *)
LEMMA TruthStays ==
  ASSUME ResultInv, UNCHANGED results, Growing
  PROVE  SuccessIsTrue' /\ RefusalIsTrue'
<1>1. SuccessIsTrue'
  BY HeldStays, Zenon DEF ResultInv, SuccessIsTrue
<1>2. ASSUME NEW e \in Events \ disturbed', "failed" \in results'[e]
      PROVE  HeldByAnother(e)'
  <2>1. e \in Events \ disturbed /\ "failed" \in results[e]
    BY <1>2, Zenon DEF Growing
  <2>2. HeldByAnother(e)
    BY <2>1, Zenon DEF ResultInv, RefusalIsTrue
  <2> QED
    BY <2>1, <2>2, HeldStays, Zenon
<1> QED
  BY <1>1, <1>2, Zenon DEF RefusalIsTrue, HeldByAnother

(* What a handler knows stays true while others go on. *)
LEMMA BackedStays ==
  ASSUME Loop!TypeOK, ResultInv, [Next]_vars, Growing, NEW s \in Replicas,
         step'[s] = step[s], pc[s] = "handle" => position'[s] = position[s]
  PROVE  Backed(s)'
<1>1. CASE pc[s] = "handle"
  <2>1. Event(s)' = Event(s) /\ Event(s) \in Events
    BY <1>1, EventStays, EventInHand, Zenon
  <2>2. Backed(s)
    BY Zenon DEF ResultInv, StepBacked
  <2>3. disturbed \subseteq disturbed'
    BY Zenon DEF Growing
  <2>4. \A e \in Events :
          /\ orders[OrderOf[e]] # Null => orders'[OrderOf[e]] # Null
          /\ HeldByAnother(e) => HeldByAnother(e)'
    BY HeldStays, Zenon
  <2>5. step'[s] \in {"read", "success"} => orders'[OrderOf[Event(s)']] # Null
    BY <2>1, <2>2, <2>4, Zenon DEF Backed
  <2>6. step'[s] = "failed" /\ Event(s)' \notin disturbed'
          => \E o \in Orders \ {OrderOf[Event(s)']} : orders'[o] = KeyOf[Event(s)']
    BY <2>1, <2>2, <2>3, <2>4, Zenon DEF Backed, HeldByAnother
  <2> QED
    BY <2>5, <2>6, Zenon DEF Backed, HeldByAnother
<1>2. CASE pc[s] # "handle"
  <2>1. step'[s] = "none"
    BY <1>2, Zenon DEF ResultInv, TypeOK
  <2> QED
    BY <2>1 DEF Backed
<1> QED
  BY <1>1, <1>2

(* A loop moves on, or a producer adds to the log, and no handler takes a  *)
(* step.                                                                   *)
LEMMA QuietStep ==
  ASSUME Loop!TypeOK, ResultInv, [Next]_vars, UNCHANGED handler,
         succeeded' = succeeded,
         \A s \in Replicas :
           /\ pc'[s] = "handle" <=> pc[s] = "handle"
           /\ pc[s] = "handle" => position'[s] = position[s]
  PROVE  ResultInv'
<1>1. UNCHANGED <<step, orders, results, failures, disturbed>>
  BY Zenon DEF handler
<1>2. Growing
  BY <1>1 DEF Growing, ResultInv, TypeOK
<1>3. TypeOK'
  BY <1>1, Zenon DEF ResultInv, TypeOK
<1>4. StepBacked'
  BY <1>1, <1>2, BackedStays, Zenon DEF StepBacked
<1>5. SuccessIsTrue' /\ RefusalIsTrue'
  BY <1>1, <1>2, TruthStays, Zenon
<1>6. SucceededAnswered'
  BY <1>1, Zenon DEF ResultInv, SucceededAnswered
<1> QED
  BY <1>3, <1>4, <1>5, <1>6, Zenon DEF ResultInv

(* The handler of r takes a step. *)
LEMMA HandlerStep ==
  ASSUME Loop!TypeOK, ResultInv, [Next]_vars, Growing,
         NEW r \in Replicas, NEW next \in Steps, Goto(r, next),
         next = "none" <=> pc'[r] # "handle",
         \A s \in Replicas \ {r} : pc'[s] = pc[s] /\ position'[s] = position[s],
         failures' \in 0..MaxFailures,
         results' \in [Events -> SUBSET {"success", "failed"}],
         Backed(r)', SuccessIsTrue', RefusalIsTrue', SucceededAnswered'
  PROVE  ResultInv'
<1>1. /\ step \in [Replicas -> Steps]
      /\ \A s \in Replicas : step[s] = "none" <=> pc[s] # "handle"
  BY Zenon DEF ResultInv, TypeOK, Steps
<1>2. /\ step' \in [Replicas -> Steps] /\ step'[r] = next
      /\ \A s \in Replicas \ {r} : step'[s] = step[s]
  BY <1>1 DEF Goto
<1>3. TypeOK'
  BY <1>1, <1>2, Zenon DEF TypeOK, Steps, Growing
<1>4. \A s \in Replicas : Backed(s)'
  BY <1>2, BackedStays, Zenon
<1> QED
  BY <1>3, <1>4, Zenon DEF ResultInv, StepBacked

(* It takes one that publishes nothing. *)
LEMMA SilentStep ==
  ASSUME Loop!TypeOK, ResultInv, [Next]_vars, Growing,
         NEW r \in Replicas, NEW next \in Steps, Goto(r, next),
         next = "none" <=> pc'[r] # "handle",
         \A s \in Replicas \ {r} : pc'[s] = pc[s] /\ position'[s] = position[s],
         failures' \in 0..MaxFailures,
         Backed(r)', UNCHANGED <<results, succeeded>>
  PROVE  ResultInv'
<1>1. results' \in [Events -> SUBSET {"success", "failed"}]
  BY Zenon DEF ResultInv, TypeOK
<1>2. SuccessIsTrue' /\ RefusalIsTrue'
  BY TruthStays, Zenon
<1>3. SucceededAnswered'
  BY Zenon DEF ResultInv, SucceededAnswered
<1> QED
  BY <1>1, <1>2, <1>3, HandlerStep, Zenon

(* Publishing what the handler found is publishing the truth. *)
LEMMA AnswerBacked ==
  ASSUME ResultInv, NEW r \in Replicas, Event(r) \in Events,
         step[r] \in {"success", "failed"}, results' = Answered(r),
         UNCHANGED <<orders, disturbed>>
  PROVE  /\ results' \in [Events -> SUBSET {"success", "failed"}]
         /\ results'[Event(r)] # {}
         /\ \A e \in Events : results[e] \subseteq results'[e]
         /\ SuccessIsTrue'
         /\ RefusalIsTrue'
<1>1. \A e \in Events :
        results'[e] = IF e = Event(r) THEN results[e] \cup {step[r]} ELSE results[e]
  BY DEF Answered, ResultInv, TypeOK
<1>2. results' \in [Events -> SUBSET {"success", "failed"}]
  BY SMT DEF Answered, ResultInv, TypeOK
<1>3. SuccessIsTrue'
  <2> SUFFICES ASSUME NEW e \in Events, "success" \in results'[e]
               PROVE  orders'[OrderOf[e]] # Null
    BY Zenon DEF SuccessIsTrue
  <2>1. "success" \in results[e] \/ (e = Event(r) /\ step[r] = "success")
    BY <1>1
  <2> QED
    BY <2>1, Zenon DEF ResultInv, SuccessIsTrue, StepBacked, Backed
<1>4. RefusalIsTrue'
  <2> SUFFICES ASSUME NEW e \in Events \ disturbed, "failed" \in results'[e]
               PROVE  HeldByAnother(e)
    BY Zenon DEF RefusalIsTrue, HeldByAnother
  <2>1. "failed" \in results[e] \/ (e = Event(r) /\ step[r] = "failed")
    BY <1>1
  <2> QED
    BY <2>1, Zenon DEF ResultInv, RefusalIsTrue, StepBacked, Backed
<1>5. results'[Event(r)] # {} /\ \A e \in Events : results[e] \subseteq results'[e]
  <2>1. step[r] \in results'[Event(r)]
    BY <1>1
  <2>2. \A e \in Events : results[e] \subseteq results'[e]
    BY <1>1
  <2> QED
    BY <2>1, <2>2, Zenon
<1> QED
  BY <1>2, <1>3, <1>4, <1>5, Zenon

(* Rows and keys stay. *)
LEMMA InsertKeeps ==
  ASSUME ResultInv, NEW e \in Events, orders' = Inserted(e), Insertable(e)
  PROVE  /\ orders' \in [Orders -> Keys \cup {Null}]
         /\ orders'[OrderOf[e]] # Null
         /\ \A o \in Orders : orders[o] # Null => orders'[o] = orders[o]
<1>1. OrderOf[e] \in Orders /\ KeyOf[e] \in Keys
  BY CommandsAssumption
<1>2. \A o \in Orders :
        orders'[o] = IF o = OrderOf[e] /\ orders[o] = Null
                     THEN KeyOf[e] ELSE orders[o]
  BY <1>1 DEF Inserted, ResultInv, TypeOK
<1>3. orders' \in [Orders -> Keys \cup {Null}]
  BY <1>1 DEF Inserted, ResultInv, TypeOK
<1> QED
  BY <1>1, <1>2, <1>3, NullAssumption

(* The loop's own steps, which leave the handlers alone. *)
LEMMA AroundStep ==
  ASSUME Loop!TypeOK, ResultInv, [Next]_vars, UNCHANGED handler,
         NEW r \in Replicas,
         \/ Loop!Fetch(r) \/ Loop!Leave(r) \/ Loop!FetchFails(r)
         \/ \E written \in BOOLEAN : Loop!ClaimFails(r, written)
         \/ Loop!Enqueue(r) \/ Loop!EnqueueFails(r)
         \/ Loop!DeadLetter(r) \/ Loop!DeadLetterFails(r)
         \/ Loop!Commit(r) \/ Loop!CommitFails(r) \/ Loop!Restart(r)
  PROVE  ResultInv'
<1>1. /\ succeeded' = succeeded /\ pc[r] # "handle"
      /\ \/ Loop!Fetch(r)
         \/ \E label \in {"out", "fetch", "stopped"} : Loop!End(r, label)
  BY Zenon
  DEF Loop!Fetch, Loop!Leave, Loop!FetchFails, Loop!ClaimFails, Loop!Enqueue,
      Loop!EnqueueFails, Loop!DeadLetter, Loop!DeadLetterFails, Loop!Commit,
      Loop!CommitFails, Loop!Restart, Loop!history
<1>2. /\ pc'[r] # "handle"
      /\ \A s \in Replicas \ {r} : pc'[s] = pc[s] /\ position'[s] = position[s]
  <2>1. CASE Loop!Fetch(r)
    BY <2>1 DEF Loop!Fetch, Loop!TypeOK
  <2>2. ASSUME NEW label \in {"out", "fetch", "stopped"}, Loop!End(r, label)
        PROVE  /\ pc'[r] # "handle"
               /\ \A s \in Replicas \ {r} : pc'[s] = pc[s] /\ position'[s] = position[s]
    BY <2>2, LoopMoves
  <2> QED
    BY <1>1, <2>1, <2>2
<1> QED
  BY <1>1, <1>2, QuietStep, Zenon

LEMMA OutsideStep ==
  ASSUME Loop!TypeOK, ResultInv, [Next]_vars, UNCHANGED handler,
         \/ \E e \in Events : Loop!Publish(e)
         \/ Loop!Requeue
         \/ \E r \in Replicas :
              Loop!RetryQueueStops(r) \/ Loop!Rebalance(r) \/ Loop!Takeover(r)
  PROVE  ResultInv'
<1>1. ASSUME NEW r \in Replicas, Loop!Assign(r)
      PROVE  /\ succeeded' = succeeded /\ position' = position
             /\ \A s \in Replicas : pc'[s] = "handle" <=> pc[s] = "handle"
  BY <1>1 DEF Loop!Assign, Loop!TypeOK, Loop!history
<1>2. \/ UNCHANGED <<succeeded, position, pc>>
      \/ \E r \in Replicas : Loop!Assign(r)
  BY Zenon
  DEF Loop!Publish, Loop!Requeue, Loop!RetryQueueStops, Loop!Rebalance,
      Loop!Takeover, Loop!history
<1> QED
  BY <1>1, <1>2, QuietStep, Zenon

LEMMA ResultInvStep == Loop!TypeOK /\ ResultInv /\ [Next]_vars => ResultInv'
<1> SUFFICES ASSUME Loop!TypeOK, ResultInv, [Next]_vars
             PROVE  ResultInv'
  OBVIOUS
<1>t. /\ orders \in [Orders -> Keys \cup {Null}]
      /\ results \in [Events -> SUBSET {"success", "failed"}]
      /\ disturbed \in SUBSET Events
      /\ failures \in 0..MaxFailures
      /\ \A r \in Replicas : step[r] = "none" <=> pc[r] # "handle"
  BY Zenon DEF ResultInv, TypeOK
<1>f. Failure => failures' \in 0..MaxFailures
  BY <1>t, BoundsAssumption DEF Failure
<1>e. \A r \in Replicas : step[r] # "none" => pc[r] = "handle" /\ Event(r) \in Events
  BY <1>t, EventInHand, Zenon
<1>g. UNCHANGED <<orders, disturbed>> => Growing
  BY <1>t, Zenon DEF Growing
(* The loop of r takes the message from the handler, or gives it to it.    *)
<1>a. ASSUME NEW r \in Replicas, NEW next \in {"none", "create"}, Goto(r, next),
             NEW label, Loop!Goto(r, label) \/ Loop!End(r, label),
             next = "none" <=> label # "handle",
             UNCHANGED <<orders, results, failures, disturbed, succeeded>>
      PROVE  ResultInv'
  <2>1. /\ pc'[r] = label
        /\ \A s \in Replicas \ {r} : pc'[s] = pc[s] /\ position'[s] = position[s]
    BY <1>a, LoopMoves
  <2>2. step'[r] = next
    BY <1>a DEF Goto, ResultInv, TypeOK
  <2>3. Backed(r)'
    BY <2>2 DEF Backed
  <2>4. next \in Steps /\ failures' \in 0..MaxFailures
    BY <1>a, <1>t DEF Steps
  <2> QED
    BY <1>a, <1>g, <2>1, <2>3, <2>4, SilentStep
(* The handler of r takes a step within the loop's. *)
<1>b. ASSUME NEW r \in Replicas, step[r] # "none", UNCHANGED <<loop, results>>,
             NEW next \in Steps \ {"none"}, Goto(r, next), Growing,
             failures' \in 0..MaxFailures,
             next \in {"read", "success"} => orders'[OrderOf[Event(r)]] # Null,
             next = "failed" /\ Event(r) \notin disturbed' => HeldByAnother(Event(r))'
      PROVE  ResultInv'
  <2>1. UNCHANGED <<log, position, pc, succeeded>>
    BY <1>b, Zenon DEF loop
  <2>2. Event(r)' = Event(r) /\ pc[r] = "handle"
    BY <1>b, <1>e, <2>1, Zenon DEF Event
  <2>3. step'[r] = next
    BY <1>b DEF Goto, ResultInv, TypeOK
  <2>4. Backed(r)'
    BY <1>b, <2>2, <2>3, Zenon DEF Backed, HeldByAnother
  <2> QED
    BY <1>b, <2>1, <2>2, <2>4, SilentStep, Zenon
(* It ends, having published a result or not. *)
<1>c. ASSUME NEW r \in Replicas, Goto(r, "none"),
             NEW label \in {"commit", "retry", "deadletter", "stopped"},
             Loop!Goto(r, label) \/ Loop!End(r, label),
             step[r] \in {"success", "failed"}, results' = Answered(r),
             UNCHANGED <<orders, failures, disturbed>>,
             \A e \in Events : e # Event(r) => succeeded'[e] = succeeded[e]
      PROVE  ResultInv'
  <2>1. /\ pc'[r] = label
        /\ \A s \in Replicas \ {r} : pc'[s] = pc[s] /\ position'[s] = position[s]
    BY <1>c, LoopMoves
  <2>2. step'[r] = "none"
    BY <1>c DEF Goto, ResultInv, TypeOK
  <2>3. Backed(r)'
    BY <2>2 DEF Backed
  <2>4. Event(r) \in Events
    BY <1>c, <1>e
  <2>5. /\ results' \in [Events -> SUBSET {"success", "failed"}]
        /\ results'[Event(r)] # {}
        /\ \A e \in Events : results[e] \subseteq results'[e]
        /\ SuccessIsTrue' /\ RefusalIsTrue'
    BY <1>c, <2>4, AnswerBacked, Zenon
  <2>6. ASSUME NEW e \in Events, succeeded'[e] # 0
        PROVE  results'[e] # {}
    <3>1. CASE e = Event(r)
      BY <2>5, <3>1
    <3>2. CASE e # Event(r)
      <4>1. results[e] # {}
        BY <1>c, <2>6, <3>2, Zenon DEF ResultInv, SucceededAnswered
      <4> QED
        BY <2>5, <4>1
    <3> QED
      BY <3>1, <3>2
  <2>7. SucceededAnswered'
    BY <2>6, Zenon DEF SucceededAnswered
  <2>8. "none" \in Steps /\ label # "handle" /\ failures' \in 0..MaxFailures
    BY <1>c, <1>t DEF Steps
  <2> QED
    BY <1>c, <1>g, <2>1, <2>3, <2>5, <2>7, <2>8, HandlerStep
<1>1. ASSUME NEW r \in Replicas, Claim(r)
      PROVE  ResultInv'
  <2>1. /\ succeeded' = succeeded
        /\ \/ Loop!Goto(r, "handle") \/ Loop!End(r, "fetch")
        /\ UNCHANGED <<orders, results, failures, disturbed>>
        /\ Goto(r, IF pc'[r] = "handle" THEN "create" ELSE "none")
    BY <1>1, Zenon DEF Claim, Loop!Claim, Loop!history
  <2>2. CASE Loop!Goto(r, "handle")
    <3>1. pc'[r] = "handle"
      BY <2>2, LoopMoves
    <3>2. Goto(r, "create")
      BY <2>1, <3>1
    <3> QED
      BY <1>a, <2>1, <2>2, <3>2
  <2>3. CASE Loop!End(r, "fetch")
    <3>1. pc'[r] = "fetch"
      BY <2>3, LoopMoves
    <3>2. Goto(r, "none")
      BY <2>1, <3>1
    <3> QED
      BY <1>a, <2>1, <2>3, <3>2
  <2> QED
    BY <2>1, <2>2, <2>3
<1>2. ASSUME NEW r \in Replicas, UnwrapFails(r)
      PROVE  ResultInv'
  <2>1. /\ succeeded' = succeeded /\ Loop!Goto(r, "deadletter") /\ Goto(r, "none")
        /\ UNCHANGED <<orders, results, failures, disturbed>>
    BY <1>2, Zenon DEF UnwrapFails, Loop!UnwrapFails
  <2> QED
    BY <1>a, <2>1
<1>3. ASSUME NEW r \in Replicas, NEW released \in BOOLEAN, DecodeFails(r, released)
      PROVE  ResultInv'
  <2>1. /\ succeeded' = succeeded /\ Goto(r, "none")
        /\ Loop!Goto(r, "retry") \/ Loop!Goto(r, "deadletter")
        /\ UNCHANGED <<orders, results, failures, disturbed>>
    BY <1>3, Zenon DEF DecodeFails, Loop!HandlerFails
  <2> QED
    BY <1>a, <2>1
<1>4. ASSUME NEW r \in Replicas, Insert(r)
      PROVE  ResultInv'
  <2>1. /\ step[r] = "create" /\ Goto(r, "read")
        /\ orders' = Inserted(Event(r)) /\ Insertable(Event(r))
        /\ UNCHANGED <<loop, results, failures, disturbed>>
    BY <1>4, Zenon DEF Insert, At
  <2>2. /\ orders' \in [Orders -> Keys \cup {Null}]
        /\ orders'[OrderOf[Event(r)]] # Null
        /\ \A o \in Orders : orders[o] # Null => orders'[o] = orders[o]
    BY <2>1, <1>e, InsertKeeps
  <2>3. Growing
    BY <1>t, <2>1, <2>2, Zenon DEF Growing
  <2> QED
    BY <1>b, <1>t, <2>1, <2>2, <2>3 DEF Steps
<1>5. ASSUME NEW r \in Replicas, InsertRefused(r)
      PROVE  ResultInv'
  <2>1. /\ step[r] = "create" /\ Goto(r, "failed") /\ ~Insertable(Event(r))
        /\ UNCHANGED <<loop, orders, results, failures, disturbed>>
    BY <1>5, Zenon DEF InsertRefused, At
  <2>2. HeldByAnother(Event(r))
    BY <2>1, <1>e, CommandsAssumption, NullAssumption
    DEF Insertable, KeyIsFree, HeldByAnother
  <2>3. HeldByAnother(Event(r))'
    BY <2>1, <2>2, Zenon DEF HeldByAnother, Event, loop
  <2> QED
    BY <1>b, <1>g, <1>t, <2>1, <2>3 DEF Steps
<1>6. ASSUME NEW r \in Replicas, ReadBack(r)
      PROVE  ResultInv'
  <2>1. /\ step[r] = "read" /\ Goto(r, "success")
        /\ UNCHANGED <<loop, orders, results, failures, disturbed>>
    BY <1>6, Zenon DEF ReadBack, At
  <2>2. orders'[OrderOf[Event(r)]] # Null
    BY <2>1 DEF ResultInv, StepBacked, Backed
  <2> QED
    BY <1>b, <1>g, <1>t, <2>1, <2>2 DEF Steps
<1>7. ASSUME NEW r \in Replicas, NEW written \in BOOLEAN, InsertFails(r, written)
      PROVE  ResultInv'
  <2>1. /\ step[r] = "create" /\ Goto(r, "failed") /\ Failure
        /\ written => Insertable(Event(r))
        /\ orders' = IF written THEN Inserted(Event(r)) ELSE orders
        /\ disturbed' = disturbed \cup {Event(r)}
        /\ UNCHANGED <<loop, results>>
    BY <1>7, Zenon DEF InsertFails, At
  <2>2. Event(r) \in Events
    BY <2>1, <1>e
  <2>3. /\ orders' \in [Orders -> Keys \cup {Null}]
        /\ \A o \in Orders : orders[o] # Null => orders'[o] = orders[o]
    <3>1. CASE written
      BY <3>1, <2>1, <2>2, InsertKeeps, Zenon
    <3>2. CASE ~written
      BY <3>2, <2>1, <1>t, Zenon
    <3> QED
      BY <3>1, <3>2
  <2>4. Growing /\ Event(r) \in disturbed'
    BY <1>t, <2>1, <2>2, <2>3 DEF Growing
  <2> QED
    BY <1>b, <1>f, <2>1, <2>4 DEF Steps
<1>8. ASSUME NEW r \in Replicas, ReadBackFails(r)
      PROVE  ResultInv'
  <2>1. /\ step[r] = "read" /\ Goto(r, "failed") /\ Failure
        /\ disturbed' = disturbed \cup {Event(r)}
        /\ UNCHANGED <<loop, orders, results>>
    BY <1>8, Zenon DEF ReadBackFails, At
  <2>2. Event(r) \in Events
    BY <2>1, <1>e
  <2>3. Growing /\ Event(r) \in disturbed'
    BY <1>t, <2>1, <2>2 DEF Growing
  <2> QED
    BY <1>b, <1>f, <2>1, <2>3 DEF Steps
<1>9. ASSUME NEW r \in Replicas, PublishResult(r)
      PROVE  ResultInv'
  <2>1. /\ step[r] \in {"success", "failed"} /\ Goto(r, "none")
        /\ results' = Answered(r) /\ Loop!Goto(r, "commit")
        /\ succeeded' = [succeeded EXCEPT ![Event(r)] = @ + 1]
        /\ UNCHANGED <<orders, failures, disturbed>>
    BY <1>9, Zenon
    DEF PublishResult, Loop!HandlerSucceeds, Loop!Event, Loop!Current, Event
  <2>2. \A e \in Events : e # Event(r) => succeeded'[e] = succeeded[e]
    BY <2>1 DEF Loop!TypeOK
  <2> QED
    BY <1>c, <2>1, <2>2
<1>10. ASSUME NEW r \in Replicas, NEW sent \in BOOLEAN, NEW released \in BOOLEAN,
              PublishFails(r, sent, released)
       PROVE  ResultInv'
  <2>1. /\ step[r] \in {"success", "failed"} /\ Goto(r, "none")
        /\ Loop!Goto(r, "retry") \/ Loop!Goto(r, "deadletter")
        /\ results' = IF sent THEN Answered(r) ELSE results
        /\ UNCHANGED <<orders, failures, disturbed, succeeded>>
    BY <1>10, Zenon DEF PublishFails, Loop!HandlerFails
  <2>2. CASE sent
    BY <1>c, <2>1, <2>2
  <2>3. CASE ~sent
    BY <1>a, <2>1, <2>3
  <2> QED
    BY <2>2, <2>3
<1>11. ASSUME NEW r \in Replicas, NEW sent \in BOOLEAN, Crash(r, sent)
       PROVE  ResultInv'
  <2>1. /\ Goto(r, "none") /\ Loop!End(r, "stopped")
        /\ sent => step[r] \in {"success", "failed"}
        /\ results' = IF sent THEN Answered(r) ELSE results
        /\ UNCHANGED <<orders, failures, disturbed, succeeded>>
    BY <1>11, Zenon DEF Crash, Loop!Crash
  <2>2. CASE sent
    BY <1>c, <2>1, <2>2
  <2>3. CASE ~sent
    BY <1>a, <2>1, <2>3
  <2> QED
    BY <2>2, <2>3
<1>12. CASE UNCHANGED vars
  <2>1. UNCHANGED handler /\ UNCHANGED <<position, pc, succeeded>>
    BY <1>12, Zenon DEF vars, loop
  <2> QED
    BY <2>1, QuietStep, Zenon
<1>13. ASSUME NEW r \in Replicas, Proceed(r)
       PROVE  ResultInv'
  BY <1>1, <1>2, <1>4, <1>5, <1>6, <1>9, <1>13, AroundStep, Zenon
  DEF Proceed, Handle, Around
<1>14. ASSUME NEW r \in Replicas, Fail(r)
       PROVE  ResultInv'
  BY <1>3, <1>7, <1>8, <1>10, <1>11, <1>14, AroundStep, Zenon
  DEF Fail, HandleFails, Around
<1>15. ASSUME NEW r \in Replicas, Around(Loop!Restart(r))
       PROVE  ResultInv'
  BY <1>15, AroundStep, Zenon DEF Around
<1> QED
  BY <1>12, <1>13, <1>14, <1>15, OutsideStep, Zenon DEF Next, Around

LEMMA ResultInvCorrect == Spec => []ResultInv
<1>1. Init => ResultInv
  <2> SUFFICES ASSUME Init
               PROVE  ResultInv
    OBVIOUS
  <2>1. /\ step = [r \in Replicas |-> "none"]
        /\ \A r \in Replicas : pc[r] # "handle"
        /\ succeeded = [e \in Events |-> 0]
    BY DEF Init, Loop!Init
  <2>2. TypeOK
    BY <2>1, BeforeAssumption, BoundsAssumption DEF Init, TypeOK
  <2> QED
    BY <2>1, <2>2
    DEF Init, ResultInv, StepBacked, Backed, SuccessIsTrue, RefusalIsTrue,
        SucceededAnswered
<1> QED
  BY <1>1, LoopTyped, ResultInvStep, PTL DEF Spec

(* The variables of the handlers have their types, and each handler is     *)
(* between its steps exactly while its loop waits for it.                  *)
THEOREM TypeCorrect == Spec => []TypeOK
<1>1. ResultInv => TypeOK
  BY Zenon DEF ResultInv
<1> QED
  BY <1>1, ResultInvCorrect, PTL

(* A saga that is told "success" has its order.                            *)
THEOREM SuccessesAreTrue == Spec => []SuccessIsTrue
<1>1. ResultInv => SuccessIsTrue
  BY Zenon DEF ResultInv
<1> QED
  BY <1>1, ResultInvCorrect, PTL

(* A saga that is told "failed", with no failing write or read behind it,  *)
(* has its key taken by another order.                                     *)
THEOREM RefusalsAreTrue == Spec => []RefusalIsTrue
<1>1. ResultInv => RefusalIsTrue
  BY Zenon DEF ResultInv
<1> QED
  BY <1>1, ResultInvCorrect, PTL

(* A create command that the group has passed is answered, or what became  *)
(* of it can be found, or a replica could not send it on after another had *)
(* gone past it: EventConsumer's theorem, with a result for every success. *)
THEOREM CommandsAreAnswered == Spec => []NoCommandUnanswered
<1>1. ASSUME Loop!TypeOK, SucceededAnswered, Loop!NoSilentLoss
      PROVE  NoCommandUnanswered
  <2> SUFFICES ASSUME NEW i \in 1..committed, results[log[i].event] = {}
               PROVE  \/ log[i].event \in dlq \cup stuck \cup dropped
                      \/ \E j \in 1..Len(retryq) : retryq[j].event = log[i].event
                      \/ \E j \in committed + 1 .. Len(log) :
                           log[j].event = log[i].event
                      \/ \E r \in Replicas : Loop!InHand(r, log[i].event)
    BY Zenon DEF NoCommandUnanswered
  <2>1. i \in 1..Len(log) /\ log[i] \in Loop!Message
    BY <1>1, SMT DEF Loop!TypeOK
  <2>2. log[i].event \in Events
    BY <2>1, SMT DEF Loop!Message
  <2>3. succeeded[log[i].event] # 1
    BY <2>2, <1>1, SMT DEF SucceededAnswered
  <2> QED
    BY <2>3, <1>1, Zenon DEF Loop!NoSilentLoss, Loop!Accounted
<1>2. ResultInv => SucceededAnswered
  BY Zenon DEF ResultInv
<1> QED
  BY <1>1, <1>2, LoopTyped, LoopLosesNothing, ResultInvCorrect, PTL

LEMMA LoopLeavesNothing == Spec => []LoopProofs!NothingLeftOver
<1>1. LoopProofs!Spec => []LoopProofs!NothingLeftOver
  BY LoopProofs!IdleGroupLeavesNothing, LoopAssumptions
<1> QED
  BY <1>1, LoopImplemented, SameLoop, PTL

(* No saga waits while the group does. *)
NobodyWaits ==
  LoopProofs!Idle =>
    \A i \in 1..Len(log) :
      results[log[i].event] # {} \/ log[i].event \in dlq \cup stuck \cup dropped

(* When the group has come to rest, every create command that was ever     *)
(* published is answered, or is in the dead-letter topic or has a stuck    *)
(* claim, where it can be found, or is one of those that a replica could   *)
(* not send on after another had gone past it.                             *)
THEOREM IdleConsumerHasAnswered == Spec => []NobodyWaits
<1>1. ASSUME Loop!TypeOK, SucceededAnswered, LoopProofs!NothingLeftOver
      PROVE  NobodyWaits
  <2> SUFFICES ASSUME LoopProofs!Idle, NEW i \in 1..Len(log)
               PROVE  \/ results[log[i].event] # {}
                      \/ log[i].event \in dlq \cup stuck \cup dropped
    BY Zenon DEF NobodyWaits
  <2>1. log[i] \in Loop!Message
    BY <1>1, SMT DEF Loop!TypeOK
  <2>2. log[i].event \in Events
    BY <2>1, SMT DEF Loop!Message
  <2>3. LoopProofs!Outcome(log[i].event) \/ log[i].event \in dropped
    BY <1>1, Zenon DEF LoopProofs!NothingLeftOver
  <2>4. CASE succeeded[log[i].event] = 1
    BY <2>2, <2>4, <1>1, SMT DEF SucceededAnswered
  <2> QED
    BY <2>3, <2>4, Zenon DEF LoopProofs!Outcome
<1>2. ResultInv => SucceededAnswered
  BY Zenon DEF ResultInv
<1> QED
  BY <1>1, <1>2, LoopTyped, LoopLeavesNothing, ResultInvCorrect, PTL

-----------------------------------------------------------------------------
(***************************************************************************)
(* Two answers to one command.  An order keeps the key it was inserted     *)
(* under, and no key is given twice: so an order that is there under its   *)
(* command's key excludes that another one holds it.                       *)
(***************************************************************************)

KeysUnique ==
  \A o, p \in Orders : orders[o] # Null /\ orders[o] = orders[p] => o = p

(* Only the transaction of repo.Create writes to the table. *)
LEMMA OnlyInsertsWrite ==
  [Next]_vars =>
    \/ orders' = orders
    \/ \E r \in Replicas : /\ step[r] = "create"
                           /\ Insertable(Event(r))
                           /\ orders' = Inserted(Event(r))
BY Zenon
DEF Next, vars, handler, Proceed, Fail, Around, Claim, UnwrapFails, Crash, Handle,
    HandleFails, At, DecodeFails, Insert, InsertRefused, InsertFails, ReadBack,
    ReadBackFails, PublishResult, PublishFails

LEMMA KeysUniqueStep ==
  Loop!TypeOK /\ TypeOK /\ KeysUnique /\ [Next]_vars => KeysUnique'
<1> SUFFICES ASSUME Loop!TypeOK, TypeOK, KeysUnique, [Next]_vars
             PROVE  KeysUnique'
  OBVIOUS
<1>1. CASE orders' = orders
  BY <1>1, Zenon DEF KeysUnique
<1>2. ASSUME NEW r \in Replicas, step[r] = "create", NEW e, e = Event(r),
             Insertable(e), orders' = Inserted(e)
      PROVE  KeysUnique'
  <2>1. pc[r] = "handle"
    BY <1>2, SMT DEF TypeOK
  <2>2. OrderOf[e] \in Orders /\ KeyOf[e] \in Keys
    BY <1>2, <2>1, EventInHand, CommandsAssumption, SMT
  <2>3. \A o \in Orders :
          orders'[o] = IF o = OrderOf[e] /\ orders[o] = Null
                       THEN KeyOf[e] ELSE orders[o]
    BY <1>2, <2>2, SMT DEF Inserted, TypeOK
  <2>4. CASE orders[OrderOf[e]] # Null
    <3>1. \A o \in Orders : orders'[o] = orders[o]
      BY <2>3, <2>4, SMT
    <3> QED
      BY <3>1, Zenon DEF KeysUnique
  <2>5. CASE orders[OrderOf[e]] = Null
    <3>1. \A o \in Orders : orders[o] # KeyOf[e]
      BY <1>2, <2>5, Zenon DEF Insertable, KeyIsFree
    <3> QED
      BY <2>2, <2>3, <3>1, NullAssumption, SMT DEF KeysUnique
  <2> QED
    BY <2>4, <2>5, Zenon
<1> QED
  BY <1>1, <1>2, OnlyInsertsWrite, Zenon

LEMMA KeysUniqueCorrect == Spec => []KeysUnique
<1>1. Init => KeysUnique
  BY BeforeAssumption, SMT DEF Init, KeysUnique
<1> QED
  BY <1>1, KeysUniqueStep, LoopTyped, TypeCorrect, PTL DEF Spec

(* A saga that gets two different answers to one command, with no failing  *)
(* write or read behind them, asked for a key that another order holds:    *)
(* its order exists under a key of another command.                        *)
THEOREM AnswersContradictOnlyOnForeignKeys == Spec => []AnswersAgree
<1>1. ASSUME ResultInv, KeysUnique
      PROVE  AnswersAgree
  <2> SUFFICES ASSUME NEW e \in Events \ disturbed,
                      results[e] = {"success", "failed"}
               PROVE  orders[OrderOf[e]] \notin {KeyOf[e], Null}
    BY Zenon DEF AnswersAgree
  <2>1. orders[OrderOf[e]] # Null
    BY <1>1, SMT DEF ResultInv, SuccessIsTrue
  <2>2. PICK o \in Orders \ {OrderOf[e]} : orders[o] = KeyOf[e]
    BY <1>1, SMT DEF ResultInv, RefusalIsTrue, HeldByAnother
  <2>3. OrderOf[e] \in Orders /\ KeyOf[e] # Null
    BY CommandsAssumption, NullAssumption, SMT
  <2> QED
    BY <1>1, <2>1, <2>2, <2>3, SMT DEF KeysUnique
<1> QED
  BY <1>1, ResultInvCorrect, KeysUniqueCorrect, PTL

-----------------------------------------------------------------------------
(***************************************************************************)
(* What a stopping process cannot do.  Only failing calls of the database  *)
(* disturb an answer; a process that stops between the commit, the result  *)
(* and the claim does not, nor does a redelivery, a retry, a rebalance or  *)
(* a result that could not be published.                                   *)
(***************************************************************************)

DisturbanceNeedsFailure == failures = 0 => disturbed = {}

LEMMA DisturbanceNeedsFailureStep ==
  TypeOK /\ DisturbanceNeedsFailure /\ [Next]_vars => DisturbanceNeedsFailure'
<1> SUFFICES ASSUME TypeOK, DisturbanceNeedsFailure, [Next]_vars
             PROVE  DisturbanceNeedsFailure'
  OBVIOUS
<1>1. failures' = failures + 1 \/ UNCHANGED <<failures, disturbed>>
  BY Zenon
  DEF Next, vars, handler, Proceed, Fail, Failure, Around, Claim, UnwrapFails, Crash,
      Handle, HandleFails, DecodeFails, Insert, InsertRefused, InsertFails, ReadBack,
      ReadBackFails, PublishResult, PublishFails
<1>2. failures \in Nat
  BY BoundsAssumption, SMT DEF TypeOK
<1>3. CASE failures' = failures + 1
  BY <1>2, <1>3, SMT DEF DisturbanceNeedsFailure
<1>4. CASE UNCHANGED <<failures, disturbed>>
  BY <1>4, Zenon DEF DisturbanceNeedsFailure
<1> QED
  BY <1>1, <1>3, <1>4, Zenon

(* As long as no call of the database has failed. *)
AnswersAreTrue ==
  failures = 0 =>
    \A e \in Events :
      /\ "success" \in results[e] => orders[OrderOf[e]] # Null
      /\ "failed" \in results[e] => HeldByAnother(e)
      /\ results[e] = {"success", "failed"}
           => orders[OrderOf[e]] \notin {KeyOf[e], Null}

(* However often processes stop, and whatever is redelivered, retried,     *)
(* published twice or given to another replica: while the database         *)
(* answers, every answer a saga gets is true, and two answers to one       *)
(* command differ only when its order exists under the key of another      *)
(* command.                                                                *)
THEOREM CrashesKeepAnswersTrue == Spec => []AnswersAreTrue
<1>1. Init => DisturbanceNeedsFailure
  BY Zenon DEF Init, DisturbanceNeedsFailure
<1>2. ASSUME DisturbanceNeedsFailure, SuccessIsTrue, RefusalIsTrue, AnswersAgree
      PROVE  AnswersAreTrue
  <2> SUFFICES ASSUME failures = 0, NEW e \in Events
               PROVE  /\ "success" \in results[e] => orders[OrderOf[e]] # Null
                      /\ "failed" \in results[e] => HeldByAnother(e)
                      /\ results[e] = {"success", "failed"}
                           => orders[OrderOf[e]] \notin {KeyOf[e], Null}
    BY Zenon DEF AnswersAreTrue
  <2>1. e \in Events \ disturbed
    BY <1>2, SMT DEF DisturbanceNeedsFailure
  <2> QED
    BY <1>2, <2>1, Zenon DEF SuccessIsTrue, RefusalIsTrue, AnswersAgree
<1>3. Spec => []DisturbanceNeedsFailure
  BY <1>1, DisturbanceNeedsFailureStep, TypeCorrect, PTL DEF Spec
<1> QED
  BY <1>2, <1>3, SuccessesAreTrue, RefusalsAreTrue,
     AnswersContradictOnlyOnForeignKeys, PTL

=============================================================================
