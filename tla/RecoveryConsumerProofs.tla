------------------------ MODULE RecoveryConsumerProofs ------------------------
(***************************************************************************)
(* Proofs about RecoveryConsumer, for any members, partitions, commands,   *)
(* rebalances and faults.                                                  *)
(***************************************************************************)
EXTENDS RecoveryConsumer, TLAPS

LEMMA WorkerParts ==
  /\ \A w \in Workers : w[1] \in Members /\ w[2] \in Partitions
  /\ \A m \in Members, p \in Partitions : <<m, p>> \in Workers
  /\ \A w \in Workers : <<w[1], w[2]>> = w
BY DEF Workers

(* A new generation only takes workers whose member has none at work. *)
LEMMA GenerationStep ==
  ASSUME TypeOK, NextGeneration \/ Rebalance
  PROVE  /\ \A w \in Workers :
              \/ /\ pc'[w] = pc[w] /\ position'[w] = position[w]
              \/ /\ pc[w] = "out" /\ pc'[w] = "fetch"
                 /\ position'[w] = committed[w[2]]
         /\ owner' \in [Partitions -> Members \cup {Null}]
         /\ pc' \in [Workers -> Labels]
         /\ position' \in [Workers -> Nat]
         /\ rebalances' \in Nat
         /\ UNCHANGED <<log, committed, down, claims, results, published, faults,
                        history>>
<1>1. PICK assignment \in [Partitions -> Members] : Generation(assignment)
  BY Zenon DEF NextGeneration, Rebalance
<1>2. rebalances' = rebalances \/ rebalances' = rebalances + 1
  BY Zenon DEF NextGeneration, Rebalance
<1>3. ASSUME NEW w \in Workers, assignment[w[2]] = w[1]
      PROVE  pc[w] = "out"
  <2>1. Exited(assignment[w[2]])
    BY <1>1, WorkerParts, Zenon DEF Generation
  <2>2. pc[<<w[1], w[2]>>] = "out"
    BY <1>3, <2>1, WorkerParts, Zenon DEF Exited
  <2> QED
    BY <2>2, WorkerParts, Zenon
<1>4. /\ owner' = assignment
      /\ pc' = [w \in Workers |->
                  IF assignment[w[2]] = w[1] THEN "fetch" ELSE pc[w]]
      /\ position' = [w \in Workers |->
                  IF assignment[w[2]] = w[1] THEN committed[w[2]] ELSE position[w]]
      /\ UNCHANGED <<log, committed, down, claims, results, published, faults,
                     history>>
  BY <1>1, Zenon DEF Generation
<1>5. /\ pc \in [Workers -> Labels] /\ position \in [Workers -> Nat]
      /\ committed \in [Partitions -> Nat] /\ rebalances \in Nat
  BY Zenon DEF TypeOK
<1>6. pc' \in [Workers -> Labels] /\ position' \in [Workers -> Nat]
  BY <1>4, <1>5, WorkerParts DEF Labels
<1>7. owner' \in [Partitions -> Members \cup {Null}]
  BY <1>1, <1>4
<1>8. \A w \in Workers :
        \/ /\ pc'[w] = pc[w] /\ position'[w] = position[w]
        \/ /\ pc[w] = "out" /\ pc'[w] = "fetch"
           /\ position'[w] = committed[w[2]]
  BY <1>3, <1>4
<1>9. rebalances' \in Nat
  BY <1>2, <1>5
<1> QED
  BY <1>4, <1>6, <1>7, <1>8, <1>9

(* A process that comes back has nothing in hand. *)
LEMMA RestartStep ==
  \A m \in Members :
    Restart(m) => UNCHANGED <<log, committed, owner, pc, position, claims, results,
                              counters, history>>
BY Zenon DEF Restart

(* A busy worker has a message. *)
Busy(w) == pc[w] \notin {"out", "fetch"}

LEMMA CurrentType ==
  ASSUME TypeOK, NEW w \in Workers, Busy(w)
  PROVE  Current(w) \in Commands
<1>1. w[2] \in Partitions
  BY WorkerParts
<1>2. /\ log[w[2]] \in Seq(Commands)
      /\ position[w] \in Nat /\ position[w] <= Len(log[w[2]])
      /\ position[w] > 0
  BY <1>1 DEF TypeOK, Busy
<1>3. position[w] \in 1..Len(log[w[2]])
  BY <1>2
<1> QED
  BY <1>2, <1>3 DEF Current

(* A step of one worker that touches only its pc and the tables. *)
LEMMA WorkerTypes ==
  ASSUME TypeOK, NEW w \in Workers, NEW label \in Labels,
         pc' = [pc EXCEPT ![w] = label],
         label \in {"out", "fetch"} \/ Busy(w),
         UNCHANGED <<log, owner, down, position>>,
         committed' = committed \/ (Busy(w) /\ committed' =
                                     [committed EXCEPT ![w[2]] = position[w]]),
         claims' \in SUBSET Commands, orders' \in SUBSET Commands,
         completed' \in SUBSET Commands, dlq' \in SUBSET Commands,
         stuck' \in SUBSET Commands, dropped' \in SUBSET Commands,
         succeeded' \in [Commands -> Nat],
         published' = published, rebalances' = rebalances, faults' \in Nat
  PROVE  TypeOK'
<1> USE WorkerParts
<1>1. pc' \in [Workers -> Labels]
  BY DEF TypeOK
<1>2. /\ committed' \in [Partitions -> Nat]
      /\ \A p \in Partitions : committed'[p] <= Len(log'[p])
  BY DEF TypeOK
<1>3. \A v \in Workers :
        /\ position'[v] <= Len(log'[v[2]])
        /\ pc'[v] \notin {"out", "fetch"} => position'[v] > 0
  BY DEF TypeOK, Busy
<1> QED
  BY <1>1, <1>2, <1>3 DEF TypeOK

LEMMA TypeStep == TypeOK /\ [Next]_vars => TypeOK'
<1> SUFFICES ASSUME TypeOK, [Next]_vars
             PROVE  TypeOK'
  OBVIOUS
<1> USE DEF Goto, Fault, counters, results, history, group
<1>0. /\ claims \in SUBSET Commands /\ orders \in SUBSET Commands
      /\ completed \in SUBSET Commands /\ dlq \in SUBSET Commands
      /\ stuck \in SUBSET Commands /\ dropped \in SUBSET Commands
      /\ succeeded \in [Commands -> Nat] /\ faults \in Nat
      /\ position \in [Workers -> Nat] /\ pc \in [Workers -> Labels]
      /\ down \in SUBSET Members
  BY Zenon DEF TypeOK
<1>1. ASSUME NEW c \in Commands, NEW p \in Partitions, Publish(c, p)
      PROVE  TypeOK'
  <2>1. /\ log' = [log EXCEPT ![p] = Append(@, c)]
        /\ published' = published + 1
        /\ UNCHANGED <<committed, owner, down, pc, position, claims, results,
                       rebalances, faults, history>>
    BY <1>1, Zenon DEF Publish
  <2>2. log \in [Partitions -> Seq(Commands)] /\ published \in Nat
    BY Zenon DEF TypeOK
  <2>3. /\ log' \in [Partitions -> Seq(Commands)] /\ published' \in Nat
        /\ \A q \in Partitions : /\ Len(log[q]) \in Nat /\ Len(log'[q]) \in Nat
                                /\ Len(log[q]) <= Len(log'[q])
    BY <2>1, <2>2
  <2>4. \A q \in Partitions : committed'[q] <= Len(log'[q])
    BY <2>1, <2>3 DEF TypeOK
  <2>5. \A w \in Workers :
          /\ position'[w] <= Len(log'[w[2]])
          /\ pc'[w] \notin {"out", "fetch"} => position'[w] > 0
    BY <2>1, <2>3, WorkerParts DEF TypeOK
  <2> QED
    BY <2>1, <2>3, <2>4, <2>5, Zenon DEF TypeOK
<1>2. CASE NextGeneration \/ Rebalance
  <2>1. \A w \in Workers : position'[w] <= Len(log'[w[2]])
    BY <1>2, GenerationStep, WorkerParts DEF TypeOK
  <2> QED
    BY <1>2, <2>1, GenerationStep, WorkerParts DEF TypeOK
<1>3. ASSUME NEW w \in Workers, Fetch(w)
      PROVE  TypeOK'
  <2>1. /\ position[w] < Len(log[w[2]])
        /\ position' = [position EXCEPT ![w] = @ + 1]
        /\ pc' = [pc EXCEPT ![w] = "claim"]
        /\ UNCHANGED <<group, claims, results, counters, history>>
    BY <1>3, Zenon DEF Fetch
  <2>2. pc' \in [Workers -> Labels] /\ position' \in [Workers -> Nat]
    BY <1>0, <2>1 DEF Labels
  <2>3. log[w[2]] \in Seq(Commands)
    BY WorkerParts DEF TypeOK
  <2>4. \A v \in Workers :
          /\ position'[v] <= Len(log'[v[2]])
          /\ pc'[v] \notin {"out", "fetch"} => position'[v] > 0
    <3> SUFFICES ASSUME NEW v \in Workers
                 PROVE  /\ position'[v] <= Len(log'[v[2]])
                        /\ pc'[v] \notin {"out", "fetch"} => position'[v] > 0
      OBVIOUS
    <3>1. log' = log
      BY <2>1
    <3>2. CASE v = w
      <4>1. position'[w] = position[w] + 1 /\ position[w] \in Nat
        BY <1>0, <2>1
      <4>2. Len(log[w[2]]) \in Nat
        BY <2>3
      <4> QED
        BY <2>1, <3>1, <3>2, <4>1, <4>2
    <3>3. CASE v # w
      <4>1. position'[v] = position[v] /\ pc'[v] = pc[v]
        BY <1>0, <2>1, <3>3
      <4> QED
        BY <3>1, <4>1 DEF TypeOK
    <3> QED
      BY <3>2, <3>3
  <2> QED
    BY <2>1, <2>2, <2>4 DEF TypeOK
<1>4. ASSUME NEW w \in Workers,
             Leave(w) \/ FetchFails(w) \/ CommitRefused(w) \/ CommitFails(w)
      PROVE  TypeOK'
  <2>1. /\ pc' = [pc EXCEPT ![w] = "out"]
        /\ faults' = faults \/ faults' = faults + 1
        /\ UNCHANGED <<group, position, claims, results, published,
                       rebalances, history>>
    BY <1>4, Zenon DEF Leave, FetchFails, CommitRefused, CommitFails
  <2>2. UNCHANGED <<log, committed, owner, position>> /\ "out" \in Labels
    BY <2>1, Zenon DEF Labels
  <2>3. /\ claims' \in SUBSET Commands /\ orders' \in SUBSET Commands
        /\ completed' \in SUBSET Commands /\ dlq' \in SUBSET Commands
        /\ stuck' \in SUBSET Commands /\ dropped' \in SUBSET Commands
        /\ succeeded' \in [Commands -> Nat]
        /\ published' = published /\ rebalances' = rebalances
    BY <1>0, <2>1, Zenon
  <2>4. faults' \in Nat
    BY <1>0, <2>1
  <2> QED
    BY <2>1, <2>2, <2>3, <2>4, WorkerTypes, Zenon
<1>5. ASSUME NEW w \in Workers, NEW written \in BOOLEAN,
             Claim(w) \/ ClaimFails(w, written)
      PROVE  TypeOK'
  <2>1. /\ pc[w] = "claim"
        /\ \E label \in Labels : pc' = [pc EXCEPT ![w] = label]
        /\ claims' = claims \/ claims' = claims \cup {Current(w)}
        /\ stuck' = stuck \/ stuck' = stuck \cup {Current(w)}
        /\ faults' = faults \/ faults' = faults + 1
        /\ UNCHANGED <<group, position, results, published, rebalances,
                       succeeded, dropped>>
    <3>1. CASE Claim(w)
      BY <3>1, Zenon DEF Claim, Labels
    <3>2. CASE ClaimFails(w, written)
      BY <3>2, Zenon DEF ClaimFails, Labels
    <3> QED
      BY <1>5, <3>1, <3>2
  <2>2. Busy(w) /\ Current(w) \in Commands
    BY <2>1, CurrentType DEF Busy
  <2>3. UNCHANGED <<log, committed, owner, position>>
    BY <2>1, Zenon
  <2>4. /\ orders' \in SUBSET Commands /\ completed' \in SUBSET Commands
        /\ dlq' \in SUBSET Commands /\ dropped' \in SUBSET Commands
        /\ succeeded' \in [Commands -> Nat]
        /\ published' = published /\ rebalances' = rebalances
    BY <1>0, <2>1, Zenon
  <2>5. /\ claims' \in SUBSET Commands /\ stuck' \in SUBSET Commands
        /\ faults' \in Nat
    BY <1>0, <2>1, <2>2
  <2> QED
    BY <2>1, <2>2, <2>3, <2>4, <2>5, WorkerTypes, Zenon
<1>6. ASSUME NEW w \in Workers, Handle(w)
      PROVE  TypeOK'
  <2> DEFINE Touched ==
        /\ pc[w] \in {"handle", "complete"}
        /\ \E label \in Labels : pc' = [pc EXCEPT ![w] = label]
        /\ claims' = claims \/ claims' = claims \ {Current(w)}
        /\ stuck' = stuck \/ stuck' = stuck \cup {Current(w)}
        /\ orders' = orders \/ orders' = orders \cup {Current(w)}
        /\ completed' = completed \/ completed' = completed \cup {Current(w)}
        /\ \/ succeeded' = succeeded
           \/ succeeded' = [succeeded EXCEPT ![Current(w)] = @ + 1]
        /\ UNCHANGED <<group, position, dlq, counters, dropped>>
  <2>1. Touched
    <3>1. CASE CreateDraft(w)
      BY <3>1, Zenon DEF CreateDraft, Labels
    <3>2. CASE Complete(w)
      BY <3>2, Zenon DEF Complete, Labels
    <3>3. CASE UnwrapFails(w)
      BY <3>3, Zenon DEF UnwrapFails, Labels
    <3>4. ASSUME NEW released \in BOOLEAN, HandlerFails(w, released)
          PROVE  Touched
      BY <3>4, Zenon DEF HandlerFails, Labels
    <3> QED
      BY <1>6, <3>1, <3>2, <3>3, <3>4, Zenon DEF Handle
  <2>2. Busy(w) /\ Current(w) \in Commands
    BY <2>1, CurrentType DEF Busy
  <2>3. succeeded' \in [Commands -> Nat]
    BY <1>0, <2>1, <2>2
  <2> QED
    BY <1>0, <2>1, <2>2, <2>3, WorkerTypes
<1>7. ASSUME NEW w \in Workers, CompleteUnanswered(w)
      PROVE  TypeOK'
  <2>1. /\ pc[w] = "complete"
        /\ completed' = completed \cup {Current(w)}
        /\ faults' = faults + 1
        /\ UNCHANGED <<group, pc, position, claims, orders, dlq, published,
                       rebalances, history>>
    BY <1>7, Zenon DEF CompleteUnanswered
  <2>2. Current(w) \in Commands
    BY <2>1, CurrentType DEF Busy
  <2> QED
    BY <1>0, <2>1, <2>2 DEF TypeOK
<1>8. ASSUME NEW w \in Workers, DeadLetter(w) \/ DeadLetterFails(w)
      PROVE  TypeOK'
  <2>1. /\ pc[w] = "deadletter"
        /\ pc' = [pc EXCEPT ![w] = "commit"]
        /\ dlq' = dlq \/ dlq' = dlq \cup {Current(w)}
        /\ dropped' = dropped \/ dropped' = dropped \cup {Current(w)}
        /\ faults' = faults \/ faults' = faults + 1
        /\ UNCHANGED <<group, position, claims, orders, completed, published,
                       rebalances, succeeded, stuck>>
    BY <1>8, Zenon DEF DeadLetter, DeadLetterFails
  <2>2. Busy(w) /\ Current(w) \in Commands
    BY <2>1, CurrentType DEF Busy
  <2>3. /\ UNCHANGED <<log, committed, owner, position>>
        /\ "commit" \in Labels
    BY <2>1, Zenon DEF Labels
  <2>4. /\ claims' \in SUBSET Commands /\ orders' \in SUBSET Commands
        /\ completed' \in SUBSET Commands /\ stuck' \in SUBSET Commands
        /\ succeeded' \in [Commands -> Nat]
        /\ published' = published /\ rebalances' = rebalances
    BY <1>0, <2>1, Zenon
  <2>5. /\ dlq' \in SUBSET Commands /\ dropped' \in SUBSET Commands
        /\ faults' \in Nat
    BY <1>0, <2>1, <2>2
  <2> QED
    BY <2>1, <2>2, <2>3, <2>4, <2>5, WorkerTypes, Zenon
<1>9. ASSUME NEW w \in Workers, Commit(w)
      PROVE  TypeOK'
  <2>1. /\ pc[w] = "commit"
        /\ pc' = [pc EXCEPT ![w] = "fetch"]
        /\ committed' = [committed EXCEPT ![w[2]] = position[w]]
        /\ UNCHANGED <<log, owner, down, position, claims, results, counters,
                       history>>
    BY <1>9, Zenon DEF Commit
  <2> QED
    BY <1>0, <2>1, WorkerTypes DEF Labels, Busy
<1>10. ASSUME NEW m \in Members, Crash(m)
       PROVE  TypeOK'
  <2>1. /\ pc' = [w \in Workers |-> IF w[1] = m THEN "out" ELSE pc[w]]
        /\ stuck' = stuck \cup {Current(<<m, p>>) : p \in
              {p \in Partitions : pc[<<m, p>>] \in {"handle", "complete"}}}
        /\ dropped' = dropped \cup {Current(<<m, p>>) : p \in
              {p \in Partitions : pc[<<m, p>>] = "deadletter"}}
        /\ faults' = faults + 1
        /\ down' = down \cup {m}
        /\ UNCHANGED <<log, committed, owner, position, claims, results, published,
                       rebalances, succeeded>>
    BY <1>10, Zenon DEF Crash
  <2>2. \A p \in Partitions :
          Busy(<<m, p>>) => Current(<<m, p>>) \in Commands
    BY CurrentType, WorkerParts
  <2>3. stuck' \in SUBSET Commands /\ dropped' \in SUBSET Commands
    BY <1>0, <2>1, <2>2 DEF Busy
  <2>4. /\ pc' \in [Workers -> Labels]
        /\ \A w \in Workers : pc'[w] = pc[w] \/ pc'[w] = "out"
    BY <1>0, <2>1 DEF Labels
  <2> QED
    <3>1. /\ UNCHANGED <<log, committed, owner, position, claims, orders>>
          /\ UNCHANGED <<completed, dlq, published, rebalances, succeeded>>
      BY <2>1, Zenon
    <3>2. faults' \in Nat /\ down' \in SUBSET Members
      BY <1>0, <2>1
    <3>3. \A v \in Workers :
            /\ position'[v] <= Len(log'[v[2]])
            /\ pc'[v] \notin {"out", "fetch"} => position'[v] > 0
      BY <2>4, <3>1 DEF TypeOK
    <3> QED
      BY <2>3, <2>4, <3>1, <3>2, <3>3 DEF TypeOK
<1>11. ASSUME NEW m \in Members, Restart(m)
       PROVE  TypeOK'
  <2>1. UNCHANGED <<log, committed, owner, pc, position, claims, results, counters,
                    history>>
    BY <1>11, RestartStep, Zenon
  <2>2. down' \in SUBSET Members
    BY <1>0, <1>11 DEF Restart
  <2> QED
    BY <2>1, <2>2, Zenon DEF TypeOK
<1>12. CASE UNCHANGED vars
  BY <1>12, Zenon DEF vars, TypeOK
<1> QED
  BY <1>1, <1>2, <1>3, <1>4, <1>5, <1>6, <1>7, <1>8, <1>9, <1>10, <1>11, <1>12,
     Zenon DEF Next, Proceed

(* Type correctness: offsets stay within the log, and a worker that is     *)
(* busy has a message.                                                     *)
THEOREM TypeCorrect == Spec => []TypeOK
<1>1. Init => TypeOK
  BY WorkerParts DEF Init, TypeOK, Labels
<1> QED
  BY <1>1, TypeStep, PTL DEF Spec

-----------------------------------------------------------------------------
(* Claims.                                                                 *)

Hand(w) == pc[w] \in {"handle", "complete"}

(* A success holds the claim of its command; a command in a hand is        *)
(* claimed, in no other hand, and was not handled before; every claim has  *)
(* its reason.                                                             *)
ClaimInv ==
  /\ \A c \in Commands : succeeded[c] = 0 \/ (succeeded[c] = 1 /\ c \in claims)
  /\ \A w \in Workers :
       Hand(w) => Current(w) \in claims /\ succeeded[Current(w)] = 0
  /\ \A v, w \in Workers :
       v # w /\ Hand(v) /\ Hand(w) => Current(v) # Current(w)
  /\ \A c \in claims :
       succeeded[c] = 1 \/ c \in stuck
         \/ \E w \in Workers : Hand(w) /\ Current(w) = c

(* Publishing, generations and fetches leave the busy workers' messages.   *)
LEMMA HandsKept ==
  ASSUME TypeOK, [Next]_vars, NEW w \in Workers, Busy(w)
  PROVE  Current(w)' = Current(w)
<1> USE DEF Goto, Fault, counters, results, history, group
<1>0. /\ w[2] \in Partitions /\ position \in [Workers -> Nat]
      /\ log \in [Partitions -> Seq(Commands)]
      /\ position[w] > 0 /\ position[w] <= Len(log[w[2]])
  BY WorkerParts DEF TypeOK, Busy
<1>1. ASSUME NEW c \in Commands, NEW p \in Partitions, Publish(c, p)
      PROVE  Current(w)' = Current(w)
  <2>1. /\ log' = [log EXCEPT ![p] = Append(@, c)] /\ position' = position
    BY <1>1, Zenon DEF Publish
  <2>2. log'[w[2]][position[w]] = log[w[2]][position[w]]
    BY <1>0, <2>1
  <2> QED
    BY <2>1, <2>2 DEF Current
<1>2. CASE NextGeneration \/ Rebalance
  BY <1>2, GenerationStep, Zenon DEF Current, Busy
<1>3. ASSUME NEW v \in Workers, Fetch(v)
      PROVE  Current(w)' = Current(w)
  <2>1. /\ pc[v] = "fetch" /\ log' = log
        /\ position' = [position EXCEPT ![v] = @ + 1]
    BY <1>3, Zenon DEF Fetch
  <2>2. v # w
    BY <2>1 DEF Busy
  <2>3. position'[w] = position[w]
    BY <1>0, <2>1, <2>2
  <2> QED
    BY <2>1, <2>3 DEF Current
<1>4. CASE UNCHANGED <<log, position>>
  BY <1>4 DEF Current
<1>5. ASSUME NEW v \in Workers,
             Proceed(v) \/ FetchFails(v) \/ CompleteUnanswered(v)
               \/ DeadLetterFails(v) \/ CommitFails(v)
               \/ \E written \in BOOLEAN : ClaimFails(v, written)
      PROVE  Fetch(v) \/ UNCHANGED <<log, position>>
  <2>1. CASE Leave(v) \/ Claim(v) \/ Handle(v) \/ DeadLetter(v) \/ Commit(v)
               \/ CommitRefused(v)
    BY <2>1, Zenon DEF Leave, Claim, Handle, CreateDraft, Complete, UnwrapFails,
         HandlerFails, DeadLetter, Commit, CommitRefused
  <2>2. CASE FetchFails(v) \/ CompleteUnanswered(v) \/ DeadLetterFails(v)
               \/ CommitFails(v)
               \/ \E written \in BOOLEAN : ClaimFails(v, written)
    BY <2>2, Zenon DEF FetchFails, CompleteUnanswered, DeadLetterFails,
         CommitFails, ClaimFails
  <2> QED
    BY <1>5, <2>1, <2>2, Zenon DEF Proceed
<1>6. ASSUME NEW m \in Members, Crash(m) \/ Restart(m)
      PROVE  UNCHANGED <<log, position>>
  BY <1>6, Zenon DEF Crash, Restart
<1>7. CASE UNCHANGED vars
  BY <1>4, <1>7 DEF vars
<1> QED
  BY <1>1, <1>2, <1>3, <1>4, <1>5, <1>6, <1>7, Zenon DEF Next

(* Hands may only be emptied, and what they held is stuck; so is what is   *)
(* newly claimed.                                                          *)
LEMMA ClaimsKept ==
  ASSUME TypeOK, ClaimInv, [Next]_vars,
         \A w \in Workers : Hand(w)' => Hand(w),
         \A w \in Workers : Hand(w) => Hand(w)' \/ Current(w) \in stuck',
         claims \subseteq claims', claims' \ claims \subseteq stuck',
         stuck \subseteq stuck', succeeded' = succeeded
  PROVE  ClaimInv'
<1>1. \A w \in Workers : Hand(w) => Current(w)' = Current(w)
  BY HandsKept DEF Hand, Busy
<1>2. \A c \in Commands : succeeded'[c] = 0 \/ (succeeded'[c] = 1 /\ c \in claims')
  BY DEF ClaimInv
<1>3. \A w \in Workers :
        Hand(w)' => Current(w)' \in claims' /\ succeeded'[Current(w)'] = 0
  BY <1>1 DEF ClaimInv
<1>4. \A v, w \in Workers :
        v # w /\ Hand(v)' /\ Hand(w)' => Current(v)' # Current(w)'
  BY <1>1 DEF ClaimInv
<1>5. ASSUME NEW c \in claims', c \notin stuck'
      PROVE  succeeded'[c] = 1
               \/ \E w \in Workers : Hand(w)' /\ Current(w)' = c
  BY <1>1, <1>5 DEF ClaimInv
<1> QED
  BY <1>2, <1>3, <1>4, <1>5 DEF ClaimInv

LEMMA ClaimStep == TypeOK /\ ClaimInv /\ [Next]_vars => ClaimInv'
<1> SUFFICES ASSUME TypeOK, ClaimInv, [Next]_vars
             PROVE  ClaimInv'
  OBVIOUS
<1> USE DEF Goto, Fault, counters, results, history, group
<1>0. pc \in [Workers -> Labels] /\ succeeded \in [Commands -> Nat]
  BY Zenon DEF TypeOK
<1> DEFINE HandsSame == \A w \in Workers : Hand(w)' <=> Hand(w)
           RecordsSame == UNCHANGED <<claims, succeeded, stuck>>
<1>a. CASE HandsSame /\ RecordsSame
  BY <1>a, ClaimsKept
(* A worker that held nothing before its step and holds nothing after. *)
<1>b. ASSUME NEW w \in Workers, ~Hand(w), NEW label \in Labels,
             label \notin {"handle", "complete"},
             pc' = [pc EXCEPT ![w] = label]
      PROVE  HandsSame
  BY <1>0, <1>b DEF Hand
<1>1. ASSUME NEW c \in Commands, NEW p \in Partitions, Publish(c, p)
      PROVE  ClaimInv'
  BY <1>1, <1>a, Zenon DEF Publish, Hand
<1>2. CASE NextGeneration \/ Rebalance
  <2>1. RecordsSame
    BY <1>2, GenerationStep, Zenon
  <2>2. HandsSame
    BY <1>2, GenerationStep DEF Hand
  <2> QED
    BY <1>a, <2>1, <2>2
<1>3. ASSUME NEW w \in Workers,
             \/ Fetch(w) \/ Leave(w) \/ FetchFails(w) \/ CommitRefused(w)
             \/ CommitFails(w) \/ Commit(w) \/ DeadLetter(w)
             \/ DeadLetterFails(w) \/ CompleteUnanswered(w)
      PROVE  ClaimInv'
  <2>1. CASE Fetch(w)
    <3>1. pc[w] = "fetch" /\ pc' = [pc EXCEPT ![w] = "claim"] /\ RecordsSame
      BY <2>1, Zenon DEF Fetch
    <3> QED
      BY <1>a, <1>b, <3>1 DEF Hand, Labels
  <2>2. CASE Leave(w) \/ FetchFails(w)
    <3>1. pc[w] = "fetch" /\ pc' = [pc EXCEPT ![w] = "out"] /\ RecordsSame
      BY <2>2, Zenon DEF Leave, FetchFails
    <3> QED
      BY <1>a, <1>b, <3>1 DEF Hand, Labels
  <2>3. CASE CommitRefused(w) \/ CommitFails(w)
    <3>1. pc[w] = "commit" /\ pc' = [pc EXCEPT ![w] = "out"] /\ RecordsSame
      BY <2>3, Zenon DEF CommitRefused, CommitFails
    <3> QED
      BY <1>a, <1>b, <3>1 DEF Hand, Labels
  <2>4. CASE Commit(w)
    <3>1. pc[w] = "commit" /\ pc' = [pc EXCEPT ![w] = "fetch"] /\ RecordsSame
      BY <2>4, Zenon DEF Commit
    <3> QED
      BY <1>a, <1>b, <3>1 DEF Hand, Labels
  <2>5. CASE DeadLetter(w) \/ DeadLetterFails(w)
    <3>1. pc[w] = "deadletter" /\ pc' = [pc EXCEPT ![w] = "commit"] /\ RecordsSame
      BY <2>5, Zenon DEF DeadLetter, DeadLetterFails
    <3> QED
      BY <1>a, <1>b, <3>1 DEF Hand, Labels
  <2>6. CASE CompleteUnanswered(w)
    BY <1>a, <2>6, Zenon DEF CompleteUnanswered, Hand
  <2> QED
    BY <1>3, <2>1, <2>2, <2>3, <2>4, <2>5, <2>6
<1>4. ASSUME NEW w \in Workers, Claim(w)
      PROVE  ClaimInv'
  <2>1. /\ pc[w] = "claim"
        /\ claims' = claims \cup {Current(w)}
        /\ pc' = [pc EXCEPT ![w] =
                    IF Current(w) \in claims THEN "commit" ELSE "handle"]
        /\ UNCHANGED <<succeeded, stuck>>
    BY <1>4, Zenon DEF Claim
  <2>2. CASE Current(w) \in claims
    <3>1. pc' = [pc EXCEPT ![w] = "commit"] /\ claims' = claims
      BY <2>1, <2>2
    <3> QED
      BY <1>a, <1>b, <2>1, <3>1 DEF Hand, Labels
  <2>3. CASE Current(w) \notin claims
    <3>1. pc' = [pc EXCEPT ![w] = "handle"]
      BY <2>1, <2>3
    <3>2. Current(w) \in Commands /\ succeeded[Current(w)] = 0
      BY <2>1, <2>3, CurrentType DEF ClaimInv, Busy
    <3>3. \A v \in Workers :
            /\ Hand(v)' <=> Hand(v) \/ v = w
            /\ Hand(v) => v # w /\ Current(v) # Current(w)
      BY <1>0, <2>1, <2>3, <3>1 DEF Hand, ClaimInv
    <3>4. \A v \in Workers : Hand(v)' => Current(v)' = Current(v)
      BY <2>1, <3>3, HandsKept DEF Busy, Hand
    <3>5. \A c \in Commands : succeeded'[c] = 0 \/ (succeeded'[c] = 1 /\ c \in claims')
      BY <2>1 DEF ClaimInv
    <3>6. \A v \in Workers :
            Hand(v)' => Current(v)' \in claims' /\ succeeded'[Current(v)'] = 0
      BY <2>1, <3>2, <3>3, <3>4 DEF ClaimInv
    <3>7. \A u, v \in Workers :
            u # v /\ Hand(u)' /\ Hand(v)' => Current(u)' # Current(v)'
      BY <3>3, <3>4 DEF ClaimInv
    <3>8. \A c \in claims' :
            succeeded'[c] = 1 \/ c \in stuck'
              \/ \E v \in Workers : Hand(v)' /\ Current(v)' = c
      BY <2>1, <3>3, <3>4 DEF ClaimInv
    <3> QED
      BY <3>5, <3>6, <3>7, <3>8 DEF ClaimInv
  <2> QED
    BY <2>2, <2>3
<1>5. ASSUME NEW w \in Workers, NEW written \in BOOLEAN, ClaimFails(w, written)
      PROVE  ClaimInv'
  <2>1. /\ pc[w] = "claim" /\ pc' = [pc EXCEPT ![w] = "out"]
        /\ succeeded' = succeeded
    BY <1>5, Zenon DEF ClaimFails
  <2>2. \/ claims' = claims /\ stuck' = stuck
        \/ claims' = claims \cup {Current(w)} /\ stuck' = stuck \cup {Current(w)}
    BY <1>5, Zenon DEF ClaimFails
  <2>3. HandsSame
    BY <1>b, <2>1 DEF Hand, Labels
  <2>4. /\ claims \subseteq claims' /\ claims' \ claims \subseteq stuck'
        /\ stuck \subseteq stuck'
    BY <2>2
  <2> QED
    BY <2>1, <2>3, <2>4, ClaimsKept
<1>6. ASSUME NEW w \in Workers, CreateDraft(w)
      PROVE  ClaimInv'
  <2>1. /\ pc[w] = "handle" /\ pc' = [pc EXCEPT ![w] = "complete"]
        /\ RecordsSame
    BY <1>6, Zenon DEF CreateDraft
  <2>2. HandsSame
    BY <1>0, <2>1 DEF Hand
  <2> QED
    BY <1>a, <2>1, <2>2
<1>7. ASSUME NEW w \in Workers, Complete(w)
      PROVE  ClaimInv'
  <2>1. /\ pc[w] = "complete" /\ pc' = [pc EXCEPT ![w] = "commit"]
        /\ succeeded' = [succeeded EXCEPT ![Current(w)] = @ + 1]
        /\ UNCHANGED <<claims, stuck>>
    BY <1>7, Zenon DEF Complete
  <2>2. /\ Current(w) \in Commands /\ Current(w) \in claims
        /\ succeeded[Current(w)] = 0
    BY <2>1, CurrentType DEF ClaimInv, Busy, Hand
  <2>3. \A v \in Workers :
          Hand(v)' => v # w /\ Hand(v) /\ Current(v) # Current(w)
    BY <1>0, <2>1 DEF Hand, ClaimInv
  <2>4. \A v \in Workers : Hand(v) /\ v # w => Hand(v)'
    BY <1>0, <2>1 DEF Hand
  <2>5. \A v \in Workers : Hand(v) => Current(v)' = Current(v)
    BY HandsKept DEF Busy, Hand
  <2>6. /\ \A c \in Commands \ {Current(w)} : succeeded'[c] = succeeded[c]
        /\ succeeded'[Current(w)] = 1
    BY <1>0, <2>1, <2>2
  <2>7. \A c \in Commands : succeeded'[c] = 0 \/ (succeeded'[c] = 1 /\ c \in claims')
    BY <2>1, <2>2, <2>6 DEF ClaimInv
  <2>8. \A v \in Workers :
          Hand(v)' => Current(v)' \in claims' /\ succeeded'[Current(v)'] = 0
    <3>1. \A v \in Workers : Hand(v) => Current(v) \in Commands
      BY CurrentType DEF Busy, Hand
    <3> QED
      BY <2>1, <2>3, <2>5, <2>6, <3>1 DEF ClaimInv
  <2>9. \A u, v \in Workers :
          u # v /\ Hand(u)' /\ Hand(v)' => Current(u)' # Current(v)'
    BY <2>3, <2>5 DEF ClaimInv
  <2>10. ASSUME NEW c \in claims', c \notin stuck'
         PROVE  succeeded'[c] = 1
                  \/ \E v \in Workers : Hand(v)' /\ Current(v)' = c
    <3>1. c \in Commands
      BY <2>1 DEF TypeOK
    <3> QED
      BY <2>1, <2>4, <2>5, <2>6, <2>10, <3>1 DEF ClaimInv
  <2> QED
    BY <2>7, <2>8, <2>9, <2>10 DEF ClaimInv
<1>8. ASSUME NEW w \in Workers, UnwrapFails(w)
      PROVE  ClaimInv'
  <2>1. /\ pc[w] = "handle" /\ pc' = [pc EXCEPT ![w] = "out"]
        /\ stuck' = stuck \cup {Current(w)}
        /\ UNCHANGED <<claims, succeeded>>
    BY <1>8, Zenon DEF UnwrapFails
  <2>2. \A v \in Workers :
          /\ Hand(v)' => Hand(v)
          /\ Hand(v) => Hand(v)' \/ v = w
    BY <1>0, <2>1 DEF Hand
  <2> QED
    BY <2>1, <2>2, ClaimsKept
<1>9. ASSUME NEW w \in Workers, NEW released \in BOOLEAN,
             HandlerFails(w, released)
      PROVE  ClaimInv'
  <2>1. /\ Hand(w) /\ pc' = [pc EXCEPT ![w] = "deadletter"]
        /\ succeeded' = succeeded
    BY <1>9, Zenon DEF HandlerFails, Hand
  <2>2. \A v \in Workers : Hand(v)' <=> Hand(v) /\ v # w
    BY <1>0, <2>1 DEF Hand
  <2>3. CASE ~released
    <3>1. claims' = claims /\ stuck' = stuck \cup {Current(w)}
      BY <1>9, <2>3, Zenon DEF HandlerFails
    <3> QED
      BY <2>1, <2>2, <3>1, ClaimsKept
  <2>4. CASE released
    <3>1. claims' = claims \ {Current(w)} /\ stuck' = stuck
      BY <1>9, <2>4, Zenon DEF HandlerFails
    <3>2. succeeded[Current(w)] = 0
      BY <2>1 DEF ClaimInv
    <3>3. \A v \in Workers : Hand(v) => Current(v)' = Current(v)
      BY HandsKept DEF Busy, Hand
    <3>4. \A c \in Commands : succeeded'[c] = 0 \/ (succeeded'[c] = 1 /\ c \in claims')
      BY <2>1, <3>1, <3>2 DEF ClaimInv
    <3>5. \A v \in Workers :
            Hand(v)' => Current(v)' \in claims' /\ succeeded'[Current(v)'] = 0
      BY <2>1, <2>2, <3>1, <3>3 DEF ClaimInv
    <3>6. \A u, v \in Workers :
            u # v /\ Hand(u)' /\ Hand(v)' => Current(u)' # Current(v)'
      BY <2>2, <3>3 DEF ClaimInv
    <3>7. \A c \in claims' :
            succeeded'[c] = 1 \/ c \in stuck'
              \/ \E v \in Workers : Hand(v)' /\ Current(v)' = c
      BY <2>1, <2>2, <3>1, <3>3 DEF ClaimInv
    <3> QED
      BY <3>4, <3>5, <3>6, <3>7 DEF ClaimInv
  <2> QED
    BY <2>3, <2>4
<1>10. ASSUME NEW m \in Members, Crash(m)
       PROVE  ClaimInv'
  <2>1. /\ pc' = [w \in Workers |-> IF w[1] = m THEN "out" ELSE pc[w]]
        /\ stuck' = stuck \cup {Current(<<m, p>>) : p \in
              {p \in Partitions : pc[<<m, p>>] \in {"handle", "complete"}}}
        /\ UNCHANGED <<claims, succeeded>>
    BY <1>10, Zenon DEF Crash
  <2>2. \A w \in Workers :
          /\ Hand(w)' => Hand(w)
          /\ Hand(w) => Hand(w)' \/ w[1] = m
    BY <1>0, <2>1 DEF Hand
  <2>3. ASSUME NEW w \in Workers, Hand(w), w[1] = m
        PROVE  Current(w) \in stuck'
    <3>1. w[2] \in Partitions /\ <<m, w[2]>> = w
      BY <2>3, WorkerParts
    <3>2. w[2] \in {p \in Partitions : pc[<<m, p>>] \in {"handle", "complete"}}
      BY <2>3, <3>1 DEF Hand
    <3>3. Current(w) = Current(<<m, w[2]>>)
      BY <3>1
    <3> QED
      BY <2>1, <3>2, <3>3
  <2> QED
    BY <2>1, <2>2, <2>3, ClaimsKept
<1>11. ASSUME UNCHANGED vars \/ \E m \in Members : Restart(m)
       PROVE  ClaimInv'
  BY <1>a, <1>11, RestartStep, Zenon DEF vars, Hand
<1> QED
  BY <1>1, <1>2, <1>3, <1>4, <1>5, <1>6, <1>7, <1>8, <1>9, <1>10, <1>11,
     Zenon DEF Next, Proceed, Handle

LEMMA ClaimInvariant == Spec => []ClaimInv
<1>1. Init => ClaimInv
  BY DEF Init, ClaimInv, Hand
<1> QED
  BY <1>1, TypeCorrect, ClaimStep, PTL DEF Spec

(* Every claim has its reason, and no two workers handle one command.      *)
THEOREM ClaimsAreExplained == Spec => []ClaimsExplained
<1>1. ClaimInv => ClaimsExplained
  BY DEF ClaimInv, ClaimsExplained, Handling, Hand
<1> QED
  BY <1>1, ClaimInvariant, PTL

-----------------------------------------------------------------------------
(* Losses.                                                                 *)

Accounted(c) == Settled(c) \/ \E w \in Workers : Handling(w, c) \/ Burying(w, c)

(* What a success stands for. *)
ResultInv ==
  /\ \A c \in Commands : succeeded[c] = 1 => c \in orders /\ c \in completed
  /\ \A w \in Workers : pc[w] = "complete" => Current(w) \in orders

(* How far a worker is through its partition, the message in hand excepted *)
(* until it is dealt with. *)
Done(w) == IF pc[w] \in {"fetch", "commit"} THEN position[w] ELSE position[w] - 1

(* All that is committed is accounted for, and all that a worker has done, *)
(* which is what it will commit.                                           *)
LossInv ==
  /\ \A p \in Partitions, i \in Nat, c \in Commands :
       i \in 1..committed[p] /\ log[p][i] = c => Accounted(c)
  /\ \A w \in Workers, i \in Nat, c \in Commands :
       pc[w] # "out" /\ i \in 1..Done(w) /\ log[w[2]][i] = c => Accounted(c)

(* Messages stay where they are. *)
LEMMA LogGrows ==
  ASSUME TypeOK, [Next]_vars, NEW p \in Partitions, NEW i \in 1..Len(log[p])
  PROVE  i \in 1..Len(log'[p]) /\ log'[p][i] = log[p][i]
<1> USE DEF counters, results, history, group
<1>1. CASE log' = log
  BY <1>1
<1>2. ASSUME NEW c \in Commands, NEW q \in Partitions, Publish(c, q)
      PROVE  i \in 1..Len(log'[p]) /\ log'[p][i] = log[p][i]
  <2>1. log' = [log EXCEPT ![q] = Append(@, c)]
    BY <1>2, Zenon DEF Publish
  <2>2. log \in [Partitions -> Seq(Commands)]
    BY DEF TypeOK
  <2>3. log'[p] = log[p] \/ log'[p] = Append(log[p], c)
    BY <2>1, <2>2
  <2>4. log[p] \in Seq(Commands)
    BY <2>2
  <2> QED
    BY <2>3, <2>4
<1>3. CASE NextGeneration \/ Rebalance
  BY <1>1, <1>3, GenerationStep, Zenon
<1>4. ASSUME NEW w \in Workers, Proceed(w)
      PROVE  log' = log
  BY <1>4, Zenon DEF Proceed, Handle, Fetch, Leave, Claim, CreateDraft, Complete,
     UnwrapFails, HandlerFails, DeadLetter, Commit, CommitRefused
<1>5. ASSUME NEW w \in Workers,
             FetchFails(w) \/ CompleteUnanswered(w) \/ DeadLetterFails(w)
               \/ CommitFails(w) \/ \E written \in BOOLEAN : ClaimFails(w, written)
      PROVE  log' = log
  BY <1>5, Zenon DEF FetchFails, CompleteUnanswered, DeadLetterFails, CommitFails,
     ClaimFails
<1>6. ASSUME NEW m \in Members, Crash(m) \/ Restart(m)
      PROVE  log' = log
  BY <1>6, Zenon DEF Crash, Restart
<1>7. CASE UNCHANGED vars
  BY <1>7, Zenon DEF vars
<1> QED
  BY <1>1, <1>2, <1>3, <1>4, <1>5, <1>6, <1>7, Zenon DEF Next

(* What one step does to the worker w: it says where each message goes.    *)
Moves(w) ==
  \/ pc'[w] = pc[w] /\ position'[w] = position[w]
  \/ pc[w] = "out" /\ pc'[w] = "fetch" /\ position'[w] = committed[w[2]]
  \/ pc[w] = "fetch" /\ pc'[w] = "claim" /\ position'[w] = position[w] + 1
  \/ /\ pc[w] = "claim" /\ pc'[w] = "commit" /\ position'[w] = position[w]
     /\ Current(w) \in claims
  \/ /\ pc[w] = "claim" /\ pc'[w] = "handle" /\ position'[w] = position[w]
  \/ /\ pc[w] = "handle" /\ pc'[w] = "complete" /\ position'[w] = position[w]
     /\ Current(w) \in orders'
  \/ /\ pc[w] = "complete" /\ pc'[w] = "commit" /\ position'[w] = position[w]
     /\ Current(w) \in completed'
  \/ /\ pc[w] \in {"handle", "complete"} /\ pc'[w] = "deadletter"
     /\ position'[w] = position[w]
  \/ /\ pc[w] \in {"handle", "complete"} /\ pc'[w] = "out"
     /\ Current(w) \in stuck'
  \/ /\ pc[w] = "deadletter" /\ pc'[w] = "commit" /\ position'[w] = position[w]
     /\ Current(w) \in dlq' \cup dropped'
  \/ /\ pc[w] = "deadletter" /\ pc'[w] = "out" /\ Current(w) \in dropped'
  \/ pc[w] = "commit" /\ pc'[w] = "fetch" /\ position'[w] = position[w]
  \/ pc[w] \in {"out", "fetch", "claim", "commit"} /\ pc'[w] = "out"

Grow ==
  /\ orders \subseteq orders' /\ completed \subseteq completed'
  /\ dlq \subseteq dlq' /\ stuck \subseteq stuck' /\ dropped \subseteq dropped'

CommitsMove ==
  \A p \in Partitions :
    \/ committed'[p] = committed[p]
    \/ \E w \in Workers :
         w[2] = p /\ pc[w] = "commit" /\ committed'[p] = position[w]

SuccessMoves ==
  \A c \in Commands : succeeded'[c] = 1 =>
    \/ succeeded[c] = 1
    \/ \E w \in Workers :
         pc[w] = "complete" /\ Current(w) = c /\ c \in completed'

LEMMA StepMoves ==
  ASSUME TypeOK, [Next]_vars
  PROVE  /\ \A w \in Workers : Moves(w)
         /\ Grow /\ CommitsMove /\ SuccessMoves
<1> USE DEF Goto, Fault, counters, results, history, group
<1>0. /\ pc \in [Workers -> Labels] /\ position \in [Workers -> Nat]
      /\ committed \in [Partitions -> Nat] /\ succeeded \in [Commands -> Nat]
  BY Zenon DEF TypeOK
<1> DEFINE Goal == /\ \A w \in Workers : Moves(w)
                   /\ Grow /\ CommitsMove /\ SuccessMoves
           Others(w) == \A v \in Workers \ {w} :
                          pc'[v] = pc[v] /\ position'[v] = position[v]
(* A step of one worker that commits nothing and does not end with success. *)
<1>a. ASSUME NEW w \in Workers, Others(w), Moves(w), Grow,
             UNCHANGED <<committed, succeeded>>
      PROVE  Goal
  BY <1>a DEF Moves, CommitsMove, SuccessMoves
<1>b. ASSUME NEW w \in Workers, NEW label \in Labels,
             pc' = [pc EXCEPT ![w] = label], position' = position
      PROVE  Others(w) /\ pc'[w] = label
  BY <1>0, <1>b
<1>1. CASE UNCHANGED <<pc, position, committed, succeeded>> /\ Grow
  BY <1>1 DEF Moves, CommitsMove, SuccessMoves
<1>2. ASSUME NEW c \in Commands, NEW p \in Partitions, Publish(c, p)
      PROVE  Goal
  <2>1. UNCHANGED <<pc, position, committed, succeeded, orders, completed, dlq,
                    stuck, dropped>>
    BY <1>2, Zenon DEF Publish
  <2> QED
    BY <1>1, <2>1 DEF Grow
<1>3. CASE NextGeneration \/ Rebalance
  <2>1. UNCHANGED <<committed, succeeded, orders, completed, dlq, stuck, dropped>>
    BY <1>3, GenerationStep, Zenon
  <2>2. \A w \in Workers : Moves(w)
    BY <1>3, GenerationStep, Zenon DEF Moves
  <2> QED
    BY <2>1, <2>2 DEF Grow, CommitsMove, SuccessMoves
<1>4. ASSUME NEW w \in Workers, Fetch(w)
      PROVE  Goal
  <2>1. /\ pc[w] = "fetch" /\ pc' = [pc EXCEPT ![w] = "claim"]
        /\ position' = [position EXCEPT ![w] = @ + 1]
        /\ UNCHANGED <<committed, succeeded, orders, completed, dlq, stuck, dropped>>
    BY <1>4, Zenon DEF Fetch
  <2>2. Others(w) /\ Moves(w)
    BY <1>0, <2>1 DEF Moves
  <2> QED
    BY <1>a, <2>1, <2>2 DEF Grow
<1>5. ASSUME NEW w \in Workers,
             Leave(w) \/ FetchFails(w) \/ CommitRefused(w) \/ CommitFails(w)
      PROVE  Goal
  <2>1. /\ pc[w] \in {"fetch", "commit"} /\ pc' = [pc EXCEPT ![w] = "out"]
        /\ UNCHANGED <<position, committed, succeeded, orders, completed, dlq,
                       stuck, dropped>>
    BY <1>5, Zenon DEF Leave, FetchFails, CommitRefused, CommitFails
  <2>2. Others(w) /\ Moves(w)
    BY <1>b, <2>1 DEF Moves, Labels
  <2> QED
    BY <1>a, <2>1, <2>2 DEF Grow
<1>6. ASSUME NEW w \in Workers, Claim(w)
      PROVE  Goal
  <2>1. /\ pc[w] = "claim"
        /\ pc' = [pc EXCEPT ![w] =
                    IF Current(w) \in claims THEN "commit" ELSE "handle"]
        /\ UNCHANGED <<position, committed, succeeded, orders, completed, dlq,
                       stuck, dropped>>
    BY <1>6, Zenon DEF Claim
  <2>2. Others(w) /\ Moves(w)
    BY <1>b, <2>1 DEF Moves, Labels
  <2> QED
    BY <1>a, <2>1, <2>2 DEF Grow
<1>7. ASSUME NEW w \in Workers, NEW written \in BOOLEAN, ClaimFails(w, written)
      PROVE  Goal
  <2>1. /\ pc[w] = "claim" /\ pc' = [pc EXCEPT ![w] = "out"]
        /\ stuck' = stuck \/ stuck' = stuck \cup {Current(w)}
        /\ UNCHANGED <<position, committed, succeeded, orders, completed, dlq,
                       dropped>>
    BY <1>7, Zenon DEF ClaimFails
  <2>2. Others(w) /\ Moves(w)
    BY <1>b, <2>1 DEF Moves, Labels
  <2> QED
    BY <1>a, <2>1, <2>2 DEF Grow
<1>8. ASSUME NEW w \in Workers, CreateDraft(w)
      PROVE  Goal
  <2>1. /\ pc[w] = "handle" /\ pc' = [pc EXCEPT ![w] = "complete"]
        /\ orders' = orders \cup {Current(w)}
        /\ UNCHANGED <<position, committed, succeeded, completed, dlq, stuck,
                       dropped>>
    BY <1>8, Zenon DEF CreateDraft
  <2>2. Others(w) /\ Moves(w)
    BY <1>b, <2>1 DEF Moves, Labels
  <2> QED
    BY <1>a, <2>1, <2>2 DEF Grow
<1>9. ASSUME NEW w \in Workers, Complete(w)
      PROVE  Goal
  <2>1. /\ pc[w] = "complete" /\ pc' = [pc EXCEPT ![w] = "commit"]
        /\ completed' = completed \cup {Current(w)}
        /\ succeeded' = [succeeded EXCEPT ![Current(w)] = @ + 1]
        /\ UNCHANGED <<position, committed, orders, dlq, stuck, dropped>>
    BY <1>9, Zenon DEF Complete
  <2>2. Others(w) /\ Moves(w)
    BY <1>b, <2>1 DEF Moves, Labels
  <2>3. SuccessMoves
    BY <1>0, <2>1 DEF SuccessMoves
  <2> QED
    BY <2>1, <2>2, <2>3 DEF Grow, Moves, CommitsMove
<1>10. ASSUME NEW w \in Workers, UnwrapFails(w)
       PROVE  Goal
  <2>1. /\ pc[w] = "handle" /\ pc' = [pc EXCEPT ![w] = "out"]
        /\ stuck' = stuck \cup {Current(w)}
        /\ UNCHANGED <<position, committed, succeeded, orders, completed, dlq,
                       dropped>>
    BY <1>10, Zenon DEF UnwrapFails
  <2>2. Others(w) /\ Moves(w)
    BY <1>b, <2>1 DEF Moves, Labels
  <2> QED
    BY <1>a, <2>1, <2>2 DEF Grow
<1>11. ASSUME NEW w \in Workers, NEW released \in BOOLEAN,
              HandlerFails(w, released)
       PROVE  Goal
  <2>1. /\ pc[w] \in {"handle", "complete"}
        /\ pc' = [pc EXCEPT ![w] = "deadletter"]
        /\ stuck' = stuck \/ stuck' = stuck \cup {Current(w)}
        /\ UNCHANGED <<position, committed, succeeded, orders, completed, dlq,
                       dropped>>
    BY <1>11, Zenon DEF HandlerFails
  <2>2. Others(w) /\ Moves(w)
    BY <1>b, <2>1 DEF Moves, Labels
  <2> QED
    BY <1>a, <2>1, <2>2 DEF Grow
<1>12. ASSUME NEW w \in Workers, DeadLetter(w) \/ DeadLetterFails(w)
       PROVE  Goal
  <2>1. /\ pc[w] = "deadletter" /\ pc' = [pc EXCEPT ![w] = "commit"]
        /\ \/ dlq' = dlq \cup {Current(w)} /\ dropped' = dropped
           \/ dropped' = dropped \cup {Current(w)} /\ dlq' = dlq
        /\ UNCHANGED <<position, committed, succeeded, orders, completed, stuck>>
    BY <1>12, Zenon DEF DeadLetter, DeadLetterFails
  <2>2. Others(w) /\ Moves(w)
    BY <1>b, <2>1 DEF Moves, Labels
  <2> QED
    BY <1>a, <2>1, <2>2 DEF Grow
<1>13. ASSUME NEW w \in Workers, CompleteUnanswered(w)
       PROVE  Goal
  <2>1. /\ completed' = completed \cup {Current(w)}
        /\ UNCHANGED <<pc, position, committed, succeeded, orders, dlq, stuck,
                       dropped>>
    BY <1>13, Zenon DEF CompleteUnanswered
  <2> QED
    BY <1>1, <2>1 DEF Grow
<1>14. ASSUME NEW w \in Workers, Commit(w)
       PROVE  Goal
  <2>1. /\ pc[w] = "commit" /\ pc' = [pc EXCEPT ![w] = "fetch"]
        /\ committed' = [committed EXCEPT ![w[2]] = position[w]]
        /\ UNCHANGED <<position, succeeded, orders, completed, dlq, stuck, dropped>>
    BY <1>14, Zenon DEF Commit
  <2>2. Others(w) /\ Moves(w)
    BY <1>b, <2>1 DEF Moves, Labels
  <2>3. CommitsMove
    BY <1>0, <2>1 DEF CommitsMove
  <2> QED
    BY <2>1, <2>2, <2>3 DEF Grow, Moves, SuccessMoves
<1>15. ASSUME NEW m \in Members, Crash(m)
       PROVE  Goal
  <2>1. /\ pc' = [w \in Workers |-> IF w[1] = m THEN "out" ELSE pc[w]]
        /\ stuck' = stuck \cup {Current(<<m, p>>) : p \in
              {p \in Partitions : pc[<<m, p>>] \in {"handle", "complete"}}}
        /\ dropped' = dropped \cup {Current(<<m, p>>) : p \in
              {p \in Partitions : pc[<<m, p>>] = "deadletter"}}
        /\ UNCHANGED <<position, committed, succeeded, orders, completed, dlq>>
    BY <1>15, Zenon DEF Crash
  <2>2. ASSUME NEW w \in Workers, w[1] = m
        PROVE  /\ pc[w] \in {"handle", "complete"} => Current(w) \in stuck'
               /\ pc[w] = "deadletter" => Current(w) \in dropped'
    <3>1. w[2] \in Partitions /\ <<m, w[2]>> = w
      BY <2>2, WorkerParts
    <3> QED
      BY <2>1, <3>1
  <2>3. \A w \in Workers : pc'[w] = IF w[1] = m THEN "out" ELSE pc[w]
    BY <2>1
  <2>4. \A w \in Workers : Moves(w)
    BY <1>0, <2>1, <2>2, <2>3 DEF Moves, Labels
  <2> QED
    BY <2>1, <2>4 DEF Grow, CommitsMove, SuccessMoves
<1>16. ASSUME UNCHANGED vars \/ \E m \in Members : Restart(m)
       PROVE  Goal
  <2>1. UNCHANGED <<pc, position, committed, succeeded, orders, completed, dlq,
                    stuck, dropped>>
    BY <1>16, RestartStep, Zenon DEF vars
  <2> QED
    BY <1>1, <2>1 DEF Grow
<1> QED
  BY <1>2, <1>3, <1>4, <1>5, <1>6, <1>7, <1>8, <1>9, <1>10, <1>11, <1>12,
     <1>13, <1>14, <1>15, <1>16, Zenon DEF Next, Proceed, Handle

LEMMA ResultStep == TypeOK /\ ResultInv /\ [Next]_vars => ResultInv'
<1> SUFFICES ASSUME TypeOK, ResultInv, [Next]_vars
             PROVE  ResultInv'
  OBVIOUS
<1>1. ASSUME NEW c \in Commands, succeeded'[c] = 1
      PROVE  c \in orders' /\ c \in completed'
  BY <1>1, StepMoves DEF ResultInv, Grow, SuccessMoves
<1>2. ASSUME NEW w \in Workers, pc'[w] = "complete"
      PROVE  Current(w)' \in orders'
  <2>1. \/ pc[w] = "complete"
        \/ pc[w] = "handle" /\ Current(w) \in orders'
    BY <1>2, StepMoves DEF Moves
  <2>2. Current(w)' = Current(w)
    BY <2>1, HandsKept DEF Busy
  <2> QED
    BY <2>1, <2>2, StepMoves DEF ResultInv, Grow
<1> QED
  BY <1>1, <1>2 DEF ResultInv

(* A command that is accounted for stays so: whoever had it in hand passes *)
(* it on or settles it.                                                    *)
LEMMA AccountedStays ==
  ASSUME TypeOK, ResultInv, [Next]_vars, NEW c, Accounted(c)
  PROVE  Accounted(c)'
<1>1. CASE Settled(c)
  BY <1>1, StepMoves DEF Accounted, Settled, Grow
<1>2. ASSUME NEW w \in Workers, Handling(w, c) \/ Burying(w, c)
      PROVE  Accounted(c)'
  <2>1. /\ pc[w] \in {"handle", "complete", "deadletter"} /\ Current(w) = c
        /\ Current(w)' = c
    BY <1>2, HandsKept DEF Handling, Burying, Busy
  <2>2. \/ pc'[w] \in {"handle", "complete", "deadletter"}
        \/ c \in stuck' \cup dlq' \cup dropped'
        \/ pc[w] = "complete" /\ c \in completed'
    BY <2>1, StepMoves DEF Moves
  <2>3. pc[w] = "complete" => c \in orders'
    BY <2>1, StepMoves DEF ResultInv, Grow
  <2>4. CASE pc'[w] \in {"handle", "complete", "deadletter"}
    BY <2>1, <2>4 DEF Accounted, Handling, Burying
  <2>5. CASE c \in stuck' \cup dlq' \cup dropped' \/ (c \in orders' /\ c \in completed')
    BY <2>5 DEF Accounted, Settled
  <2> QED
    BY <2>2, <2>3, <2>4, <2>5
<1> QED
  BY <1>1, <1>2 DEF Accounted

LEMMA LossStep ==
  TypeOK /\ ClaimInv /\ ResultInv /\ LossInv /\ [Next]_vars => LossInv'
<1> SUFFICES ASSUME TypeOK, ClaimInv, ResultInv, LossInv, [Next]_vars
             PROVE  LossInv'
  OBVIOUS
<1>0. /\ committed \in [Partitions -> Nat] /\ position \in [Workers -> Nat]
      /\ \A p \in Partitions : committed[p] <= Len(log[p]) /\ Len(log[p]) \in Nat
      /\ \A w \in Workers : w[2] \in Partitions /\ position[w] <= Len(log[w[2]])
      /\ \A w \in Workers : Busy(w) => position[w] > 0
  <2>1. \A p \in Partitions : log[p] \in Seq(Commands)
    BY DEF TypeOK
  <2> QED
    BY <2>1, WorkerParts DEF TypeOK, Busy
<1>1. ASSUME NEW p \in Partitions, NEW i \in Nat, NEW c \in Commands,
             i \in 1..committed'[p], log'[p][i] = c
      PROVE  Accounted(c)'
  <2>1. CASE committed'[p] = committed[p]
    <3>1. i \in 1..Len(log[p]) /\ i \in 1..committed[p]
      BY <1>0, <1>1, <2>1
    <3>2. log[p][i] = c
      BY <1>1, <3>1, LogGrows
    <3>3. Accounted(c)
      BY <3>1, <3>2 DEF LossInv
    <3> QED
      BY <3>3, AccountedStays
  <2>2. ASSUME NEW w \in Workers, w[2] = p, pc[w] = "commit",
               committed'[p] = position[w]
        PROVE  Accounted(c)'
    <3>1. i \in 1..Len(log[p]) /\ i \in 1..Done(w)
      BY <1>0, <1>1, <2>2 DEF Done
    <3>2. log[w[2]][i] = c
      BY <1>1, <2>2, <3>1, LogGrows
    <3>3. Accounted(c)
      BY <2>2, <3>1, <3>2 DEF LossInv
    <3> QED
      BY <3>3, AccountedStays
  <2> QED
    BY <2>1, <2>2, StepMoves DEF CommitsMove
<1>2. ASSUME NEW w \in Workers, NEW i \in Nat, NEW c \in Commands,
             pc'[w] # "out", i \in 1..Done(w)', log'[w[2]][i] = c
      PROVE  Accounted(c)'
  <2> DEFINE p == w[2]
  <2>1. Moves(w) /\ p \in Partitions
    BY <1>0, StepMoves
  <2>2. CASE pc[w] # "out" /\ Done(w)' <= Done(w)
    <3>1. /\ Done(w) \in Int /\ Done(w) <= position[w]
          /\ Done(w)' \in Int
      BY <1>0, TypeStep DEF Done, TypeOK
    <3>2. position[w] <= Len(log[p]) /\ position[w] \in Nat /\ Len(log[p]) \in Nat
      BY <1>0
    <3>3. i \in 1..Done(w) /\ i \in 1..Len(log[p])
      <4> HIDE DEF p
      <4> QED
        BY <1>2, <2>2, <3>1, <3>2
    <3>4. log[w[2]][i] = c
      BY <1>2, <2>1, <3>3, LogGrows
    <3>5. Accounted(c)
      BY <2>2, <3>3, <3>4 DEF LossInv
    <3> QED
      BY <3>5, AccountedStays
  <2>3. CASE Done(w)' = committed[p]
    <3>1. i \in 1..committed[p] /\ i \in 1..Len(log[p])
      BY <1>0, <1>2, <2>1, <2>3
    <3>2. log[p][i] = c
      BY <1>2, <2>1, <3>1, LogGrows
    <3>3. Accounted(c)
      BY <2>1, <3>1, <3>2 DEF LossInv
    <3> QED
      BY <3>3, AccountedStays
  (* The message in hand is dealt with. *)
  <2>4. CASE /\ Busy(w) /\ pc[w] # "commit" /\ Done(w)' = position[w]
             /\ Accounted(Current(w)) \/ Current(w) \in dlq' \cup dropped'
                  \/ Current(w) \in orders' \cap completed'
    <3>1. i \in 1..Len(log[p]) /\ log[p][i] = c
      <4>1. i \in 1..Len(log[p])
        BY <1>0, <1>2, <2>1, <2>4
      <4> QED
        BY <1>2, <2>1, <4>1, LogGrows
    <3>2. CASE i = position[w]
      <4>1. c = Current(w)
        BY <3>1, <3>2 DEF Current
      <4>2. CASE Accounted(c)
        BY <4>2, AccountedStays
      <4>3. CASE c \in dlq' \cup dropped' \/ c \in orders' \cap completed'
        BY <4>3 DEF Accounted, Settled
      <4> QED
        BY <2>4, <4>1, <4>2, <4>3
    <3>3. CASE i # position[w]
      <4>1. i \in 1..Done(w) /\ pc[w] # "out"
        BY <1>0, <1>2, <2>4, <3>3 DEF Done, Busy
      <4>2. Accounted(c)
        BY <3>1, <4>1 DEF LossInv
      <4> QED
        BY <4>2, AccountedStays
    <3> QED
      BY <3>2, <3>3
  <2>5. CASE pc[w] = "claim" /\ pc'[w] = "commit" /\ position'[w] = position[w]
             /\ Current(w) \in claims
    <3>1. Current(w) \in Commands
      BY <2>5, CurrentType DEF Busy
    <3>2. \/ succeeded[Current(w)] = 1 \/ Current(w) \in stuck
          \/ \E v \in Workers : Hand(v) /\ Current(v) = Current(w)
      BY <2>5 DEF ClaimInv
    <3>3. Accounted(Current(w))
      BY <3>1, <3>2 DEF ResultInv, Accounted, Settled, Handling, Hand
    <3> QED
      BY <2>4, <2>5, <3>3 DEF Busy, Done
  <2>6. CASE pc[w] = "complete" /\ pc'[w] = "commit" /\ position'[w] = position[w]
             /\ Current(w) \in completed'
    <3>1. Current(w) \in orders'
      BY <2>6, StepMoves DEF ResultInv, Grow
    <3> QED
      BY <2>4, <2>6, <3>1 DEF Busy, Done
  <2>7. CASE pc[w] = "deadletter" /\ pc'[w] = "commit" /\ position'[w] = position[w]
             /\ Current(w) \in dlq' \cup dropped'
    BY <2>4, <2>7 DEF Busy, Done
  <2>8. CASE pc'[w] = pc[w] /\ position'[w] = position[w]
    BY <1>0, <1>2, <2>2, <2>8 DEF Done
  <2>9. CASE pc[w] = "out" /\ pc'[w] = "fetch" /\ position'[w] = committed[w[2]]
    BY <2>3, <2>9 DEF Done
  <2>10. CASE pc[w] = "fetch" /\ pc'[w] = "claim" /\ position'[w] = position[w] + 1
    BY <1>0, <2>2, <2>10 DEF Done
  <2>11. CASE /\ pc[w] \in {"claim", "handle", "complete"}
              /\ pc'[w] \in {"handle", "complete", "deadletter"}
              /\ position'[w] = position[w]
    BY <1>0, <2>2, <2>11 DEF Done
  <2>12. CASE pc[w] = "commit" /\ pc'[w] = "fetch" /\ position'[w] = position[w]
    BY <1>0, <2>2, <2>12 DEF Done
  <2> QED
    <3> HIDE DEF p
    <3> QED
      BY <1>2, <2>1, <2>5, <2>6, <2>7, <2>8, <2>9, <2>10, <2>11, <2>12 DEF Moves
<1> QED
  BY <1>1, <1>2 DEF LossInv

LEMMA LossInvariant == Spec => [](ResultInv /\ LossInv)
<1>1. Init => ResultInv /\ LossInv
  <2>1. ASSUME Init
        PROVE  /\ \A c \in Commands : succeeded[c] = 0
               /\ \A w \in Workers : pc[w] = "out"
               /\ \A p \in Partitions : committed[p] = 0
    BY <2>1 DEF Init
  <2> QED
    BY <2>1 DEF ResultInv, LossInv
<1> QED
  BY <1>1, TypeCorrect, ClaimInvariant, ResultStep, LossStep, PTL DEF Spec

(* Whatever a replica commits, its own failures or a command that another  *)
(* one has in hand, is settled or will be by the worker that has it.       *)
THEOREM CommitsLoseNothingSilently == Spec => []NoSilentLoss
<1>1. TypeOK /\ LossInv => NoSilentLoss
  <2> SUFFICES ASSUME TypeOK, LossInv,
                      NEW p \in Partitions, NEW i \in 1..committed[p]
               PROVE  Accounted(log[p][i])
    BY DEF NoSilentLoss, Accounted
  <2>1. /\ log[p] \in Seq(Commands)
        /\ committed[p] \in Nat /\ committed[p] <= Len(log[p])
    BY DEF TypeOK
  <2>2. log[p][i] \in Commands /\ i \in Nat
    BY <2>1
  <2> QED
    BY <2>2 DEF LossInv
<1> QED
  BY <1>1, TypeCorrect, LossInvariant, PTL

(* A worker has come to the end of its partition, and no replica has a     *)
(* claimed command in hand or one to bury.                                 *)
AtRest(w) ==
  /\ pc[w] = "fetch"
  /\ position[w] = Len(log[w[2]])
  /\ \A v \in Workers : pc[v] \notin {"handle", "complete", "deadletter"}

NothingLeftOver ==
  \A w \in Workers :
    AtRest(w) => \A i \in 1..Len(log[w[2]]) : Settled(log[w[2]][i])

(* What Consumed promises is there when a partition has been read to its   *)
(* end, even by a worker of a past generation: each of its commands is     *)
(* settled, the ones included that a worker skipped because another        *)
(* replica had claimed them.                                               *)
THEOREM IdlePartitionLeavesNothing == Spec => []NothingLeftOver
<1>1. ASSUME TypeOK, LossInv
      PROVE  NothingLeftOver
  <2> SUFFICES ASSUME NEW w \in Workers, AtRest(w), NEW i \in 1..Len(log[w[2]])
               PROVE  Settled(log[w[2]][i])
    BY Zenon DEF NothingLeftOver
  <2>1. w[2] \in Partitions /\ log[w[2]] \in Seq(Commands)
    BY <1>1, WorkerParts DEF TypeOK
  <2>2. log[w[2]][i] \in Commands /\ i \in Nat
    BY <2>1
  <2>3. pc[w] # "out" /\ i \in 1..Done(w)
    BY DEF AtRest, Done
  <2>4. Accounted(log[w[2]][i])
    BY <1>1, <2>2, <2>3, Zenon DEF LossInv
  <2>5. \A v \in Workers, c \in Commands : ~Handling(v, c) /\ ~Burying(v, c)
    BY DEF AtRest, Handling, Burying
  <2> QED
    BY <2>2, <2>4, <2>5, Zenon DEF Accounted
<1> QED
  BY <1>1, TypeCorrect, LossInvariant, PTL

-----------------------------------------------------------------------------
(* What a completion event stands for, and what it takes to drop a command.*)

CompletionIsTrue == completed \subseteq orders

LEMMA GenerationKeepsResults ==
  NextGeneration \/ Rebalance => UNCHANGED <<results, faults, history>>
BY Zenon DEF NextGeneration, Rebalance, Generation

LEMMA CompletedMoves ==
  [Next]_vars =>
    \A c \in completed' :
      c \in completed \/ \E w \in Workers : pc[w] = "complete" /\ Current(w) = c
<1> SUFFICES ASSUME [Next]_vars
             PROVE  \/ completed' = completed
                    \/ \E w \in Workers :
                         /\ pc[w] = "complete"
                         /\ completed' = completed \cup {Current(w)}
  OBVIOUS
<1> QED
  BY GenerationKeepsResults, Zenon
     DEF Next, vars, results, Publish, Proceed, Handle, Fetch, Leave, Claim,
         CreateDraft, Complete, UnwrapFails, HandlerFails, DeadLetter, Commit,
         CommitRefused, FetchFails, ClaimFails, CompleteUnanswered,
         DeadLetterFails, CommitFails, Crash, Restart

(* Whoever is told that a command is complete finds its order in the       *)
(* database: the handler's second half comes after its first, though       *)
(* generations overlap, answers get lost and commands are handled anew.    *)
THEOREM CompletionsAreTrue == Spec => []CompletionIsTrue
<1>1. Init => CompletionIsTrue
  BY Zenon DEF Init, CompletionIsTrue
<1>2. ASSUME TypeOK, ResultInv, CompletionIsTrue, [Next]_vars
      PROVE  CompletionIsTrue'
  <2>1. orders \subseteq orders'
    BY <1>2, StepMoves, Zenon DEF Grow
  <2>2. ASSUME NEW c \in completed'
        PROVE  c \in orders
    BY <1>2, <2>2, CompletedMoves, Zenon DEF ResultInv, CompletionIsTrue
  <2> QED
    BY <2>1, <2>2, Zenon DEF CompletionIsTrue
<1> QED
  BY <1>1, <1>2, TypeCorrect, LossInvariant, PTL DEF Spec

DropNeedsFault == faults = 0 => dropped = {}

LEMMA DropNeedsFaultStep ==
  TypeOK /\ DropNeedsFault /\ [Next]_vars => DropNeedsFault'
<1> SUFFICES ASSUME TypeOK, DropNeedsFault, [Next]_vars
             PROVE  DropNeedsFault'
  OBVIOUS
<1>1. faults' = faults + 1 \/ UNCHANGED <<faults, dropped>>
  BY GenerationKeepsResults, Zenon
     DEF Next, vars, counters, history, Fault, Publish, Proceed, Handle, Fetch,
         Leave, Claim, CreateDraft, Complete, UnwrapFails, HandlerFails,
         DeadLetter, Commit, CommitRefused, FetchFails, ClaimFails,
         CompleteUnanswered, DeadLetterFails, CommitFails, Crash, Restart
<1>2. faults \in Nat
  BY Zenon DEF TypeOK
<1> QED
  BY <1>1, <1>2 DEF DropNeedsFault

(* What a command of a partition that was read to its end has come to when *)
(* no call has failed and no replica has stopped.                          *)
FailureFreeOutcome ==
  \A w \in Workers :
    AtRest(w) /\ faults = 0 =>
      \A i \in 1..Len(log[w[2]]) :
        LET c == log[w[2]][i]
        IN  (c \in orders /\ c \in completed) \/ c \in dlq \cup stuck

(* Rebalances alone lose no command: only a dead letter that could not be  *)
(* written, or a replica that stops before it writes one, lets a command   *)
(* go with neither its completion nor a dead letter nor a stuck claim to   *)
(* show for it.                                                            *)
THEOREM RebalancesLoseNothing == Spec => []FailureFreeOutcome
<1>1. Init => DropNeedsFault
  BY Zenon DEF Init, DropNeedsFault
<1>2. NothingLeftOver /\ DropNeedsFault => FailureFreeOutcome
  BY Zenon DEF NothingLeftOver, DropNeedsFault, FailureFreeOutcome, Settled
<1> QED
  BY <1>1, <1>2, DropNeedsFaultStep, TypeCorrect, IdlePartitionLeavesNothing, PTL
     DEF Spec

-----------------------------------------------------------------------------
(***************************************************************************)
(* Refinement of EventLedger.  A stuck claim is held for good: whoever     *)
(* comes to its command later finds it claimed.                            *)
(***************************************************************************)

StuckStaysClaimed ==
  \A c \in stuck :
    /\ c \in claims
    /\ succeeded[c] = 0
    /\ \A w \in Workers : Hand(w) => Current(w) # c

LEMMA CurrentOwed ==
  ASSUME TypeOK, NEW w \in Workers, Busy(w)
  PROVE  Current(w) \in Owed
<1>1. w[2] \in Partitions
  BY WorkerParts
<1>2. position[w] \in 1..Len(log[w[2]])
  <2>1. /\ log[w[2]] \in Seq(Commands)
        /\ position[w] \in Nat /\ position[w] <= Len(log[w[2]])
        /\ position[w] > 0
    BY <1>1 DEF TypeOK, Busy
  <2> QED
    BY <2>1
<1> QED
  BY <1>1, <1>2, CurrentType DEF Current, Owed

(* A command more in a partition is one command more that is owed. *)
LEMMA OwedGrows ==
  ASSUME TypeOK, [Next]_vars, NEW c \in Commands, NEW p \in Partitions,
         log' = [log EXCEPT ![p] = Append(@, c)]
  PROVE  Owed' = Owed \cup {c}
<1>0. /\ log \in [Partitions -> Seq(Commands)]
      /\ \A q \in Partitions \ {p} : log'[q] = log[q]
      /\ log'[p] = Append(log[p], c)
  BY DEF TypeOK
<1>1. log[p] \in Seq(Commands)
  BY <1>0
<1>2. /\ Len(log[p]) + 1 \in 1..Len(log'[p])
      /\ log'[p][Len(log[p]) + 1] = c
  BY <1>0, <1>1
<1>3. ASSUME NEW q \in Partitions, NEW i \in 1..Len(log'[q])
      PROVE  \/ log'[q][i] = c
             \/ i \in 1..Len(log[q]) /\ log'[q][i] = log[q][i]
  <2>1. CASE q = p
    BY <1>0, <1>1, <1>3, <2>1
  <2>2. CASE q # p
    BY <1>0, <1>3, <2>2
  <2> QED
    BY <2>1, <2>2
<1>4. \A d \in Owed' : d \in Owed \/ d = c
  BY <1>3 DEF Owed
<1>5. c \in Owed'
  BY <1>2 DEF Owed
<1>6. \A d \in Owed : d \in Owed'
  BY LogGrows DEF Owed
<1>7. Owed \subseteq Commands /\ Owed' \subseteq Commands
  BY DEF Owed
<1> QED
  BY <1>4, <1>5, <1>6, <1>7

LEMMA LedgerStep ==
  ASSUME TypeOK, ClaimInv, StuckStaysClaimed, [Next]_vars
  PROVE  [Ledger!Next]_(Ledger!vars) /\ StuckStaysClaimed'
<1> USE DEF Goto, Fault, counters, results, history, group
<1> DEFINE Goal == [Ledger!Next]_(Ledger!vars) /\ StuckStaysClaimed'
<1>0. pc \in [Workers -> Labels] /\ succeeded \in [Commands -> Nat]
  BY Zenon DEF TypeOK
<1>h. \A w \in Workers : Hand(w) =>
        /\ Busy(w) /\ Current(w) \in claims /\ succeeded[Current(w)] = 0
        /\ Current(w) \in Owed /\ Current(w)' = Current(w)
        /\ Current(w) \notin stuck
  BY CurrentOwed, HandsKept DEF ClaimInv, Hand, Busy, StuckStaysClaimed
(* A step that hands nothing out, with the commands that it spends. *)
<1>a. ASSUME NEW spending \in SUBSET Owed, NEW burying \in SUBSET Owed,
             \A w \in Workers : Hand(w)' => Hand(w),
             log' = log, succeeded' = succeeded, stuck \subseteq claims',
             stuck' = stuck \cup spending,
             dlq' \cup dropped' = dlq \cup dropped \cup burying,
             \A c \in spending :
               /\ c \in claims' /\ succeeded[c] = 0
               /\ \A w \in Workers : Hand(w)' => Current(w) # c
      PROVE  Goal
  <2>1. Owed' = Owed
    BY <1>a DEF Owed
  <2>2. Ledger!Abandon(spending, burying)
    BY <1>a, <2>1 DEF Ledger!Abandon
  <2>3. Ledger!Next
    BY <2>2 DEF Ledger!Next
  <2>4. StuckStaysClaimed'
    BY <1>h, <1>a DEF StuckStaysClaimed
  <2> QED
    BY <2>3, <2>4
(* A step that spends nothing, and buries one command at most. *)
<1>b. ASSUME \A w \in Workers : Hand(w)' => Hand(w),
             UNCHANGED <<log, succeeded, stuck>>, stuck \subseteq claims',
             \/ dlq' \cup dropped' = dlq \cup dropped
             \/ \E c \in Owed : dlq' \cup dropped' = dlq \cup dropped \cup {c}
      PROVE  Goal
  <2>1. PICK burying \in SUBSET Owed :
          dlq' \cup dropped' = dlq \cup dropped \cup burying
    <3>1. CASE dlq' \cup dropped' = dlq \cup dropped
      <4>1. {} \in SUBSET Owed /\ dlq' \cup dropped' = dlq \cup dropped \cup {}
        BY <3>1
      <4> QED
        BY <4>1
    <3>2. ASSUME NEW c \in Owed, dlq' \cup dropped' = dlq \cup dropped \cup {c}
          PROVE  \E burying \in SUBSET Owed :
                   dlq' \cup dropped' = dlq \cup dropped \cup burying
      <4>1. {c} \in SUBSET Owed
        OBVIOUS
      <4> QED
        BY <3>2, <4>1
    <3> QED
      BY <1>b, <3>1, <3>2
  <2>2. /\ {} \in SUBSET Owed /\ stuck' = stuck \cup {}
        /\ \A c \in {} :
             /\ c \in claims' /\ succeeded[c] = 0
             /\ \A w \in Workers : Hand(w)' => Current(w) # c
    BY <1>b
  <2> HIDE DEF Goal
  <2> QED
    BY <1>a, <1>b, <2>1, <2>2
(* A step of one worker that ends with nothing in its hand. *)
<1>c. ASSUME NEW w \in Workers, NEW label \in Labels,
             label \notin {"handle", "complete"},
             pc' = [pc EXCEPT ![w] = label]
      PROVE  \A v \in Workers : Hand(v)' <=> Hand(v) /\ v # w
  BY <1>0, <1>c DEF Hand
<1>s. stuck \subseteq claims
  BY DEF StuckStaysClaimed
<1>1. ASSUME NEW c \in Commands, NEW p \in Partitions, Publish(c, p)
      PROVE  Goal
  <2>1. /\ log' = [log EXCEPT ![p] = Append(@, c)]
        /\ UNCHANGED <<pc, claims, succeeded, stuck, dlq, dropped>>
    BY <1>1, Zenon DEF Publish
  <2>2. Owed' = Owed \cup {c}
    BY <2>1, OwedGrows
  <2>3. Ledger!Arrive(c)
    BY <2>1, <2>2 DEF Ledger!Arrive
  <2>4. Ledger!Next
    BY <2>3 DEF Ledger!Next
  <2>5. StuckStaysClaimed'
    BY <1>h, <2>1 DEF StuckStaysClaimed, Hand
  <2> QED
    BY <2>4, <2>5
<1>2. CASE NextGeneration \/ Rebalance
  <2>1. UNCHANGED <<log, claims, succeeded, stuck, dlq, dropped>>
    BY <1>2, GenerationStep, Zenon
  <2>2. \A w \in Workers : Hand(w)' => Hand(w)
    BY <1>2, GenerationStep DEF Hand
  <2> QED
    BY <1>b, <1>s, <2>1, <2>2
<1>3. ASSUME NEW w \in Workers,
             \/ Fetch(w) \/ Leave(w) \/ FetchFails(w) \/ CommitRefused(w)
             \/ CommitFails(w) \/ Commit(w)
      PROVE  Goal
  <2>1. /\ UNCHANGED <<log, claims, succeeded, stuck, dlq, dropped>>
        /\ \E label \in {"out", "fetch", "claim"} : pc' = [pc EXCEPT ![w] = label]
    BY <1>3, Zenon DEF Fetch, Leave, FetchFails, CommitRefused, CommitFails, Commit
  <2>2. \A v \in Workers : Hand(v)' => Hand(v)
    BY <1>c, <2>1 DEF Labels
  <2> QED
    BY <1>b, <1>s, <2>1, <2>2
<1>4. ASSUME NEW w \in Workers, DeadLetter(w) \/ DeadLetterFails(w)
      PROVE  Goal
  <2>1. /\ pc[w] = "deadletter" /\ pc' = [pc EXCEPT ![w] = "commit"]
        /\ UNCHANGED <<log, claims, succeeded, stuck>>
        /\ \/ dlq' = dlq \cup {Current(w)} /\ dropped' = dropped
           \/ dropped' = dropped \cup {Current(w)} /\ dlq' = dlq
    BY <1>4, Zenon DEF DeadLetter, DeadLetterFails
  <2>2. \A v \in Workers : Hand(v)' => Hand(v)
    BY <1>c, <2>1 DEF Labels
  <2>3. /\ Current(w) \in Owed
        /\ dlq' \cup dropped' = dlq \cup dropped \cup {Current(w)}
    BY <2>1, CurrentOwed DEF Busy
  <2> QED
    BY <1>b, <1>s, <2>1, <2>2, <2>3
<1>5. ASSUME NEW w \in Workers, CreateDraft(w) \/ CompleteUnanswered(w)
      PROVE  Goal
  <2>1. /\ UNCHANGED <<log, claims, succeeded, stuck, dlq, dropped>>
        /\ \/ pc[w] = "handle" /\ pc' = [pc EXCEPT ![w] = "complete"]
           \/ pc' = pc
    BY <1>5, Zenon DEF CreateDraft, CompleteUnanswered
  <2>2. \A v \in Workers : Hand(v)' => Hand(v)
    BY <1>0, <2>1 DEF Hand
  <2> QED
    BY <1>b, <1>s, <2>1, <2>2
<1>6. ASSUME NEW w \in Workers, Claim(w)
      PROVE  Goal
  <2>1. /\ pc[w] = "claim"
        /\ claims' = claims \cup {Current(w)}
        /\ pc' = [pc EXCEPT ![w] =
                    IF Current(w) \in claims THEN "commit" ELSE "handle"]
        /\ UNCHANGED <<log, succeeded, stuck, dlq, dropped>>
    BY <1>6, Zenon DEF Claim
  <2>2. CASE Current(w) \in claims
    <3>1. pc' = [pc EXCEPT ![w] = "commit"] /\ claims' = claims
      BY <2>1, <2>2
    <3>2. \A v \in Workers : Hand(v)' => Hand(v)
      BY <1>c, <3>1 DEF Labels
    <3> QED
      BY <1>b, <1>s, <2>1, <3>1, <3>2
  <2>3. CASE Current(w) \notin claims
    <3>1. \A v \in Workers : Hand(v)' => Hand(v) \/ v = w
      BY <1>0, <2>1, <2>3 DEF Hand
    <3>2. Current(w)' = Current(w) /\ Current(w) \notin stuck
      BY <1>s, <2>1, <2>3, HandsKept DEF Busy
    <3>3. StuckStaysClaimed'
      BY <1>h, <2>1, <3>1, <3>2 DEF StuckStaysClaimed
    <3>4. UNCHANGED Ledger!vars
      BY <2>1 DEF Ledger!vars, Owed
    <3> QED
      BY <3>3, <3>4
  <2> QED
    BY <2>2, <2>3
<1>7. ASSUME NEW w \in Workers, NEW written \in BOOLEAN, ClaimFails(w, written)
      PROVE  Goal
  <2>1. /\ pc[w] = "claim" /\ pc' = [pc EXCEPT ![w] = "out"]
        /\ UNCHANGED <<log, succeeded, dlq, dropped>>
        /\ \/ claims' = claims /\ stuck' = stuck
           \/ /\ Current(w) \notin claims
              /\ claims' = claims \cup {Current(w)}
              /\ stuck' = stuck \cup {Current(w)}
    BY <1>7, Zenon DEF ClaimFails
  <2>2. \A v \in Workers : Hand(v)' => Hand(v)
    BY <1>c, <2>1 DEF Labels
  <2>3. CASE claims' = claims /\ stuck' = stuck
    BY <1>b, <1>s, <2>1, <2>2, <2>3
  <2>4. CASE Current(w) \notin claims /\ claims' = claims \cup {Current(w)}
               /\ stuck' = stuck \cup {Current(w)}
    <3>1. Current(w) \in Commands /\ Current(w) \in Owed
      BY <2>1, CurrentType, CurrentOwed DEF Busy
    <3>2. succeeded[Current(w)] = 0
      BY <2>4, <3>1 DEF ClaimInv
    <3>3. \A v \in Workers : Hand(v)' => Current(v) # Current(w)
      BY <1>h, <2>2, <2>4
    <3>4. {Current(w)} \in SUBSET Owed /\ {} \in SUBSET Owed
      BY <3>1
    <3>5. /\ stuck \subseteq claims' /\ Current(w) \in claims'
          /\ dlq' \cup dropped' = dlq \cup dropped \cup {}
      BY <1>s, <2>1, <2>4
    <3>6. \A c \in {Current(w)} :
            /\ c \in claims' /\ succeeded[c] = 0
            /\ \A v \in Workers : Hand(v)' => Current(v) # c
      BY <3>2, <3>3, <3>5
    <3> HIDE DEF Goal
    <3> QED
      BY <1>a, <2>1, <2>2, <2>4, <3>4, <3>5, <3>6
  <2> QED
    BY <2>1, <2>3, <2>4
<1>8. ASSUME NEW w \in Workers, Complete(w)
      PROVE  Goal
  <2>1. /\ pc[w] = "complete" /\ pc' = [pc EXCEPT ![w] = "commit"]
        /\ succeeded' = [succeeded EXCEPT ![Current(w)] = @ + 1]
        /\ UNCHANGED <<log, claims, stuck, dlq, dropped>>
    BY <1>8, Zenon DEF Complete
  <2>2. /\ Current(w) \in Commands /\ succeeded[Current(w)] = 0
        /\ Current(w) \in Owed \ stuck
    BY <1>h, <2>1, CurrentType DEF Hand, Busy
  <2>3. succeeded[Current(w)] + 1 = 1
    BY <2>2
  <2>4. Ledger!Succeed(Current(w))
    BY <2>1, <2>2, <2>3 DEF Ledger!Succeed, Owed
  <2>5. Ledger!Next
    BY <2>2, <2>4 DEF Ledger!Next
  <2>6. \A v \in Workers : Hand(v)' => Hand(v)
    BY <1>c, <2>1 DEF Labels
  <2>7. \A c \in stuck : succeeded'[c] = succeeded[c]
    BY <1>0, <2>1, <2>2
  <2>8. StuckStaysClaimed'
    BY <1>h, <2>1, <2>6, <2>7 DEF StuckStaysClaimed
  <2> QED
    BY <2>5, <2>8
<1>9. ASSUME NEW w \in Workers, NEW released \in BOOLEAN,
             UnwrapFails(w) \/ HandlerFails(w, released)
      PROVE  Goal
  <2>1. /\ Hand(w)
        /\ \E label \in {"out", "deadletter"} : pc' = [pc EXCEPT ![w] = label]
        /\ UNCHANGED <<log, succeeded, dlq, dropped>>
        /\ \/ claims' = claims \ {Current(w)} /\ stuck' = stuck
           \/ claims' = claims /\ stuck' = stuck \cup {Current(w)}
    BY <1>9, Zenon DEF UnwrapFails, HandlerFails, Hand
  <2>2. \A v \in Workers : Hand(v)' <=> Hand(v) /\ v # w
    BY <1>c, <2>1 DEF Labels
  <2>3. CASE claims' = claims \ {Current(w)} /\ stuck' = stuck
    <3>1. stuck \subseteq claims'
      BY <1>h, <1>s, <2>1, <2>3
    <3> QED
      BY <1>b, <2>1, <2>2, <2>3, <3>1
  <2>4. CASE claims' = claims /\ stuck' = stuck \cup {Current(w)}
    <3>1. /\ {Current(w)} \in SUBSET Owed /\ {} \in SUBSET Owed
          /\ dlq' \cup dropped' = dlq \cup dropped \cup {}
      BY <1>h, <2>1
    <3>2. \A v \in Workers : Hand(v)' => Current(v) # Current(w)
      BY <2>1, <2>2 DEF ClaimInv
    <3>3. \A c \in {Current(w)} :
            /\ c \in claims' /\ succeeded[c] = 0
            /\ \A v \in Workers : Hand(v)' => Current(v) # c
      BY <1>h, <2>1, <2>4, <3>2
    <3> HIDE DEF Goal
    <3> QED
      BY <1>a, <1>s, <2>1, <2>2, <2>4, <3>1, <3>3
  <2> QED
    BY <2>1, <2>3, <2>4
<1>10. ASSUME NEW m \in Members, Crash(m)
       PROVE  Goal
  <2> DEFINE spending == {Current(<<m, p>>) : p \in
               {p \in Partitions : pc[<<m, p>>] \in {"handle", "complete"}}}
             burying == {Current(<<m, p>>) : p \in
               {p \in Partitions : pc[<<m, p>>] = "deadletter"}}
  <2>1. /\ pc' = [w \in Workers |-> IF w[1] = m THEN "out" ELSE pc[w]]
        /\ stuck' = stuck \cup spending
        /\ dropped' = dropped \cup burying
        /\ UNCHANGED <<log, claims, succeeded, dlq>>
    BY <1>10, Zenon DEF Crash
  <2>2. \A w \in Workers : Hand(w)' => Hand(w) /\ w[1] # m
    BY <1>0, <2>1 DEF Hand
  <2>3. \A c \in spending : \E w \in Workers : Hand(w) /\ w[1] = m /\ c = Current(w)
    BY WorkerParts DEF Hand
  <2>4. \A c \in burying : \E w \in Workers : Busy(w) /\ c = Current(w)
    BY WorkerParts DEF Busy
  <2>5. spending \in SUBSET Owed /\ burying \in SUBSET Owed
    <3> HIDE DEF spending, burying
    <3> QED
      BY <1>h, <2>3, <2>4, CurrentOwed
  <2>6. \A c \in spending :
          /\ c \in claims' /\ succeeded[c] = 0
          /\ \A w \in Workers : Hand(w)' => Current(w) # c
    <3> HIDE DEF spending
    <3> QED
      BY <1>h, <2>1, <2>2, <2>3 DEF ClaimInv
  <2>7. dlq' \cup dropped' = dlq \cup dropped \cup burying
    BY <2>1
  <2> HIDE DEF Goal, spending, burying
  <2> QED
    BY <1>a, <1>s, <2>1, <2>2, <2>5, <2>6, <2>7
<1>11. ASSUME UNCHANGED vars \/ \E m \in Members : Restart(m)
       PROVE  Goal
  <2>1. UNCHANGED <<log, claims, succeeded, stuck, dlq, dropped, pc>>
    BY <1>11, RestartStep, Zenon DEF vars
  <2>2. \A w \in Workers : Hand(w)' => Hand(w)
    BY <2>1 DEF Hand
  <2> QED
    BY <1>b, <1>s, <2>1, <2>2
<1> QED
  BY <1>1, <1>2, <1>3, <1>4, <1>5, <1>6, <1>7, <1>8, <1>9, <1>10, <1>11,
     Zenon DEF Next, Proceed, Handle

(* Whatever generations overlap, replicas stop and messages come again,    *)
(* the group keeps the ledger of EventLedger: one effect per command at    *)
(* most, and none once the command is spent.                               *)
THEOREM LedgerImplemented == Spec => ImplementsLedger
<1>1. Init => Ledger!Init
  BY DEF Init, Ledger!Init, Owed
<1>2. Init => StuckStaysClaimed
  BY DEF Init, StuckStaysClaimed
<1> QED
  BY <1>1, <1>2, LedgerStep, TypeCorrect, ClaimInvariant, PTL
  DEF Spec, ImplementsLedger, Ledger!Spec

=============================================================================
