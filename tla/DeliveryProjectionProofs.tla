----------------------- MODULE DeliveryProjectionProofs -----------------------
(***************************************************************************)
(* Proofs about DeliveryProjection, for any number of concurrent saves,    *)
(* reads and consumers, deliveries and faults.                             *)
(***************************************************************************)
EXTENDS DeliveryProjection, TLAPS

(* The two flags apart from the data: no prover takes both at once. *)
Flags == lost \in BOOLEAN /\ overlap \in BOOLEAN

Data ==
  /\ saved \in Nat
  /\ cache \in Projection \cup {Null}
  /\ hints \in Nat
  /\ pc \in [Actors -> Rebuilding \cup {"idle", "publish", "stopped"}]
  /\ seen \in [Actors -> Projection]
  /\ faults \in Nat

LEMMA FlagsStep == Flags /\ [Next]_vars => Flags'
<1> SUFFICES ASSUME Flags, [Next]_vars
             PROVE  Flags'
  OBVIOUS
<1> USE DEF Flags
<1>1. ASSUME NEW a \in Savers, Commit(a)
      PROVE  Flags'
  BY <1>1, Zenon DEF Commit
<1>2. ASSUME NEW a \in Readers, Lookup(a) \/ LookupFails(a)
      PROVE  Flags'
  BY <1>2, Zenon DEF Lookup, LookupFails
<1>3. ASSUME NEW a \in Consumers, Fetch(a)
      PROVE  Flags'
  BY <1>3, Zenon DEF Fetch
<1>4. ASSUME NEW a \in Actors, Proceed(a) \/ SetUnanswered(a)
      PROVE  Flags'
  BY <1>4, Zenon DEF Proceed, ReadRow, ReadNothing, ReadFiles, Set, Publish,
     SetUnanswered
<1>5. ASSUME NEW a \in Requests, ReadFails(a) \/ SetFails(a) \/ Cut(a)
      PROVE  Flags'
  BY <1>5, Zenon DEF ReadFails, SetFails, Cut
<1>6. ASSUME NEW a \in Consumers, NEW kept \in BOOLEAN, NEW stops \in BOOLEAN,
             HandlerFails(a, kept, stops)
      PROVE  Flags'
  BY <1>6, Zenon DEF HandlerFails
<1>7. ASSUME NEW a \in Consumers, OffsetCommitFails(a) \/ Restart(a)
      PROVE  Flags'
  BY <1>7, Zenon DEF OffsetCommitFails, Restart
<1>8. CASE UNCHANGED vars
  BY <1>8, Zenon DEF vars
<1> QED
  BY <1>1, <1>2, <1>3, <1>4, <1>5, <1>6, <1>7, <1>8, Zenon DEF Next

LEMMA DataStep == Data /\ [Next]_vars => Data'
<1> SUFFICES ASSUME Data, [Next]_vars
             PROVE  Data'
  OBVIOUS
<1> USE DEF Data, Projection, Rebuilding, Goto, Fault
<1>1. ASSUME NEW a \in Savers, Commit(a)
      PROVE  Data'
  <2>1. /\ saved' = saved + 1
        /\ pc' = [pc EXCEPT ![a] = "row"]
        /\ UNCHANGED <<cache, hints, seen, faults>>
    BY <1>1, Zenon DEF Commit
  <2>2. saved' \in Nat
    BY <2>1
  <2>3. pc' \in [Actors -> Rebuilding \cup {"idle", "publish", "stopped"}]
    BY <2>1
  <2> QED
    BY <2>1, <2>2, <2>3
<1>2. ASSUME NEW a \in Readers, Lookup(a) \/ LookupFails(a)
      PROVE  Data'
  BY <1>2 DEF Lookup, LookupFails
<1>3. ASSUME NEW a \in Consumers, Fetch(a)
      PROVE  Data'
  <2>1. /\ hints > 0 /\ hints' = hints - 1
        /\ pc' = [pc EXCEPT ![a] = "row"]
        /\ UNCHANGED <<saved, cache, seen, faults>>
    BY <1>3, Zenon DEF Fetch
  <2>2. hints' \in Nat
    BY <2>1
  <2>3. pc' \in [Actors -> Rebuilding \cup {"idle", "publish", "stopped"}]
    BY <2>1
  <2> QED
    BY <2>1, <2>2, <2>3
<1>4. ASSUME NEW a \in Actors, ReadRow(a) \/ ReadNothing(a) \/ ReadFiles(a)
      PROVE  Data'
  BY <1>4 DEF ReadRow, ReadNothing, ReadFiles
<1>5. ASSUME NEW a \in Actors, Set(a) \/ Publish(a) \/ SetUnanswered(a)
      PROVE  Data'
  BY <1>5 DEF Set, Publish, SetUnanswered
<1>6. ASSUME NEW a \in Requests, ReadFails(a) \/ SetFails(a) \/ Cut(a)
      PROVE  Data'
  BY <1>6 DEF ReadFails, SetFails, Cut
<1>7. ASSUME NEW a \in Consumers, NEW kept \in BOOLEAN, NEW stops \in BOOLEAN,
             HandlerFails(a, kept, stops)
      PROVE  Data'
  <2>1. /\ faults' = faults + 1
        /\ hints' = hints + 1 \/ hints' = hints
        /\ \/ pc' = [pc EXCEPT ![a] = "stopped"]
           \/ pc' = [pc EXCEPT ![a] = "idle"]
        /\ UNCHANGED <<saved, cache, seen>>
    BY <1>7, Zenon DEF HandlerFails
  <2> QED
    BY <2>1
<1>8. ASSUME NEW a \in Consumers, OffsetCommitFails(a) \/ Restart(a)
      PROVE  Data'
  BY <1>8 DEF OffsetCommitFails, Restart, Actors
<1>9. CASE UNCHANGED vars
  BY <1>9 DEF vars
<1> QED
  BY <1>1, <1>2, <1>3, <1>4, <1>5, <1>6, <1>7, <1>8, <1>9 DEF Next, Proceed

LEMMA DataCorrect == Spec => []Data
<1>1. Init => Data
  BY DEF Init, Data, Projection, Rebuilding
<1> QED
  BY <1>1, DataStep, PTL DEF Spec

(* Type correctness: no count goes below zero, and a copy is a projection. *)
THEOREM TypeCorrect == Spec => []TypeOK
<1>1. Init => Flags
  BY Zenon DEF Init, Flags
<1>2. Flags /\ Data => TypeOK
  BY Zenon DEF Flags, Data, TypeOK
<1> QED
  BY <1>1, <1>2, FlagsStep, DataCorrect, PTL DEF Spec

-----------------------------------------------------------------------------
(***************************************************************************)
(* The copy never shows a message without its files.  What an actor has    *)
(* read so far is never ahead of the database, and what it has read of the *)
(* row is not ahead of what it has read of the files.                      *)
(***************************************************************************)

SeenInOrder ==
  \A a \in Actors :
    /\ pc[a] = "files" => 0 < seen[a].row /\ seen[a].row <= saved
    /\ pc[a] = "set" => /\ 0 < seen[a].row
                        /\ seen[a].row <= seen[a].files
                        /\ seen[a].files <= saved

LEMMA SeenInOrderStep ==
  Data /\ SeenInOrder /\ MessageHasItsFiles /\ [Next]_vars
    => SeenInOrder' /\ MessageHasItsFiles'
<1> SUFFICES ASSUME Data, SeenInOrder, MessageHasItsFiles, [Next]_vars
             PROVE  SeenInOrder' /\ MessageHasItsFiles'
  OBVIOUS
<1> USE NullAssumption
    DEF Data, Projection, SeenInOrder, MessageHasItsFiles, Goto, Fault,
        Rebuilding, Actors, Requests
<1>1. ASSUME NEW a \in Savers, Commit(a)
      PROVE  SeenInOrder' /\ MessageHasItsFiles'
  BY <1>1 DEF Commit
<1>2. ASSUME NEW a \in Readers, Lookup(a) \/ LookupFails(a)
      PROVE  SeenInOrder' /\ MessageHasItsFiles'
  BY <1>2 DEF Lookup, LookupFails
<1>3. ASSUME NEW a \in Consumers, Fetch(a)
      PROVE  SeenInOrder' /\ MessageHasItsFiles'
  BY <1>3 DEF Fetch
<1>4. ASSUME NEW a \in Actors, ReadRow(a)
      PROVE  SeenInOrder' /\ MessageHasItsFiles'
  BY <1>4 DEF ReadRow
<1>5. ASSUME NEW a \in Actors, ReadNothing(a)
      PROVE  SeenInOrder' /\ MessageHasItsFiles'
  BY <1>5 DEF ReadNothing
<1>6. ASSUME NEW a \in Actors, ReadFiles(a)
      PROVE  SeenInOrder' /\ MessageHasItsFiles'
  BY <1>6 DEF ReadFiles
<1>7. ASSUME NEW a \in Actors, Set(a) \/ SetUnanswered(a)
      PROVE  SeenInOrder' /\ MessageHasItsFiles'
  BY <1>7 DEF Set, SetUnanswered
<1>8. ASSUME NEW a \in Requests, Publish(a) \/ ReadFails(a) \/ SetFails(a) \/ Cut(a)
      PROVE  SeenInOrder' /\ MessageHasItsFiles'
  BY <1>8 DEF Publish, ReadFails, SetFails, Cut
<1>9. ASSUME NEW a \in Consumers, NEW kept \in BOOLEAN, NEW stops \in BOOLEAN,
             HandlerFails(a, kept, stops)
      PROVE  SeenInOrder' /\ MessageHasItsFiles'
  BY <1>9 DEF HandlerFails
<1>10. ASSUME NEW a \in Consumers, OffsetCommitFails(a) \/ Restart(a)
       PROVE  SeenInOrder' /\ MessageHasItsFiles'
  BY <1>10 DEF OffsetCommitFails, Restart
<1>11. CASE UNCHANGED vars
  BY <1>11 DEF vars
<1> QED
  BY <1>1, <1>2, <1>3, <1>4, <1>5, <1>6, <1>7, <1>8, <1>9, <1>10, <1>11
     DEF Next, Proceed

LEMMA SeenInOrderCorrect == Spec => [](SeenInOrder /\ MessageHasItsFiles)
<1>1. Init => SeenInOrder /\ MessageHasItsFiles
  BY DEF Init, SeenInOrder, MessageHasItsFiles
<1> QED
  BY <1>1, SeenInOrderStep, DataCorrect, PTL DEF Spec

(* Two SELECTs without a transaction, and still no copy shows a message    *)
(* whose attachments are missing or a delivery that was not committed.     *)
THEOREM CopiesOrdered == Spec => []MessageHasItsFiles
BY SeenInOrderCorrect, PTL

-----------------------------------------------------------------------------
(***************************************************************************)
(* Staleness is repaired.  A consumer may SET what it read before the last *)
(* commit; the copy is stale then, and the saver that committed meanwhile  *)
(* still owes its hint, or has queued it.  Nobody but another consumer     *)
(* could have taken that hint, which overlap records.                      *)
(***************************************************************************)

PcByRole ==
  /\ \A a \in Consumers : pc[a] # "publish"
  /\ \A a \in Requests : pc[a] # "stopped"

OneRebuilding ==
  overlap \/ \A a, b \in Consumers :
               pc[a] \in Rebuilding /\ pc[b] \in Rebuilding => a = b

BehindMeansHintDue ==
  \A a \in Consumers :
    pc[a] \in Rebuilding => ReadsCurrent(a) \/ HintDue \/ lost \/ overlap

RepairInv ==
  /\ PcByRole
  /\ OneRebuilding
  /\ BehindMeansHintDue
  /\ StaleMeansRepairPending

LEMMA RepairInvStep == Data /\ RepairInv /\ [Next]_vars => RepairInv'
<1> SUFFICES ASSUME Data, RepairInv, [Next]_vars
             PROVE  RepairInv'
  OBVIOUS
<1> USE ActorsAssumption
    DEF Data, RepairInv, PcByRole, OneRebuilding, BehindMeansHintDue,
        StaleMeansRepairPending, RepairPending, ReadsCurrent, HintDue,
        Canonical, Rebuilding, Actors, Requests, Goto, Fault, Projection
<1>1. ASSUME NEW a \in Savers, Commit(a)
      PROVE  RepairInv'
  BY <1>1 DEF Commit
<1>2. ASSUME NEW a \in Readers, Lookup(a) \/ LookupFails(a)
      PROVE  RepairInv'
  BY <1>2 DEF Lookup, LookupFails
<1>3. ASSUME NEW a \in Consumers, Fetch(a)
      PROVE  RepairInv'
  BY <1>3 DEF Fetch
<1>4. ASSUME NEW a \in Actors, ReadRow(a)
      PROVE  RepairInv'
  BY <1>4 DEF ReadRow
<1>5. ASSUME NEW a \in Readers, ReadNothing(a)
      PROVE  RepairInv'
  BY <1>5 DEF ReadNothing
<1>6. ASSUME NEW a \in Actors, ReadFiles(a)
      PROVE  RepairInv'
  BY <1>6 DEF ReadFiles
<1>7. ASSUME NEW a \in Actors, Set(a)
      PROVE  RepairInv'
  BY <1>7 DEF Set
<1>8. ASSUME NEW a \in Actors, SetUnanswered(a)
      PROVE  RepairInv'
  BY <1>8 DEF SetUnanswered
<1>9. ASSUME NEW a \in Requests, Publish(a)
      PROVE  RepairInv'
  BY <1>9 DEF Publish
<1>10. ASSUME NEW a \in Requests, ReadFails(a) \/ SetFails(a)
       PROVE  RepairInv'
  BY <1>10 DEF ReadFails, SetFails
<1>11. ASSUME NEW a \in Requests, Cut(a)
       PROVE  RepairInv'
  BY <1>11 DEF Cut
<1>12. ASSUME NEW a \in Consumers, NEW kept \in BOOLEAN, NEW stops \in BOOLEAN,
              HandlerFails(a, kept, stops)
       PROVE  RepairInv'
  <2>1. /\ \A b \in Actors \ {a} : pc'[b] = pc[b]
        /\ pc'[a] \in {"stopped", "idle"}
        /\ UNCHANGED <<saved, cache, seen, overlap>>
    BY <1>12 DEF HandlerFails
  <2>2. hints' > 0 \/ lost'
    <3>1. IF kept THEN hints' = hints + 1 ELSE lost'
      BY <1>12, Zenon DEF HandlerFails
    <3> QED
      BY <3>1
  <2>3. PcByRole' /\ OneRebuilding'
    BY <2>1
  <2>4. BehindMeansHintDue' /\ StaleMeansRepairPending'
    BY <2>2
  <2> QED
    BY <2>3, <2>4
<1>13. ASSUME NEW a \in Consumers, OffsetCommitFails(a)
       PROVE  RepairInv'
  BY <1>13 DEF OffsetCommitFails
<1>14. ASSUME NEW a \in Consumers, Restart(a)
       PROVE  RepairInv'
  BY <1>14 DEF Restart
<1>15. CASE UNCHANGED vars
  BY <1>15 DEF vars
<1> QED
  BY <1>1, <1>2, <1>3, <1>4, <1>5, <1>6, <1>7, <1>8, <1>9, <1>10, <1>11,
     <1>12, <1>13, <1>14, <1>15 DEF Next, Proceed

LEMMA RepairInvCorrect == Spec => []RepairInv
<1>1. Init => RepairInv
  BY DEF Init, RepairInv, PcByRole, OneRebuilding, BehindMeansHintDue,
     StaleMeansRepairPending, Rebuilding, Actors, Requests
<1> QED
  BY <1>1, RepairInvStep, DataCorrect, PTL DEF Spec

(* For any number of overlapping saves, reads and consumers: a stale copy  *)
(* is about to be repaired, unless the hint that would repair it was lost  *)
(* or two consumers rebuilt at once.                                       *)
THEOREM StaleCopiesAreRepaired == Spec => []StaleMeansRepairPending
<1>1. RepairInv => StaleMeansRepairPending
  BY DEF RepairInv
<1> QED
  BY <1>1, RepairInvCorrect, PTL

-----------------------------------------------------------------------------
(***************************************************************************)
(* The delivery copy implements the read model.                            *)
(***************************************************************************)

SomeoneBehind == \E a \in Actors : ReadsBehind(a)

(* What every step but a commit does to the data: nobody falls behind, and *)
(* Redis gets only what an actor was about to SET.                         *)
NobodyFallsBehind ==
  /\ UNCHANGED saved
  /\ SomeoneBehind' => SomeoneBehind
  /\ cache' = cache \/ \E a \in Actors : pc[a] = "set" /\ cache' = seen[a]

(* What it does to the flags: a hint is given up only with a rebuild that  *)
(* was under way, and the last waiver ends only when another one is.       *)
WaiversBacked ==
  /\ lost' \/ overlap' => lost \/ overlap \/ RepairPending \/ SomeoneBehind
  /\ lost \/ overlap => lost' \/ overlap' \/ RepairPending'

LEMMA OtherSteps ==
  ASSUME Data, RepairInv, [Next]_vars, ~ \E a \in Savers : Commit(a)
  PROVE  NobodyFallsBehind /\ WaiversBacked
<1> DEFINE Goal == NobodyFallsBehind /\ WaiversBacked
<1> USE DEF Data, NobodyFallsBehind, WaiversBacked, SomeoneBehind, ReadsBehind,
            RepairPending, ReadsCurrent, HintDue, Canonical, Rebuilding,
            Actors, Requests, Goto, Fault, Projection
<1>1. ASSUME NEW a \in Readers, Lookup(a) \/ LookupFails(a)
      PROVE  Goal
  BY <1>1 DEF Lookup, LookupFails
<1>2. ASSUME NEW a \in Consumers, Fetch(a)
      PROVE  Goal
  BY <1>2 DEF Fetch
<1>3. ASSUME NEW a \in Actors, ReadRow(a)
      PROVE  Goal
  BY <1>3 DEF ReadRow
<1>4. ASSUME NEW a \in Readers, ReadNothing(a)
      PROVE  Goal
  BY <1>4 DEF ReadNothing
<1>5. ASSUME NEW a \in Actors, ReadFiles(a)
      PROVE  Goal
  BY <1>5 DEF ReadFiles
<1>6. ASSUME NEW a \in Actors, Set(a)
      PROVE  Goal
  BY <1>6 DEF Set
<1>7. ASSUME NEW a \in Actors, SetUnanswered(a)
      PROVE  Goal
  BY <1>7 DEF SetUnanswered
<1>8. ASSUME NEW a \in Requests, Publish(a)
      PROVE  Goal
  BY <1>8 DEF Publish
<1>9. ASSUME NEW a \in Requests, ReadFails(a) \/ SetFails(a)
      PROVE  Goal
  BY <1>9 DEF ReadFails, SetFails
<1>10. ASSUME NEW a \in Requests, Cut(a)
       PROVE  Goal
  BY <1>10, ActorsAssumption DEF Cut
<1>11. ASSUME NEW a \in Consumers, NEW kept \in BOOLEAN, NEW stops \in BOOLEAN,
              HandlerFails(a, kept, stops)
       PROVE  Goal
  BY <1>11 DEF HandlerFails
<1>12. ASSUME NEW a \in Consumers, OffsetCommitFails(a)
       PROVE  Goal
  BY <1>12 DEF OffsetCommitFails
<1>13. ASSUME NEW a \in Consumers, Restart(a)
       PROVE  Goal
  BY <1>13 DEF Restart
<1>14. CASE UNCHANGED vars
  BY <1>14 DEF vars
<1> QED
  BY <1>1, <1>2, <1>3, <1>4, <1>5, <1>6, <1>7, <1>8, <1>9, <1>10, <1>11,
     <1>12, <1>13, <1>14 DEF Next, Proceed

LEMMA ReadModelStep ==
  ASSUME Data, Data', MessageHasItsFiles, MessageHasItsFiles',
         RepairInv, StaleMeansRepairPending', [Next]_vars
  PROVE  [Copy!Next]_(Copy!vars)
<1>1. Copy!Owed'
  BY DEF Copy!Owed, StaleMeansRepairPending, Data
<1>2. CASE \E a \in Savers : Commit(a)
  <2>1. saved' = saved + 1 /\ cache' = cache
    BY <1>2 DEF Commit
  <2>2. Copy!Commit
    BY <1>1, <2>1, NullAssumption DEF Copy!Commit, Data, Canonical, Projection
  <2> QED
    BY <2>2 DEF Copy!Next
<1>3. CASE ~ \E a \in Savers : Commit(a)
  <2>1. NobodyFallsBehind /\ WaiversBacked
    BY <1>3, OtherSteps
  <2>2. Copy!Honest
    BY <1>1, <2>1, Zenon
       DEF Copy!Honest, NobodyFallsBehind, WaiversBacked, SomeoneBehind
  <2>3. CASE cache' = cache
    <3>1. Copy!Carry
      BY <2>1, <2>2, <2>3 DEF Copy!Carry, NobodyFallsBehind, Canonical
    <3> QED
      BY <3>1 DEF Copy!Next
  <2>4. CASE cache' # cache
    <3>1. PICK a \in Actors : pc[a] = "set" /\ cache' = seen[a]
      BY <2>1, <2>4 DEF NobodyFallsBehind
    <3>2. seen[a] # Null /\ saved > 0 /\ saved' = saved
      BY <2>1, <3>1, NullAssumption
         DEF Data, MessageHasItsFiles, NobodyFallsBehind, Projection
    <3>3. CASE seen[a] = Canonical
      <4>1. Copy!Show
        BY <2>2, <3>1, <3>2, <3>3 DEF Copy!Show, Canonical
      <4> QED
        BY <4>1 DEF Copy!Next
    <3>4. CASE seen[a] # Canonical
      <4>1. ReadsBehind(a)
        BY <3>1, <3>4 DEF ReadsBehind
      <4>2. Copy!Slip
        BY <2>2, <3>1, <3>2, <3>4, <4>1 DEF Copy!Slip, Canonical
      <4> QED
        BY <4>2 DEF Copy!Next
    <3> QED
      BY <3>3, <3>4
  <2> QED
    BY <2>3, <2>4
<1> QED
  BY <1>2, <1>3

(* For any number of saves, reads and consumers: the delivery copy keeps   *)
(* what a read model promises.                                             *)
THEOREM ReadModelImplemented == Spec => ImplementsReadModel
<1>1. Init => Copy!Init
  <2> SUFFICES ASSUME Init
               PROVE  Copy!Init
    OBVIOUS
  <2>1. ~RepairPending /\ ~ \E a \in Actors : ReadsBehind(a)
    BY DEF Init, RepairPending, HintDue, ReadsCurrent, ReadsBehind, Actors
  <2>2. saved = 0 /\ cache = Null /\ ~(lost \/ overlap)
    BY DEF Init
  <2> QED
    BY <2>1, <2>2 DEF Copy!Init
<1>2. RepairInv => StaleMeansRepairPending
  BY DEF RepairInv
<1>3. Data /\ Data' /\ MessageHasItsFiles /\ MessageHasItsFiles' /\ RepairInv
        /\ StaleMeansRepairPending' /\ [Next]_vars => [Copy!Next]_(Copy!vars)
  BY ReadModelStep
<1> QED
  BY <1>1, <1>2, <1>3, DataCorrect, SeenInOrderCorrect, RepairInvCorrect, PTL
     DEF Spec, ImplementsReadModel, Copy!Spec

-----------------------------------------------------------------------------
(***************************************************************************)
(* What it takes for a copy to stay outdated.  A hint is lost only by a    *)
(* failing call or a stopping process, and two consumers overlap only      *)
(* where there are two.                                                    *)
(***************************************************************************)

LossNeedsFault == faults = 0 => ~lost

LEMMA LossNeedsFaultStep ==
  Data /\ LossNeedsFault /\ [Next]_vars => LossNeedsFault'
<1> SUFFICES ASSUME Data, LossNeedsFault, [Next]_vars
             PROVE  LossNeedsFault'
  OBVIOUS
<1>1. \/ faults' = faults + 1
      \/ faults' = faults /\ (lost' => lost)
  BY Zenon
     DEF Next, vars, Fault, Commit, Lookup, LookupFails, Fetch, Proceed, ReadRow,
         ReadNothing, ReadFiles, Set, Publish, SetUnanswered, ReadFails,
         SetFails, Cut, HandlerFails, OffsetCommitFails, Restart
<1>2. faults \in Nat
  BY Zenon DEF Data
<1>3. CASE faults' = faults + 1
  BY <1>2, <1>3 DEF LossNeedsFault
<1>4. CASE faults' = faults /\ (lost' => lost)
  BY <1>4, Zenon DEF LossNeedsFault
<1> QED
  BY <1>1, <1>3, <1>4, Zenon

LEMMA LossNeedsFaultCorrect == Spec => []LossNeedsFault
<1>1. Init => LossNeedsFault
  BY Zenon DEF Init, LossNeedsFault
<1> QED
  BY <1>1, LossNeedsFaultStep, DataCorrect, PTL DEF Spec

(* When nothing has failed and no hint is queued or owed, the copy is the  *)
(* stored delivery.                                                        *)
QuietMeansCurrent ==
  saved > 0 /\ faults = 0 /\ ~RepairPending => cache = Canonical

(* The swallowed errors apart, the overlap of two consumers is all that    *)
(* can leave an outdated copy in Redis for good, whatever saves and reads  *)
(* interleave.                                                             *)
THEOREM FailureFreeCopiesConverge == Spec => [](QuietMeansCurrent \/ overlap)
<1>1. RepairInv /\ LossNeedsFault => QuietMeansCurrent \/ overlap
  BY Zenon
     DEF RepairInv, StaleMeansRepairPending, LossNeedsFault, QuietMeansCurrent
<1> QED
  BY <1>1, RepairInvCorrect, LossNeedsFaultCorrect, PTL

(* And a service that consumes the hints with one consumer is rid of that. *)
THEOREM OneConsumerConverges ==
  ASSUME \A a, b \in Consumers : a = b
  PROVE  Spec => []QuietMeansCurrent
<1>1. Init => ~overlap
  BY Zenon DEF Init
<1>2. ~overlap /\ [Next]_vars => ~overlap'
  <2>1. ASSUME NEW a \in Consumers, Fetch(a)
        PROVE  ~overlap'
    <3>1. \A b \in Consumers \ {a} : FALSE
      OBVIOUS
    <3> QED
      BY <2>1, <3>1, Zenon DEF Fetch
  <2> QED
    BY <2>1, Zenon
       DEF Next, vars, Commit, Lookup, LookupFails, Proceed, ReadRow, ReadNothing,
           ReadFiles, Set, Publish, SetUnanswered, ReadFails, SetFails, Cut,
           HandlerFails, OffsetCommitFails, Restart
<1>3. Spec => []~overlap
  BY <1>1, <1>2, PTL DEF Spec
<1> QED
  BY <1>3, FailureFreeCopiesConverge, PTL

(* Redis has the stored delivery, and nobody has read part of another one. *)
Settled == cache = Canonical /\ ~SomeoneBehind

(* A current copy that no rebuild is about to overwrite with an older one  *)
(* stays current until the next save: though SET compares nothing, no      *)
(* repeated hint, cache miss or failure brings an old delivery back.       *)
THEOREM SettledStaysSettled ==
  Spec => [][Settled /\ UNCHANGED saved => Settled']_vars
<1>1. ASSUME Data, RepairInv, [Next]_vars, Settled, UNCHANGED saved
      PROVE  Settled'
  <2>1. ~ \E a \in Savers : Commit(a)
    <3>1. saved' # saved + 1
      BY <1>1 DEF Data
    <3> QED
      BY <3>1, Zenon DEF Commit
  <2>2. NobodyFallsBehind
    BY <1>1, <2>1, OtherSteps
  <2>3. Canonical' = Canonical
    BY <1>1, Zenon DEF Canonical
  <2>4. ASSUME NEW a \in Actors, pc[a] = "set"
        PROVE  seen[a] = Canonical
    BY <1>1, <2>4, Zenon DEF Settled, SomeoneBehind, ReadsBehind
  <2>5. cache' = Canonical
    BY <1>1, <2>2, <2>4, Zenon DEF NobodyFallsBehind, Settled
  <2> QED
    BY <1>1, <2>2, <2>3, <2>5, Zenon DEF NobodyFallsBehind, Settled
<1>2. Data /\ RepairInv /\ [Next]_vars
        => [Settled /\ UNCHANGED saved => Settled']_vars
  BY <1>1, Zenon
<1> QED
  BY <1>2, DataCorrect, RepairInvCorrect, PTL DEF Spec

=============================================================================
