----------------------- MODULE FullCopyProjectionProofs -----------------------
(***************************************************************************)
(* Proofs about FullCopyProjection, for either copy, any number of         *)
(* writers, readers and consumers, any versions and any faults.            *)
(***************************************************************************)
EXTENDS FullCopyProjection, TLAPS

(* The flags apart from the data: no prover takes both at once. *)
Flags == empty \in BOOLEAN /\ lost \in BOOLEAN /\ crowded \in BOOLEAN

Data ==
  /\ main \in Versions
  /\ gig \in Versions
  /\ gigAt \in [Versions -> Versions]
  /\ cache \in Copies \cup {Null}
  /\ sent \in [Copies -> Nat]
  /\ pc \in [Actors -> Labels]
  /\ hand \in [Actors -> Copies]
  /\ faults \in Nat

LEMMA FlagsStep == Flags /\ [Next]_vars => Flags'
<1> SUFFICES ASSUME Flags, [Next]_vars
             PROVE  Flags'
  OBVIOUS
<1> USE DEF Flags, stored
<1>1. ASSUME NEW a \in Writers, Commit(a) \/ CommitOnly(a)
      PROVE  Flags'
  BY <1>1, Zenon DEF Commit, CommitOnly, UnderWay, Write, Insert, Reinsert,
     Update
<1>2. ASSUME NEW a \in Readers, Lookup(a) \/ Miss(a) \/ LookupFails(a)
      PROVE  Flags'
  BY <1>2, Zenon DEF Lookup, Miss, LookupFails
<1>3. ASSUME NEW a \in Consumers, FetchAny(a)
      PROVE  Flags'
  BY <1>3, Zenon DEF FetchAny, Fetch
<1>4. ASSUME NEW a \in Actors, Proceed(a) \/ SetUnanswered(a)
      PROVE  Flags'
  BY <1>4, Zenon DEF Proceed, ReadMain, ReadNothing, ReadGig, Set, Publish,
     SetUnanswered
<1>5. ASSUME NEW a \in Requests, SetFails(a) \/ Cut(a)
      PROVE  Flags'
  BY <1>5, Zenon DEF SetFails, Cut
<1>6. ASSUME NEW a \in Consumers, NEW kept \in BOOLEAN, NEW stops \in BOOLEAN,
             HandlerFails(a, kept, stops)
      PROVE  Flags'
  BY <1>6, Zenon DEF HandlerFails
<1>7. ASSUME NEW a \in Consumers, OffsetCommitFails(a) \/ Restart(a)
      PROVE  Flags'
  BY <1>7, Zenon DEF OffsetCommitFails, Restart
<1>8. CASE UNCHANGED vars
  BY <1>8, Zenon DEF vars
<1> QED
  BY <1>1, <1>2, <1>3, <1>4, <1>5, <1>6, <1>7, <1>8, Zenon DEF Next

(* What a commit does to the versions. *)
LEMMA WriteStep ==
  ASSUME Data, Write
  PROVE  /\ main' \in Versions /\ gig' \in Versions
         /\ gigAt' \in [Versions -> Versions]
         /\ main <= main' /\ 0 < main' /\ (main > 0 => gig <= gig')
         /\ \A v \in Versions : v <= main => v = 0 \/ gigAt'[v] = gigAt[v]
         /\ main' # main => main' = main + 1 /\ gigAt'[main'] <= gig'
         /\ <<main', gig'>> # <<main, gig>>
<1>1. MaxVersion \in Nat
  BY Zenon, BoundsAssumption
<1>2. CASE Insert
  <2>1. /\ main = 0 /\ MaxVersion > 0
        /\ main' = 1 /\ gig' = 1
        /\ gigAt' = [gigAt EXCEPT ![1] = 1]
    BY <1>2, Zenon DEF Insert
  <2> QED
    BY <1>1, <2>1 DEF Data, Versions
<1>3. CASE Reinsert
  <2>1. /\ main > 0 /\ gig < MaxVersion
        /\ gig' = gig + 1
        /\ UNCHANGED <<main, gigAt>>
    BY <1>3, Zenon DEF Reinsert
  <2> QED
    BY <1>1, <2>1 DEF Data, Versions
<1>4. CASE Update
  <2>1. /\ main < MaxVersion
        /\ main' = main + 1
        /\ gigAt' = [gigAt EXCEPT ![main + 1] = gig]
        /\ gig' = gig
    BY <1>4, Zenon DEF Update
  <2>2. main \in Versions /\ gig \in Versions /\ gigAt \in [Versions -> Versions]
    BY Zenon DEF Data
  <2>3. main + 1 \in Versions /\ main' # main /\ 0 < main' /\ main <= main'
    BY <1>1, <2>1, <2>2 DEF Versions
  <2>4. /\ gigAt' \in [Versions -> Versions]
        /\ gigAt'[main'] = gig
        /\ \A v \in Versions : v # main + 1 => gigAt'[v] = gigAt[v]
    BY <2>1, <2>2, <2>3
  <2>5. \A v \in Versions : v <= main => v # main + 1
    BY <2>2 DEF Versions
  <2>6. gig <= gig'
    BY <2>1, <2>2 DEF Versions
  <2> QED
    BY <2>1, <2>2, <2>3, <2>4, <2>5, <2>6
<1> QED
  BY <1>2, <1>3, <1>4, Zenon DEF Write

LEMMA DataStep == Data /\ [Next]_vars => Data'
<1> SUFFICES ASSUME Data, [Next]_vars
             PROVE  Data'
  OBVIOUS
<1> USE DEF Data, Goto, Hold, Fault, Labels, stored, copies
<1>1. ASSUME NEW a \in Writers, Commit(a) \/ CommitOnly(a)
      PROVE  Data'
  <2>1. /\ Write
        /\ pc' = pc \/ pc' = [pc EXCEPT ![a] = "read"]
        /\ UNCHANGED <<cache, sent, hand, faults>>
    BY <1>1, Zenon DEF Commit, CommitOnly
  <2> QED
    BY <2>1, WriteStep
<1>2. ASSUME NEW a \in Readers, Lookup(a) \/ Miss(a) \/ LookupFails(a)
      PROVE  Data'
  <2>1. /\ hand' = hand \/ (cache # Null /\ hand' = [hand EXCEPT ![a] = cache])
        /\ \/ pc' = [pc EXCEPT ![a] = "set"]
           \/ pc' = [pc EXCEPT ![a] = "read"]
        /\ faults' = faults \/ faults' = faults + 1
        /\ UNCHANGED <<main, gig, gigAt, cache, sent>>
    BY <1>2, Zenon DEF Lookup, Miss, LookupFails
  <2> QED
    BY <2>1
<1>3. ASSUME NEW a \in Consumers, FetchAny(a)
      PROVE  Data'
  <2>1. PICK c \in Copies :
          /\ sent[c] > 0 /\ sent' = [sent EXCEPT ![c] = @ - 1]
          /\ hand' = [hand EXCEPT ![a] = c]
          /\ pc' = [pc EXCEPT ![a] = "set"]
          /\ UNCHANGED <<main, gig, gigAt, cache, faults>>
    BY <1>3, Zenon DEF FetchAny, Fetch
  <2>2. sent' \in [Copies -> Nat]
    BY <2>1
  <2> QED
    BY <2>1, <2>2
<1>4. ASSUME NEW a \in Actors, ReadMain(a) \/ ReadNothing(a) \/ ReadGig(a)
      PROVE  Data'
  <2>2. CASE ReadMain(a)
    <3>1. /\ hand' = [hand EXCEPT ![a] = Canonical]
          /\ \/ pc' = [pc EXCEPT ![a] = "gig"]
             \/ pc' = [pc EXCEPT ![a] = "set"]
          /\ UNCHANGED <<main, gig, gigAt, cache, sent, faults>>
      BY <2>2, Zenon DEF ReadMain
    <3> QED
      BY <3>1 DEF Copies, Canonical
  <2>3. CASE ReadNothing(a)
    BY <2>3 DEF ReadNothing
  <2>4. CASE ReadGig(a)
    <3>1. /\ hand' = [hand EXCEPT ![a] = [hand[a] EXCEPT !.gig = gig]]
          /\ pc' = [pc EXCEPT ![a] = "set"]
          /\ UNCHANGED <<main, gig, gigAt, cache, sent, faults>>
      BY <2>4, Zenon DEF ReadGig
    <3>2. [hand[a] EXCEPT !.gig = gig] \in Copies
      BY DEF Copies
    <3> QED
      BY <3>1, <3>2
  <2> QED
    BY <1>4, <2>2, <2>3, <2>4
<1>5. ASSUME NEW a \in Actors, Set(a) \/ Publish(a) \/ SetUnanswered(a)
      PROVE  Data'
  BY <1>5 DEF Set, Publish, SetUnanswered
<1>6. ASSUME NEW a \in Requests, SetFails(a) \/ Cut(a)
      PROVE  Data'
  BY <1>6 DEF SetFails, Cut
<1>7. ASSUME NEW a \in Consumers, NEW kept \in BOOLEAN, NEW stops \in BOOLEAN,
             HandlerFails(a, kept, stops)
      PROVE  Data'
  <2>1. /\ faults' = faults + 1
        /\ \/ sent' = [sent EXCEPT ![hand[a]] = @ + 1]
           \/ sent' = [sent EXCEPT ![hand[a]] = @]
        /\ \/ pc' = [pc EXCEPT ![a] = "stopped"]
           \/ pc' = [pc EXCEPT ![a] = "idle"]
        /\ UNCHANGED <<main, gig, gigAt, cache, hand>>
    BY <1>7, Zenon DEF HandlerFails
  <2>2. hand[a] \in Copies
    BY DEF Actors
  <2> QED
    BY <2>1, <2>2
<1>8. ASSUME NEW a \in Consumers, OffsetCommitFails(a) \/ Restart(a)
      PROVE  Data'
  BY <1>8 DEF OffsetCommitFails, Restart, Actors
<1>9. CASE UNCHANGED vars
  BY <1>9 DEF vars
<1> QED
  BY <1>1, <1>2, <1>3, <1>4, <1>5, <1>6, <1>7, <1>8, <1>9 DEF Next, Proceed

LEMMA DataCorrect == Spec => []Data
<1>1. Init => Data
  BY BoundsAssumption DEF Init, Data, Versions, Copies, Labels
<1> QED
  BY <1>1, DataStep, PTL DEF Spec

(* Type correctness: no count goes below zero, and only copies of existing *)
(* versions travel.                                                        *)
THEOREM TypeCorrect == Spec => []TypeOK
<1>1. Init => Flags
  BY Zenon DEF Init, Flags
<1>2. Flags /\ Data => TypeOK
  BY Zenon DEF Flags, Data, TypeOK
<1> QED
  BY <1>1, <1>2, FlagsStep, DataCorrect, PTL DEF Spec

-----------------------------------------------------------------------------
(***************************************************************************)
(* Copies stay well formed.  A commit only raises the versions and writes  *)
(* the history above the row version, so what was well formed stays so; a  *)
(* read fetches the row first, and the gig snapshot only grows until the   *)
(* second SELECT.                                                          *)
(***************************************************************************)

HistoryBehind ==
  \A v \in Versions : 0 < v /\ v <= main => gigAt[v] <= gig

HandGood(a) == pc[a] \in {"gig", "set", "publish"} => WellFormed(hand[a])

FormedInv ==
  /\ HistoryBehind
  /\ cache # Null => WellFormed(cache)
  /\ \A c \in Copies : sent[c] > 0 => WellFormed(c)
  /\ \A a \in Actors : HandGood(a)

LEMMA WellFormedStays ==
  ASSUME Data, Write, NEW c \in Copies, WellFormed(c)
  PROVE  WellFormed(c)'
<1>1. /\ 0 < c.main /\ c.main <= main
      /\ gigAt[c.main] <= c.gig /\ c.gig <= gig
  BY Zenon DEF WellFormed
<1>2. /\ c.main \in Versions /\ c.gig \in Versions
      /\ main \in Versions /\ gig \in Versions
  BY DEF Copies, Data
<1>3. /\ main' \in Versions /\ gig' \in Versions
      /\ main <= main' /\ (main > 0 => gig <= gig')
      /\ \A v \in Versions : v <= main => v = 0 \/ gigAt'[v] = gigAt[v]
  BY WriteStep
<1>4. 0 < c.main /\ c.main <= main' /\ gigAt'[c.main] <= c.gig /\ c.gig <= gig'
  BY <1>1, <1>2, <1>3 DEF Versions
<1> QED
  BY <1>4, Zenon DEF WellFormed

(* A commit; actor a may have gone to "read", nobody else has moved. *)
LEMMA FormedWrite ==
  ASSUME Data, FormedInv, Write, NEW a \in Actors,
         pc' = pc \/ pc' = [pc EXCEPT ![a] = "read"],
         UNCHANGED <<cache, sent, hand>>
  PROVE  FormedInv'
<1>1. ASSUME NEW v \in Versions, 0 < v, v <= main'
      PROVE  gigAt'[v] <= gig'
  <2>1. /\ main \in Versions /\ gig \in Versions
        /\ gigAt \in [Versions -> Versions]
    BY DEF Data
  <2>2. /\ main' \in Versions /\ gig' \in Versions
        /\ main > 0 => gig <= gig'
        /\ v <= main => v = 0 \/ gigAt'[v] = gigAt[v]
        /\ main' # main => main' = main + 1 /\ gigAt'[main'] <= gig'
    BY WriteStep
  <2>3. v <= main => gigAt[v] <= gig
    BY <1>1, Zenon DEF FormedInv, HistoryBehind
  <2>4. CASE v <= main
    BY <1>1, <2>1, <2>2, <2>3, <2>4 DEF Versions
  <2>5. CASE ~(v <= main)
    <3>1. v = main' /\ main' # main
      BY <1>1, <2>1, <2>2, <2>5 DEF Versions
    <3> QED
      BY <2>2, <3>1
  <2> QED
    BY <2>4, <2>5
<1>2. ASSUME cache # Null
      PROVE  WellFormed(cache)'
  <2>1. cache \in Copies /\ WellFormed(cache)
    BY <1>2 DEF FormedInv, Data
  <2>2. PICK c \in Copies : c = cache
    BY <2>1
  <2>3. WellFormed(c)'
    BY <2>1, <2>2, WellFormedStays
  <2>4. cache' = c
    BY <2>2
  <2> QED
    BY <2>3, <2>4, Zenon DEF WellFormed
<1>3. \A c \in Copies : sent'[c] > 0 => WellFormed(c)'
  BY WellFormedStays DEF FormedInv
<1>4. ASSUME NEW b \in Actors
      PROVE  HandGood(b)'
  <2>1. hand'[b] = hand[b] /\ hand[b] \in Copies /\ HandGood(b)
    BY DEF FormedInv, Data
  <2>2. pc'[b] = "read" \/ pc'[b] = pc[b]
    BY DEF Data
  <2>3. ASSUME pc'[b] \in {"gig", "set", "publish"}
        PROVE  WellFormed(hand[b])'
    <3>1. PICK c \in Copies : c = hand[b]
      BY <2>1
    <3>2. WellFormed(c)'
      BY <2>1, <2>2, <2>3, <3>1, WellFormedStays DEF HandGood
    <3> QED
      BY <2>1, <3>1, <3>2 DEF WellFormed
  <2> QED
    BY <2>1, <2>3 DEF HandGood, WellFormed
<1> QED
  BY <1>1, <1>2, <1>3, <1>4 DEF FormedInv, HistoryBehind, WellFormed

(* Any other step of actor a: the stored order is as it was, nobody else   *)
(* has moved, and what a now holds, what is in Redis and what is queued    *)
(* are copies that were there or one that a has read.                      *)
LEMMA FormedMove ==
  ASSUME Data, Data', FormedInv, NEW a \in Actors,
         UNCHANGED <<main, gig, gigAt>>,
         \A b \in Actors \ {a} : pc'[b] = pc[b] /\ hand'[b] = hand[b],
         HandGood(a)',
         cache' # Null => WellFormed(cache'),
         \A c \in Copies : sent'[c] > 0 => WellFormed(c)
  PROVE  FormedInv'
<1>1. HistoryBehind'
  BY DEF FormedInv, HistoryBehind
<1>2. \A c : WellFormed(c)' <=> WellFormed(c)
  BY DEF WellFormed
<1>3. ASSUME NEW b \in Actors
      PROVE  HandGood(b)'
  <2>1. CASE b # a
    <3>1. pc'[b] = pc[b] /\ hand'[b] = hand[b] /\ HandGood(b)
      BY <2>1, Zenon DEF FormedInv
    <3> QED
      BY <3>1, Zenon DEF HandGood, WellFormed
  <2> QED
    BY <2>1, Zenon
<1> QED
  BY <1>1, <1>3 DEF FormedInv, WellFormed

(* There is nothing to read back before the first commit. *)
Readable == empty \/ main > 0

LEMMA ReadableStep == Data /\ Readable /\ [Next]_vars => Readable'
<1> SUFFICES ASSUME Data, Readable, [Next]_vars
             PROVE  Readable'
  OBVIOUS
<1>1. CASE Write
  <2>1. main' \in Versions /\ 0 < main'
    BY <1>1, WriteStep
  <2>2. main' > 0
    BY <2>1 DEF Versions
  <2> QED
    BY <2>2, Zenon DEF Readable
<1>2. CASE UNCHANGED stored
  BY <1>2, Zenon DEF stored, Readable
<1>3. Write \/ UNCHANGED stored
  BY Zenon DEF Next, vars, stored, Commit, CommitOnly, Lookup, Miss,
     LookupFails, FetchAny, Fetch, Proceed, ReadMain, ReadNothing, ReadGig,
     Set, Publish, SetUnanswered, SetFails, Cut, HandlerFails,
     OffsetCommitFails, Restart
<1> QED
  BY <1>1, <1>2, <1>3, Zenon

LEMMA FormedStep ==
  Data /\ Data' /\ Readable /\ FormedInv /\ [Next]_vars => FormedInv'
<1> SUFFICES ASSUME Data, Data', Readable, FormedInv, [Next]_vars
             PROVE  FormedInv'
  OBVIOUS
<1> USE DEF Goto, Hold, stored, copies
<1>1. ASSUME NEW a \in Writers, Commit(a) \/ CommitOnly(a)
      PROVE  FormedInv'
  <2>1. /\ Write
        /\ pc' = pc \/ pc' = [pc EXCEPT ![a] = "read"]
        /\ UNCHANGED <<cache, sent, hand>>
    BY <1>1, Zenon DEF Commit, CommitOnly
  <2>2. a \in Actors
    BY DEF Actors, Requests
  <2> QED
    BY <2>1, <2>2, FormedWrite
<1>2. ASSUME NEW a \in Actors, UNCHANGED <<main, gig, gigAt>>,
             \/ \E label : pc' = [pc EXCEPT ![a] = label]
             \/ UNCHANGED pc,
             \/ \E copy : hand' = [hand EXCEPT ![a] = copy]
             \/ UNCHANGED hand,
             HandGood(a)',
             cache' = cache \/ (pc[a] = "set" /\ cache' = hand[a]),
             \A c \in Copies : sent'[c] > 0 => sent[c] > 0 \/ WellFormed(c)
      PROVE  FormedInv'
  <2>1. \A b \in Actors \ {a} : pc'[b] = pc[b] /\ hand'[b] = hand[b]
    BY <1>2 DEF Data
  <2>2. cache' # Null => WellFormed(cache')
    BY <1>2 DEF FormedInv, HandGood
  <2>3. \A c \in Copies : sent'[c] > 0 => WellFormed(c)
    BY <1>2 DEF FormedInv
  <2> QED
    BY <1>2, <2>1, <2>2, <2>3, FormedMove
<1>3. ASSUME NEW a \in Readers, Lookup(a) \/ Miss(a) \/ LookupFails(a)
      PROVE  FormedInv'
  <2>1. a \in Actors
    BY DEF Actors, Requests
  <2>2. CASE Lookup(a)
    <3>1. /\ UNCHANGED <<main, gig, gigAt, cache, sent>> /\ cache # Null
          /\ hand' = [hand EXCEPT ![a] = cache]
          /\ pc' = [pc EXCEPT ![a] = "set"]
      BY <2>2, Zenon DEF Lookup
    <3>2. pc'[a] = "set" /\ hand'[a] = cache
      BY <2>1, <3>1 DEF Data
    <3>3. HandGood(a)'
      BY <3>1, <3>2 DEF HandGood, FormedInv, WellFormed
    <3> QED
      BY <1>2, <2>1, <3>1, <3>3, Zenon
  <2>3. CASE Miss(a) \/ LookupFails(a)
    <3>1. /\ UNCHANGED <<main, gig, gigAt, cache, sent, hand>>
          /\ pc' = [pc EXCEPT ![a] = "read"]
      BY <2>3, Zenon DEF Miss, LookupFails
    <3>2. pc'[a] = "read"
      BY <2>1, <3>1 DEF Data
    <3>3. HandGood(a)'
      BY <3>2 DEF HandGood
    <3> QED
      BY <1>2, <2>1, <3>1, <3>3, Zenon
  <2> QED
    BY <1>3, <2>2, <2>3
<1>4. ASSUME NEW a \in Consumers, FetchAny(a)
      PROVE  FormedInv'
  <2>1. a \in Actors
    BY DEF Actors
  <2>2. PICK c \in Copies :
          /\ sent[c] > 0 /\ sent' = [sent EXCEPT ![c] = @ - 1]
          /\ hand' = [hand EXCEPT ![a] = c]
          /\ pc' = [pc EXCEPT ![a] = "set"]
          /\ UNCHANGED <<main, gig, gigAt, cache>>
    BY <1>4, Zenon DEF FetchAny, Fetch
  <2>3. hand'[a] = c /\ pc'[a] = "set"
    BY <2>1, <2>2 DEF Data
  <2>4. HandGood(a)'
    BY <2>2, <2>3 DEF HandGood, FormedInv, WellFormed
  <2>5. \A d \in Copies : sent'[d] > 0 => sent[d] > 0
    BY <2>2 DEF Data
  <2> QED
    BY <1>2, <2>1, <2>2, <2>4, <2>5, Zenon
<1>5. ASSUME NEW a \in Actors, ReadMain(a) \/ ReadNothing(a) \/ ReadGig(a)
      PROVE  FormedInv'
  <2>1. CASE ReadMain(a)
    <3>0. main > 0
      BY <2>1, Zenon DEF ReadMain, Readable
    <3>1. /\ hand' = [hand EXCEPT ![a] = Canonical]
          /\ \E label : pc' = [pc EXCEPT ![a] = label]
          /\ UNCHANGED <<main, gig, gigAt, cache, sent>>
      BY <2>1, Zenon DEF ReadMain
    <3>2. gigAt[main] <= gig
      BY <3>0 DEF FormedInv, HistoryBehind, Data, Versions
    <3>3. WellFormed(Canonical)
      BY <3>0, <3>2 DEF WellFormed, Canonical, Data, Versions
    <3>4. WellFormed(Canonical)'
      BY <3>1, <3>3 DEF WellFormed, Canonical
    <3>5. hand'[a] = Canonical'
      BY <3>1 DEF Data, Canonical
    <3>6. HandGood(a)'
      BY <3>4, <3>5, Zenon DEF HandGood, WellFormed
    <3> QED
      BY <1>2, <3>1, <3>6, Zenon
  <2>2. CASE ReadNothing(a)
    <3>1. /\ pc' = [pc EXCEPT ![a] = "idle"]
          /\ UNCHANGED <<main, gig, gigAt, cache, sent, hand>>
      BY <2>2, Zenon DEF ReadNothing
    <3>2. HandGood(a)'
      BY <3>1 DEF HandGood, Data
    <3> QED
      BY <1>2, <3>1, <3>2, Zenon
  <2>3. CASE ReadGig(a)
    <3>1. /\ pc[a] = "gig"
          /\ hand' = [hand EXCEPT ![a] = [hand[a] EXCEPT !.gig = gig]]
          /\ pc' = [pc EXCEPT ![a] = "set"]
          /\ UNCHANGED <<main, gig, gigAt, cache, sent>>
      BY <2>3, Zenon DEF ReadGig
    <3>2. hand[a] \in Copies /\ WellFormed(hand[a])
      BY <3>1 DEF Data, FormedInv, HandGood
    <3>3. hand'[a].main = hand[a].main /\ hand'[a].gig = gig
      BY <3>1, <3>2 DEF Data, Copies
    <3>4. gigAt[hand[a].main] <= gig
      BY <3>2 DEF FormedInv, HistoryBehind, WellFormed, Copies
    <3>5. WellFormed(hand[a])'
      BY <3>1, <3>2, <3>3, <3>4 DEF WellFormed, Data, Versions
    <3>6. HandGood(a)'
      BY <3>5, Zenon DEF HandGood
    <3> QED
      BY <1>2, <3>1, <3>6, Zenon
  <2> QED
    BY <1>5, <2>1, <2>2, <2>3
<1>6. ASSUME NEW a \in Actors,
             Set(a) \/ SetUnanswered(a) \/ SetFails(a) \/ OffsetCommitFails(a)
      PROVE  FormedInv'
  <2>1. /\ pc[a] = "set"
        /\ \/ \E label : pc' = [pc EXCEPT ![a] = label]
           \/ UNCHANGED pc
        /\ cache' = cache \/ cache' = hand[a]
        /\ UNCHANGED <<main, gig, gigAt, sent, hand>>
    BY <1>6, Zenon DEF Set, SetUnanswered, SetFails, OffsetCommitFails
  <2>2. WellFormed(hand[a])
    BY <2>1 DEF FormedInv, HandGood
  <2>3. HandGood(a)'
    BY <2>1, <2>2, Zenon DEF HandGood, WellFormed
  <2> QED
    BY <1>2, <2>1, <2>3, Zenon
<1>7. ASSUME NEW a \in Actors, Publish(a)
      PROVE  FormedInv'
  <2>1. /\ pc[a] = "publish"
        /\ sent' = [sent EXCEPT ![hand[a]] = @ + 1]
        /\ pc' = [pc EXCEPT ![a] = "idle"]
        /\ UNCHANGED <<main, gig, gigAt, cache, hand>>
    BY <1>7, Zenon DEF Publish
  <2>2. WellFormed(hand[a])
    BY <2>1 DEF FormedInv, HandGood
  <2>3. HandGood(a)'
    BY <2>1 DEF HandGood, Data
  <2>4. \A c \in Copies : sent'[c] > 0 => sent[c] > 0 \/ WellFormed(c)
    BY <2>1, <2>2 DEF Data
  <2> QED
    BY <1>2, <2>1, <2>3, <2>4, Zenon
<1>8. ASSUME NEW a \in Consumers, NEW kept \in BOOLEAN, NEW stops \in BOOLEAN,
             HandlerFails(a, kept, stops)
      PROVE  FormedInv'
  <2>1. /\ pc[a] = "set"
        /\ \/ sent' = [sent EXCEPT ![hand[a]] = @ + 1]
           \/ sent' = [sent EXCEPT ![hand[a]] = @]
        /\ \/ pc' = [pc EXCEPT ![a] = "stopped"]
           \/ pc' = [pc EXCEPT ![a] = "idle"]
        /\ UNCHANGED <<main, gig, gigAt, cache, hand>>
    BY <1>8, Zenon DEF HandlerFails
  <2>2. a \in Actors
    BY DEF Actors
  <2>3. WellFormed(hand[a])
    BY <2>1, <2>2 DEF FormedInv, HandGood
  <2>4. HandGood(a)'
    BY <2>1, <2>2 DEF HandGood, Data
  <2>5. \A c \in Copies : sent'[c] > 0 => sent[c] > 0 \/ WellFormed(c)
    BY <2>1, <2>3 DEF Data
  <2>6. \E label : pc' = [pc EXCEPT ![a] = label]
    BY <2>1, Zenon
  <2> QED
    BY <1>2, <2>1, <2>2, <2>4, <2>5, <2>6, Zenon
<1>9. ASSUME NEW a \in Actors, Cut(a) \/ Restart(a)
      PROVE  FormedInv'
  <2>1. /\ pc' = [pc EXCEPT ![a] = "idle"]
        /\ UNCHANGED <<main, gig, gigAt, cache, sent, hand>>
    BY <1>9, Zenon DEF Cut, Restart
  <2>2. HandGood(a)'
    BY <2>1 DEF HandGood, Data
  <2> QED
    BY <1>2, <2>1, <2>2, Zenon
<1>10. CASE UNCHANGED vars
  BY <1>10 DEF vars, FormedInv, HistoryBehind, HandGood, WellFormed
<1>11. Requests \subseteq Actors /\ Consumers \subseteq Actors
  BY Zenon DEF Actors
<1> QED
  BY <1>1, <1>3, <1>4, <1>5, <1>6, <1>7, <1>8, <1>9, <1>10, <1>11, Zenon
  DEF Next, Proceed

(* No copy shows what was never committed, or a status with older gig      *)
(* content.                                                                *)
THEOREM CopiesAreWellFormed == Spec => []CopiesWellFormed
<1>1. Init => FormedInv
  BY DEF Init, FormedInv, HistoryBehind, HandGood, Versions
<1>2. FormedInv => CopiesWellFormed
  BY Zenon DEF FormedInv, HandGood, CopiesWellFormed
<1>3. Init => Readable
  BY Zenon DEF Init, Readable
<1> QED
  BY <1>1, <1>2, <1>3, ReadableStep, FormedStep, DataCorrect, PTL DEF Spec

-----------------------------------------------------------------------------
(***************************************************************************)
(* Stale copies and settled ones.  As long as only current copies are      *)
(* under way, no step but a commit, or a read that finds an outdated copy, *)
(* puts another one under way; and a current copy under way ends up in     *)
(* Redis, in another hand or in the queue, or is dropped for good.         *)
(***************************************************************************)

AtWork(a) == pc[a] \notin {"idle", "stopped"}

Labelled(a) == \E label : pc' = [pc EXCEPT ![a] = label]
Handed(a) == \E copy : hand' = [hand EXCEPT ![a] = copy]

(* What a step of actor a does to the copies, when all are current. *)
LEMMA CurrentMove ==
  ASSUME Data, AllFresh, NEW a \in Actors,
         UNCHANGED <<main, gig>>,
         Labelled(a) \/ UNCHANGED pc,
         Handed(a) \/ UNCHANGED hand,
         AtWork(a)' => Fresh(a)',
         \A c \in Copies : sent'[c] > 0 => sent[c] > 0 \/ c = Canonical,
         Fresh(a) => Fresh(a)' \/ sent'[Canonical] > 0 \/ lost'
                     \/ cache' = Canonical,
         sent[Canonical] > 0 => Fresh(a)' \/ sent'[Canonical] > 0
  PROVE  /\ AllFresh'
         /\ CopyDue => CopyDue' \/ lost' \/ cache' = Canonical
<1>1. Canonical' = Canonical /\ Canonical \in Copies
  BY DEF Canonical, Data, Copies
<1>2. ASSUME NEW b \in Actors, b # a
      PROVE  pc'[b] = pc[b] /\ hand'[b] = hand[b]
  BY <1>2 DEF Data, Labelled, Handed
<1>3. ASSUME NEW b \in Actors, b # a
      PROVE  Fresh(b)' <=> Fresh(b)
  BY <1>1, <1>2, <1>3, Zenon DEF Fresh
<1>4. ASSUME NEW b \in Actors, AtWork(b)'
      PROVE  Fresh(b)'
  BY <1>2, <1>3, <1>4, Zenon DEF AllFresh, AtWork
<1>5. AllFresh'
  BY <1>1, <1>4, Zenon DEF AllFresh, AtWork
<1>6. ASSUME CopyDue
      PROVE  CopyDue' \/ lost' \/ cache' = Canonical
  <2>1. CASE sent[Canonical] > 0
    BY <1>1, <2>1, Zenon DEF CopyDue
  <2>2. ASSUME NEW b \in Actors, Fresh(b)
        PROVE  CopyDue' \/ lost' \/ cache' = Canonical
    BY <1>1, <1>3, <2>2, Zenon DEF CopyDue
  <2> QED
    BY <1>6, <2>1, <2>2, Zenon DEF CopyDue
<1> QED
  BY <1>5, <1>6, Zenon

(* A preview read finds an outdated copy and will write and publish it. *)
PassesOnOld == \E a \in Readers : Lookup(a) /\ cache # Canonical

(* The step of any actor, a commit apart. *)
LEMMA CurrentStep ==
  ASSUME Data, AllFresh, [Next]_vars, UNCHANGED <<main, gig>>
  PROVE  /\ AllFresh' \/ (PassesOnOld /\ crowded')
         /\ cache = Canonical => cache' = Canonical
         /\ ~empty /\ CopyDue => CopyDue' \/ lost' \/ cache' = Canonical
                                   \/ crowded'
<1> USE DEF Goto, Hold, stored, copies
<1> DEFINE Goal == /\ AllFresh' \/ (PassesOnOld /\ crowded')
                   /\ cache = Canonical => cache' = Canonical
                   /\ ~empty /\ CopyDue =>
                        CopyDue' \/ lost' \/ cache' = Canonical \/ crowded'
<1>0. Canonical' = Canonical /\ Canonical \in Copies
  BY DEF Canonical, Data, Copies
<1>1. ASSUME NEW a \in Actors, AtWork(a)
      PROVE  Fresh(a)
  BY <1>1, Zenon DEF AllFresh, AtWork
<1>2. ASSUME NEW a \in Writers, Commit(a) \/ CommitOnly(a)
      PROVE  FALSE
  <2>1. Write
    BY <1>2, Zenon DEF Commit, CommitOnly
  <2> QED
    BY <2>1, WriteStep
<1>3. ASSUME NEW a \in Readers, Lookup(a)
      PROVE  Goal
  <2>1. /\ pc[a] = "idle"
        /\ UNCHANGED <<cache, sent>>
        /\ crowded' = (crowded \/ cache # Canonical)
        /\ hand' = [hand EXCEPT ![a] = cache]
        /\ pc' = [pc EXCEPT ![a] = "set"]
    BY <1>3, Zenon DEF Lookup
  <2>2. CASE cache # Canonical
    BY <1>3, <2>1, <2>2, Zenon DEF PassesOnOld
  <2>3. CASE cache = Canonical
    <3>0. a \in Actors
      BY Zenon DEF Actors, Requests
    <3>1. Labelled(a) /\ Handed(a)
      BY <2>1, Zenon DEF Labelled, Handed
    <3>2. pc'[a] = "set" /\ hand'[a] = Canonical
      BY <2>1, <2>3, <3>0 DEF Data
    <3>3. Fresh(a)'
      BY <1>0, <3>2 DEF Fresh
    <3> QED
      BY <1>0, <2>1, <2>3, <3>0, <3>1, <3>3, CurrentMove, Zenon
  <2> QED
    BY <2>2, <2>3
<1>4. ASSUME NEW a \in Actors, Miss(a) \/ LookupFails(a)
      PROVE  Goal
  <2>1. /\ pc' = [pc EXCEPT ![a] = "read"]
        /\ UNCHANGED <<cache, sent, hand>>
    BY <1>4, Zenon DEF Miss, LookupFails
  <2>2. Fresh(a)'
    BY <2>1 DEF Fresh, Data
  <2>3. Labelled(a)
    BY <2>1, Zenon DEF Labelled
  <2> QED
    BY <1>0, <2>1, <2>2, <2>3, CurrentMove, Zenon
<1>5. ASSUME NEW a \in Actors, FetchAny(a)
      PROVE  Goal
  <2>1. PICK c \in Copies :
          /\ pc[a] = "idle"
          /\ sent[c] > 0 /\ sent' = [sent EXCEPT ![c] = @ - 1]
          /\ hand' = [hand EXCEPT ![a] = c]
          /\ pc' = [pc EXCEPT ![a] = "set"]
          /\ UNCHANGED cache
    BY <1>5, Zenon DEF FetchAny, Fetch
  <2>2. c = Canonical
    BY <2>1, Zenon DEF AllFresh
  <2>3. pc'[a] = "set" /\ hand'[a] = Canonical
    BY <2>1, <2>2 DEF Data
  <2>4. Fresh(a)'
    BY <1>0, <2>3 DEF Fresh
  <2>5. \A d \in Copies : sent'[d] > 0 => sent[d] > 0
    BY <2>1 DEF Data
  <2>6. Labelled(a) /\ Handed(a)
    BY <2>1, Zenon DEF Labelled, Handed
  <2> QED
    BY <1>0, <2>1, <2>4, <2>5, <2>6, CurrentMove, Zenon
<1>6. ASSUME NEW a \in Actors, ReadMain(a) \/ ReadGig(a)
      PROVE  Goal
  <2>1. CASE ReadMain(a)
    <3>1. /\ hand' = [hand EXCEPT ![a] = Canonical]
          /\ \/ pc' = [pc EXCEPT ![a] = "gig"]
             \/ pc' = [pc EXCEPT ![a] = "set"]
          /\ UNCHANGED <<cache, sent>>
      BY <2>1, Zenon DEF ReadMain
    <3>2. hand'[a] = Canonical /\ pc'[a] \in {"gig", "set"}
      BY <3>1 DEF Data
    <3>3. Fresh(a)'
      BY <1>0, <3>2 DEF Fresh, Canonical
    <3>4. Labelled(a) /\ Handed(a)
      BY <3>1, Zenon DEF Labelled, Handed
    <3> QED
      BY <1>0, <3>1, <3>3, <3>4, CurrentMove, Zenon
  <2>2. CASE ReadGig(a)
    <3>1. /\ pc[a] = "gig"
          /\ hand' = [hand EXCEPT ![a] = [hand[a] EXCEPT !.gig = gig]]
          /\ pc' = [pc EXCEPT ![a] = "set"]
          /\ UNCHANGED <<cache, sent>>
      BY <2>2, Zenon DEF ReadGig
    <3>2. Fresh(a)
      BY <1>1, <3>1 DEF AtWork
    <3>3. hand[a].main = main /\ hand[a] \in Copies
      BY <3>1, <3>2 DEF Fresh, Data
    <3>4. pc'[a] = "set" /\ hand'[a] = Canonical
      BY <3>1, <3>3 DEF Data, Copies, Canonical
    <3>5. Fresh(a)'
      BY <1>0, <3>4 DEF Fresh
    <3>6. Labelled(a) /\ Handed(a)
      BY <3>1, Zenon DEF Labelled, Handed
    <3> QED
      BY <1>0, <3>1, <3>5, <3>6, CurrentMove, Zenon
  <2> QED
    BY <1>6, <2>1, <2>2, Zenon
<1>7. ASSUME NEW a \in Actors, ReadNothing(a)
      PROVE  Goal
  <2>1. /\ empty
        /\ pc' = [pc EXCEPT ![a] = "idle"]
        /\ UNCHANGED <<cache, sent, hand>>
    BY <1>7, Zenon DEF ReadNothing
  <2>2. AllFresh'
    <3>1. \A b \in Actors : AtWork(b)' => pc'[b] = pc[b]
      BY <2>1 DEF Data, AtWork
    <3> QED
      BY <1>0, <2>1, <3>1, Zenon DEF AllFresh, AtWork, Fresh
  <2> QED
    BY <1>0, <2>1, <2>2, Zenon
<1>8. ASSUME NEW a \in Actors, Set(a) \/ SetUnanswered(a) \/ OffsetCommitFails(a)
      PROVE  Goal
  <2>1. /\ pc[a] = "set"
        /\ cache' = hand[a]
        /\ \/ \E label \in {"idle", "publish", "stopped"} :
                  pc' = [pc EXCEPT ![a] = label]
           \/ UNCHANGED pc
        /\ UNCHANGED <<sent, hand>>
    BY <1>8, Zenon DEF Set, SetUnanswered, OffsetCommitFails
  <2>2. Fresh(a)
    BY <1>1, <2>1 DEF AtWork
  <2>3. hand[a] = Canonical
    BY <2>1, <2>2 DEF Fresh
  <2>4. pc'[a] \in {"idle", "publish", "stopped", "set"}
    BY <2>1 DEF Data
  <2>5. AtWork(a)' => Fresh(a)'
    BY <1>0, <2>1, <2>3, <2>4 DEF AtWork, Fresh
  <2>6. Labelled(a) \/ UNCHANGED pc
    BY <2>1, Zenon DEF Labelled
  <2> QED
    BY <1>0, <2>1, <2>3, <2>5, <2>6, CurrentMove, Zenon
<1>9. ASSUME NEW a \in Actors, SetFails(a)
      PROVE  Goal
  <2>1. /\ pc[a] = "set"
        /\ pc' = [pc EXCEPT ![a] = "publish"]
        /\ UNCHANGED <<cache, sent, hand>>
    BY <1>9, Zenon DEF SetFails
  <2>2. Fresh(a)
    BY <1>1, <2>1 DEF AtWork
  <2>3. Fresh(a)'
    BY <1>0, <2>1, <2>2 DEF Fresh, Data
  <2>4. Labelled(a)
    BY <2>1, Zenon DEF Labelled
  <2> QED
    BY <1>0, <2>1, <2>3, <2>4, CurrentMove, Zenon
<1>10. ASSUME NEW a \in Actors, Publish(a)
       PROVE  Goal
  <2>1. /\ pc[a] = "publish"
        /\ sent' = [sent EXCEPT ![hand[a]] = @ + 1]
        /\ pc' = [pc EXCEPT ![a] = "idle"]
        /\ UNCHANGED <<cache, hand>>
    BY <1>10, Zenon DEF Publish
  <2>2. Fresh(a)
    BY <1>1, <2>1 DEF AtWork
  <2>3. hand[a] = Canonical
    BY <2>1, <2>2 DEF Fresh
  <2>4. /\ sent'[Canonical] > 0
        /\ \A c \in Copies : sent'[c] > 0 => sent[c] > 0 \/ c = Canonical
    BY <1>0, <2>1, <2>3 DEF Data
  <2>5. ~AtWork(a)'
    BY <2>1 DEF AtWork, Data
  <2>6. Labelled(a)
    BY <2>1, Zenon DEF Labelled
  <2> QED
    BY <1>0, <2>1, <2>4, <2>5, <2>6, CurrentMove, Zenon
<1>11. ASSUME NEW a \in Actors, Cut(a) \/ Restart(a)
       PROVE  Goal
  <2>1. /\ pc' = [pc EXCEPT ![a] = "idle"]
        /\ lost' = (lost \/ Fresh(a)) \/ pc[a] = "stopped"
        /\ UNCHANGED <<cache, sent, hand>>
    BY <1>11, Zenon DEF Cut, Restart
  <2>2. ~AtWork(a)'
    BY <2>1 DEF AtWork, Data
  <2>3. pc[a] = "stopped" => ~Fresh(a)
    BY DEF Fresh
  <2>4. Labelled(a)
    BY <2>1, Zenon DEF Labelled
  <2> QED
    BY <1>0, <2>1, <2>2, <2>3, <2>4, CurrentMove, Zenon
<1>12. ASSUME NEW a \in Actors, NEW kept \in BOOLEAN, NEW stops \in BOOLEAN,
              HandlerFails(a, kept, stops)
       PROVE  Goal
  <2>1. /\ pc[a] = "set"
        /\ \/ kept /\ sent' = [sent EXCEPT ![hand[a]] = @ + 1]
           \/ ~kept /\ sent' = [sent EXCEPT ![hand[a]] = @]
        /\ lost' = (lost \/ (~kept /\ Fresh(a)))
        /\ \/ pc' = [pc EXCEPT ![a] = "stopped"]
           \/ pc' = [pc EXCEPT ![a] = "idle"]
        /\ UNCHANGED <<cache, hand>>
    BY <1>12, Zenon DEF HandlerFails
  <2>2. Fresh(a)
    BY <1>1, <2>1 DEF AtWork
  <2>3. hand[a] = Canonical
    BY <2>1, <2>2 DEF Fresh
  <2>4. ~AtWork(a)'
    BY <2>1 DEF AtWork, Data
  <2>5. Labelled(a)
    BY <2>1, Zenon DEF Labelled
  <2>6. CASE kept
    <3>1. sent' = [sent EXCEPT ![hand[a]] = @ + 1]
      BY <2>1, <2>6, Zenon
    <3>2. /\ sent'[Canonical] > 0
          /\ \A c \in Copies : sent'[c] > 0 => sent[c] > 0 \/ c = Canonical
      BY <1>0, <2>3, <3>1 DEF Data
    <3> QED
      BY <1>0, <2>1, <2>4, <2>5, <3>2, CurrentMove, Zenon
  <2>7. CASE ~kept
    <3>1. sent' = [sent EXCEPT ![hand[a]] = @] /\ lost'
      BY <2>1, <2>2, <2>7, Zenon
    <3>2. \A c \in Copies : sent'[c] > 0 => sent[c] > 0
      BY <3>1 DEF Data
    <3>3. sent[Canonical] > 0 => sent'[Canonical] > 0
      BY <1>0, <3>1 DEF Data
    <3> QED
      BY <1>0, <2>1, <2>4, <2>5, <3>1, <3>2, <3>3, CurrentMove, Zenon
  <2> QED
    BY <2>6, <2>7, Zenon
<1>13. CASE UNCHANGED vars
  BY <1>0, <1>13, Zenon DEF vars, AllFresh, CopyDue, Fresh
<1>14. /\ Writers \subseteq Actors /\ Readers \subseteq Actors
       /\ Requests \subseteq Actors /\ Consumers \subseteq Actors
  BY Zenon DEF Actors, Requests
<1> QED
  BY <1>2, <1>3, <1>4, <1>5, <1>6, <1>7, <1>8, <1>9, <1>10, <1>11, <1>12,
     <1>13, <1>14, Zenon DEF Next, Proceed

(* StaleMeansCopyDue, strengthened to say what the flag crowded is for. *)
StaleInv == (~crowded => AllFresh) /\ StaleMeansCopyDue

(* A commit, and what it leaves under way. *)
LEMMA StaleCommit ==
  ASSUME Data, NEW a \in Writers, Commit(a) \/ CommitOnly(a)
  PROVE  StaleInv'
<1>1. a \in Actors
  BY Zenon DEF Actors, Requests
<1>2. /\ crowded' = UnderWay(a)
      /\ UNCHANGED <<sent, hand>>
      /\ \/ pc' = [pc EXCEPT ![a] = "read"]
         \/ pc[a] = "idle" /\ UNCHANGED pc /\ lost'
  BY Zenon DEF Commit, CommitOnly, Goto, copies
<1>3. pc'[a] = "read" \/ (pc'[a] = "idle" /\ lost')
  BY <1>1, <1>2 DEF Data
<1>4. ASSUME ~crowded'
      PROVE  AllFresh'
  <2>1. \A c \in Copies : ~(sent'[c] > 0)
    BY <1>2, <1>4, Zenon DEF UnderWay
  <2>2. ASSUME NEW b \in Actors, b # a
        PROVE  pc'[b] \notin {"gig", "set", "publish"}
    <3>1. pc[b] \notin {"gig", "set", "publish"}
      BY <1>2, <1>4, <2>2, Zenon DEF UnderWay
    <3> QED
      BY <1>2, <2>2, <3>1 DEF Data
  <2>3. ASSUME NEW b \in Actors
        PROVE  pc'[b] \notin {"gig", "set", "publish"} /\ pc'[b] \in Labels
    BY <1>1, <1>2, <1>3, <2>2 DEF Data, Labels
  <2>4. ASSUME NEW b \in Actors, pc'[b] \notin {"idle", "stopped"}
        PROVE  Fresh(b)'
    BY <2>3, <2>4 DEF Fresh, Labels
  <2> QED
    BY <2>1, <2>4, Zenon DEF AllFresh
<1>5. CopyDue' \/ lost'
  <2>1. CASE pc'[a] = "read"
    BY <1>1, <2>1, Zenon DEF CopyDue, Fresh
  <2> QED
    BY <1>3, <2>1, Zenon
<1> QED
  BY <1>4, <1>5, Zenon DEF StaleInv, StaleMeansCopyDue

(* No step but a commit takes the flags back. *)
FlagsKept ==
  /\ lost => lost'
  /\ crowded => crowded'
  /\ UNCHANGED <<main, empty, gig, gigAt>>

LEMMA FlagsKeptStep ==
  [Next]_vars => FlagsKept \/ \E a \in Writers : Commit(a) \/ CommitOnly(a)
<1> SUFFICES ASSUME [Next]_vars,
                    ~ \E a \in Writers : Commit(a) \/ CommitOnly(a)
             PROVE  FlagsKept
  OBVIOUS
<1>1. lost => lost'
  BY Zenon DEF Next, vars, stored, Lookup, Miss, LookupFails, FetchAny, Fetch, Proceed, ReadMain, ReadNothing,
     ReadGig, Set, Publish, SetUnanswered, SetFails, Cut, HandlerFails,
     OffsetCommitFails, Restart
<1>2. crowded => crowded'
  BY Zenon DEF Next, vars, stored, Lookup, Miss, LookupFails, FetchAny, Fetch, Proceed, ReadMain, ReadNothing,
     ReadGig, Set, Publish, SetUnanswered, SetFails, Cut, HandlerFails,
     OffsetCommitFails, Restart
<1>3. UNCHANGED <<main, empty, gig, gigAt>>
  BY Zenon DEF Next, vars, stored, Lookup, Miss, LookupFails, FetchAny, Fetch, Proceed, ReadMain, ReadNothing,
     ReadGig, Set, Publish, SetUnanswered, SetFails, Cut, HandlerFails,
     OffsetCommitFails, Restart
<1> QED
  BY <1>1, <1>2, <1>3, Zenon DEF FlagsKept

LEMMA StaleStep == Data /\ StaleInv /\ [Next]_vars => StaleInv'
<1> SUFFICES ASSUME Data, StaleInv, [Next]_vars
             PROVE  StaleInv'
  OBVIOUS
<1>1. ASSUME NEW a \in Writers, Commit(a) \/ CommitOnly(a)
      PROVE  StaleInv'
  BY <1>1, StaleCommit
<1>2. ASSUME \A a \in Writers : ~Commit(a) /\ ~CommitOnly(a)
      PROVE  StaleInv'
  <2>1. /\ lost => lost'
        /\ crowded => crowded'
        /\ UNCHANGED <<main, empty, gig>>
    BY <1>2, FlagsKeptStep, Zenon DEF FlagsKept
  <2>2. CASE crowded'
    BY <2>2, Zenon DEF StaleInv, StaleMeansCopyDue
  <2>3. CASE ~crowded'
    <3>1. ~crowded /\ AllFresh
      BY <2>1, <2>3, Zenon DEF StaleInv
    <3>2. /\ AllFresh'
          /\ cache = Canonical => cache' = Canonical
          /\ ~empty /\ CopyDue => CopyDue' \/ lost' \/ cache' = Canonical
      BY <2>1, <2>3, <3>1, CurrentStep, Zenon
    <3>3. Canonical' = Canonical /\ (empty => empty') /\ (lost => lost')
      BY <2>1, Zenon DEF Canonical
    <3>4. StaleMeansCopyDue'
      BY <3>1, <3>2, <3>3, Zenon DEF StaleInv, StaleMeansCopyDue
    <3> QED
      BY <3>2, <3>4, Zenon DEF StaleInv
  <2> QED
    BY <2>2, <2>3, Zenon
<1> QED
  BY <1>1, <1>2, Zenon

LEMMA StaleInvCorrect == Spec => []StaleInv
<1>1. Init => StaleInv
  <2>1. Init => AllFresh
    BY DEF Init, AllFresh
  <2>2. Init => empty
    BY Zenon DEF Init
  <2> QED
    BY <2>1, <2>2, Zenon DEF StaleInv, StaleMeansCopyDue
<1> QED
  BY <1>1, StaleStep, DataCorrect, PTL DEF Spec

(* A stale copy is about to be replaced by a current one, unless such a    *)
(* copy was dropped or the last commit met older copies under way.         *)
THEOREM StaleCopiesAreReplaced == Spec => []StaleMeansCopyDue
<1>1. StaleInv => StaleMeansCopyDue
  BY Zenon DEF StaleInv
<1> QED
  BY <1>1, StaleInvCorrect, PTL

(* Once Redis and everything under way are current, only a commit changes  *)
(* that.                                                                   *)
THEOREM SettledStaysSettled == Spec => SettledUntilCommit
<1>1. ASSUME Data, [Next]_vars, Settled, UNCHANGED <<main, gig>>
      PROVE  Settled'
  <2>1. AllFresh /\ cache = Canonical
    BY <1>1, Zenon DEF Settled
  <2>2. AllFresh' /\ cache' = Canonical
    BY <1>1, <2>1, CurrentStep, Zenon DEF PassesOnOld
  <2>3. Canonical' = Canonical
    BY <1>1, Zenon DEF Canonical
  <2> QED
    BY <2>2, <2>3, Zenon DEF Settled
<1>2. Data /\ [Next]_vars
        => [Settled /\ UNCHANGED <<main, gig>> => Settled']_vars
  BY <1>1, Zenon
<1> QED
  BY <1>2, DataCorrect, PTL DEF Spec, SettledUntilCommit

-----------------------------------------------------------------------------
(***************************************************************************)
(* Without failures.                                                       *)
(***************************************************************************)

NeverSkips == \A a \in Writers : ~CommitOnly(a)

(* As long as no call fails, a copy that nothing under way will replace is *)
(* the stored order.                                                       *)
QuietMeansCurrent ==
  faults = 0 /\ ~empty /\ ~CopyDue => cache = Canonical \/ crowded

LossNeedsFault == faults = 0 => ~lost

LEMMA LossNeedsFaultStep ==
  TypeOK /\ LossNeedsFault /\ [Next]_vars /\ [NeverSkips]_vars => LossNeedsFault'
<1> SUFFICES ASSUME TypeOK, LossNeedsFault, [Next]_vars, [NeverSkips]_vars
             PROVE  LossNeedsFault'
  OBVIOUS
<1>0. faults \in Nat
  BY Zenon DEF TypeOK
<1>1. ASSUME NEW a \in Writers, Commit(a)
      PROVE  LossNeedsFault'
  BY <1>1, Zenon DEF Commit, LossNeedsFault
<1>2. CASE Fault
  <2>1. faults' # 0
    BY <1>0, <1>2 DEF Fault
  <2> QED
    BY <2>1, Zenon DEF LossNeedsFault
<1>3. CASE UNCHANGED <<faults, lost>>
  BY <1>3, Zenon DEF LossNeedsFault
<1>4. CASE UNCHANGED vars
  BY <1>3, <1>4, Zenon DEF vars
<1>5. CASE Next /\ NeverSkips
  BY <1>1, <1>2, <1>3, <1>5, Zenon
  DEF NeverSkips, Next, Lookup, Miss, LookupFails, FetchAny, Fetch, Proceed,
      ReadMain, ReadNothing, ReadGig, Set, Publish, SetUnanswered, SetFails,
      Cut, HandlerFails, OffsetCommitFails, Restart
<1> QED
  BY <1>4, <1>5, Zenon

(* Of the ways a copy can stay behind, failures and CreateDraftOrder's     *)
(* SkipProjection are the only ones that lose it: without them, a copy     *)
(* that is not the stored order is about to be replaced, or the last       *)
(* commit met older copies under way, which nothing puts in order.         *)
THEOREM FailureFreeCopiesConverge ==
  Spec /\ [][NeverSkips]_vars => []QuietMeansCurrent
<1>1. Init => LossNeedsFault
  BY Zenon DEF Init, LossNeedsFault
<1>2. LossNeedsFault /\ StaleMeansCopyDue => QuietMeansCurrent
  BY Zenon DEF LossNeedsFault, StaleMeansCopyDue, QuietMeansCurrent
<1> QED
  BY <1>1, <1>2, LossNeedsFaultStep, TypeCorrect, StaleCopiesAreReplaced, PTL
  DEF Spec

-----------------------------------------------------------------------------
(***************************************************************************)
(* The copy implements the read model.                                     *)
(***************************************************************************)

(* Redis gets only what an actor was about to SET. *)
LEMMA OnlyHandsAreShown ==
  [Next]_vars =>
    cache' = cache \/ \E a \in Actors : pc[a] = "set" /\ cache' = hand[a]
<1>1. /\ Writers \subseteq Actors /\ Readers \subseteq Actors
      /\ Requests \subseteq Actors /\ Consumers \subseteq Actors
  BY Zenon DEF Actors, Requests
<1> QED
  BY <1>1, Zenon
     DEF Next, vars, copies, Commit, CommitOnly, Lookup, Miss, LookupFails,
         FetchAny, Fetch, Proceed, ReadMain, ReadNothing, ReadGig, Set, Publish,
         SetUnanswered, SetFails, Cut, HandlerFails, OffsetCommitFails, Restart

(* No step but a commit gives up a current copy that was not under way, or *)
(* counts a copy as outdated that nobody has taken from Redis.             *)
LEMMA WaiversBacked ==
  ASSUME [Next]_vars, ~ \E a \in Writers : Commit(a) \/ CommitOnly(a)
  PROVE  /\ lost' => lost \/ CopyDue
         /\ crowded' => crowded \/ PassesOnOld
<1>1. Requests \subseteq Actors /\ Consumers \subseteq Actors
  BY Zenon DEF Actors, Requests
<1>2. ASSUME NEW a \in Actors, Fresh(a)
      PROVE  CopyDue
  BY <1>2, Zenon DEF CopyDue
<1>3. lost' => lost \/ CopyDue
  <2>1. ASSUME NEW a \in Requests, Cut(a)
        PROVE  lost' => lost \/ CopyDue
    BY <1>1, <1>2, <2>1, Zenon DEF Cut
  <2>2. ASSUME NEW a \in Consumers, NEW kept \in BOOLEAN, NEW stops \in BOOLEAN,
               HandlerFails(a, kept, stops)
        PROVE  lost' => lost \/ CopyDue
    BY <1>1, <1>2, <2>2, Zenon DEF HandlerFails
  <2> QED
    BY <2>1, <2>2, Zenon
       DEF Next, vars, Lookup, Miss, LookupFails, FetchAny, Fetch, Proceed,
           ReadMain, ReadNothing, ReadGig, Set, Publish, SetUnanswered, SetFails,
           OffsetCommitFails, Restart
<1>4. crowded' => crowded \/ PassesOnOld
  <2>1. ASSUME NEW a \in Readers, Lookup(a)
        PROVE  crowded' => crowded \/ PassesOnOld
    <3>1. crowded' = (crowded \/ cache # Canonical)
      BY <2>1, Zenon DEF Lookup
    <3> QED
      BY <2>1, <3>1, Zenon DEF PassesOnOld
  <2> QED
    BY <2>1, Zenon
       DEF Next, vars, Miss, LookupFails, FetchAny, Fetch, Proceed,
           ReadMain, ReadNothing, ReadGig, Set, Publish, SetUnanswered, SetFails,
           Cut, HandlerFails, OffsetCommitFails, Restart
<1> QED
  BY <1>3, <1>4

(* A preview read takes the outdated copy to pass it on. *)
LEMMA EchoStep ==
  ASSUME Data, NEW a \in Readers, Lookup(a), cache # Canonical
  PROVE  Copy!Echo
<1>1. /\ UNCHANGED <<main, empty, gig, cache>> /\ cache # Null
      /\ crowded' = (crowded \/ cache # Canonical)
      /\ hand' = [hand EXCEPT ![a] = cache]
      /\ pc' = [pc EXCEPT ![a] = "set"]
  BY Zenon DEF Lookup, Hold, Goto, stored, copies
<1>2. a \in Actors
  BY Zenon DEF Actors, Requests
<1>3. pc'[a] = "set" /\ hand'[a] = cache
  BY <1>1, <1>2 DEF Data
<1>4. Canonical' = Canonical
  BY <1>1, Zenon DEF Canonical
<1>5. ~Fresh(a)' /\ pc'[a] \notin {"idle", "stopped"}
  BY <1>3, <1>4 DEF Fresh
<1>6. ~AllFresh'
  BY <1>2, <1>5, Zenon DEF AllFresh
<1>7. crowded'
  BY <1>1, Zenon
<1> QED
  BY <1>1, <1>4, <1>6, <1>7, Zenon DEF Copy!Echo

LEMMA ReadModelStep ==
  ASSUME Data, Data', StaleInv, StaleInv', [Next]_vars
  PROVE  [Copy!Next]_(Copy!vars)
<1>0. Copy!Owed'
  BY Zenon DEF Copy!Owed, StaleInv, StaleMeansCopyDue
<1>1. Canonical' \in Copies /\ Canonical' # Null
  BY BoundsAssumption DEF Data, Canonical, Copies
<1>2. ASSUME NEW a \in Writers, Commit(a) \/ CommitOnly(a)
      PROVE  Copy!Commit
  <2>1. Write /\ cache' = cache
    BY <1>2, Zenon DEF Commit, CommitOnly, copies
  <2>2. <<main', gig'>> # <<main, gig>>
    BY <2>1, WriteStep
  <2>3. Canonical' # Canonical
    BY <2>2 DEF Canonical
  <2> QED
    BY <1>0, <1>1, <2>1, <2>3, Zenon DEF Copy!Commit
<1>3. ASSUME ~ \E a \in Writers : Commit(a) \/ CommitOnly(a), ~PassesOnOld
      PROVE  Copy!Carry \/ Copy!Show \/ Copy!Slip
  <2>1. FlagsKept /\ Canonical' = Canonical
    BY <1>3, FlagsKeptStep, Zenon DEF FlagsKept, Canonical
  <2>2. AllFresh => AllFresh'
    BY <1>3, <2>1, CurrentStep, Zenon DEF FlagsKept
  <2>3. lost' \/ crowded' => lost \/ crowded \/ CopyDue
    BY <1>3, WaiversBacked, Zenon
  <2>4. Copy!Honest
    BY <1>0, <2>1, <2>2, <2>3, Zenon DEF Copy!Honest, FlagsKept
  <2>5. CASE cache' = cache
    BY <2>1, <2>4, <2>5, Zenon DEF Copy!Carry, FlagsKept
  <2>6. CASE cache' # cache
    <3>1. PICK a \in Actors : pc[a] = "set" /\ cache' = hand[a]
      BY <2>6, OnlyHandsAreShown, Zenon
    <3>2. hand[a] # Null
      BY BoundsAssumption DEF Data
    <3>3. CASE hand[a] = Canonical /\ ~empty
      BY <2>1, <2>4, <3>1, <3>3, Zenon DEF Copy!Show, FlagsKept
    <3>4. CASE hand[a] # Canonical \/ empty
      <4>1. ~AllFresh \/ empty
        <5>1. hand[a] # Canonical => ~Fresh(a) /\ pc[a] \notin {"idle", "stopped"}
          BY <3>1 DEF Fresh
        <5> QED
          BY <3>4, <5>1, Zenon DEF AllFresh
      <4>2. cache' \notin {IF empty THEN Null ELSE Canonical, Null}
        BY <3>1, <3>2, <3>4
      <4> QED
        BY <2>1, <2>4, <4>1, <4>2, Zenon DEF Copy!Slip, FlagsKept
    <3> QED
      BY <3>3, <3>4, Zenon
  <2> QED
    BY <2>5, <2>6
<1>4. ASSUME PassesOnOld
      PROVE  Copy!Echo
  BY <1>4, EchoStep DEF PassesOnOld
<1> QED
  BY <1>2, <1>3, <1>4, Zenon DEF Copy!Next

(* For either copy and any number of writers, readers and consumers: the   *)
(* copy keeps what a read model promises.                                  *)
THEOREM ReadModelImplemented == Spec => ImplementsReadModel
<1>1. Init => Copy!Init
  <2> SUFFICES ASSUME Init
               PROVE  Copy!Init
    OBVIOUS
  <2>1. AllFresh /\ ~CopyDue
    <3>1. \A a \in Actors : pc[a] = "idle"
      BY DEF Init
    <3>2. \A c \in Copies : ~(sent[c] > 0)
      BY DEF Init
    <3> QED
      BY <3>1, <3>2 DEF AllFresh, CopyDue, Fresh
  <2>2. empty /\ cache = Null /\ ~lost /\ ~crowded
    BY Zenon DEF Init
  <2> QED
    BY <2>1, <2>2 DEF Copy!Init
<1>2. Data /\ Data' /\ StaleInv /\ StaleInv' /\ [Next]_vars
        => [Copy!Next]_(Copy!vars)
  BY ReadModelStep
<1> QED
  BY <1>1, <1>2, DataCorrect, StaleInvCorrect, PTL
     DEF Spec, ImplementsReadModel, Copy!Spec

=============================================================================
