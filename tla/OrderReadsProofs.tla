--------------------------- MODULE OrderReadsProofs ---------------------------
(***************************************************************************)
(* Proofs about OrderReads, for any number of calls and users.             *)
(***************************************************************************)
EXTENDS OrderReads, TLAPS

Labels == {"done", "lookup", "select", "recheck", "hydrate", "content", "build"}

(* What a step makes of the call r. *)
Becomes(r, label, o, what) ==
  /\ pc' = [pc EXCEPT ![r] = label]
  /\ hand' = [hand EXCEPT ![r] = o]
  /\ response' = [response EXCEPT ![r] = what]

Refused(r) ==
  \/ request[r].kind = "preview" /\ Becomes(r, "done", Null, Plain("NotFound"))
  \/ request[r].kind # "preview" /\ Becomes(r, "recheck", Null, Pending)

Loaded(r, o) ==
  \/ request[r].user \in o.parties /\ Becomes(r, "hydrate", o, Pending)
  \/ request[r].user \notin o.parties /\ Refused(r)

(* The ways a step of a call ends. *)
LEMMA Outcomes ==
  ASSUME TypeOK, NEW r \in Readers
  PROVE  /\ \A label : Goto(r, label) => Becomes(r, label, Null, Pending)
         /\ \A what : Respond(r, what) => Becomes(r, "done", Null, what)
         /\ RefuseAsStranger(r) => Refused(r)
         /\ \A o : Load(r, o) => Loaded(r, o)
<1>1. ASSUME NEW label, Goto(r, label)
      PROVE  Becomes(r, label, Null, Pending)
  BY <1>1 DEF Goto, Becomes
<1>2. ASSUME NEW what, Respond(r, what)
      PROVE  Becomes(r, "done", Null, what)
  BY <1>2 DEF Respond, Becomes
<1>3. RefuseAsStranger(r) => Refused(r)
  BY <1>1, <1>2 DEF RefuseAsStranger, Refused
<1>4. ASSUME NEW o, Load(r, o)
      PROVE  Loaded(r, o)
  BY <1>3, <1>4 DEF Load, Loaded, Becomes
<1> QED
  BY <1>1, <1>2, <1>3, <1>4

LEMMA DataTypes ==
  /\ \A code \in Codes : Plain(code) \in Responses
  /\ Pending \in Responses
  /\ \A file \in BOOLEAN : Links(file) \in Responses
  /\ TypeOK => Row \in Orders
  /\ \A o \in Orders : Copy(o) \in Orders
  /\ \A o \in Orders, a \in Answers : Hydrated(o, a) \in Orders
  /\ \A file \in BOOLEAN : DeliveryCopy(file) \in [links: BOOLEAN]
  /\ \A kind : ErrOrderNotOwned(kind) \in Codes
BY PartiesAssumption
DEF Plain, Pending, Links, Responses, Codes, TypeOK, Row, Orders, Parties,
    Pictures, Copy, Answers, Hydrated, DeliveryCopy, ErrOrderNotOwned

LEMMA BecomesTyped ==
  ASSUME TypeOK, NEW r \in Readers, NEW label \in Labels,
         NEW o \in Orders \cup {Null}, NEW what \in Responses,
         Becomes(r, label, o, what)
  PROVE  /\ pc' \in [Readers -> Labels]
         /\ hand' \in [Readers -> Orders \cup {Null}]
         /\ response' \in [Readers -> Responses]
BY DEF TypeOK, Becomes, Labels

(* All of TypeOK but the three functions that Becomes is about. *)
RestTyped ==
  /\ stored \in BOOLEAN /\ picture \in Pictures
  /\ pictures \subseteq Pictures
  /\ asked \in BOOLEAN /\ delivered \in BOOLEAN
  /\ preview \in Orders \cup {Null}
  /\ reqCopy \in BOOLEAN
  /\ delCopy \in [links: BOOLEAN] \cup {Null}
  /\ request \in [Readers -> Requests]
  /\ failed \in [Readers -> BOOLEAN]
  /\ early \in [Readers -> BOOLEAN]
  /\ short \in [Readers -> BOOLEAN]
  /\ told \in [Readers -> Answers]

LEMMA TypedTogether ==
  TypeOK <=> /\ RestTyped
             /\ pc \in [Readers -> Labels]
             /\ hand \in [Readers -> Orders \cup {Null}]
             /\ response \in [Readers -> Responses]
BY Zenon DEF TypeOK, RestTyped, Labels

(* A call has an order in hand to complete. *)
HandsFull == \A r \in Readers : pc[r] = "hydrate" => hand[r] \in Orders

LEMMA TypeStep == TypeOK /\ HandsFull /\ [Next]_vars => TypeOK'
<1> SUFFICES ASSUME TypeOK, HandsFull, [Next]_vars
             PROVE  TypeOK'
  OBVIOUS
<1> USE DEF order, copies, calls, history
<1>0. /\ RestTyped /\ pc \in [Readers -> Labels]
      /\ hand \in [Readers -> Orders \cup {Null}]
      /\ response \in [Readers -> Responses]
  BY TypedTogether
<1>a. ASSUME RestTyped', NEW r \in Readers, NEW label \in Labels,
             NEW o \in Orders \cup {Null}, NEW what \in Responses,
             Becomes(r, label, o, what)
      PROVE  TypeOK'
  <2>1. /\ pc' \in [Readers -> Labels]
        /\ hand' \in [Readers -> Orders \cup {Null}]
        /\ response' \in [Readers -> Responses]
    BY <1>a, BecomesTyped
  <2> QED
    BY <1>a, <2>1, Zenon DEF TypeOK, RestTyped, Labels
<1>b. ASSUME RestTyped', UNCHANGED <<pc, hand, response>>
      PROVE  TypeOK'
  BY <1>0, <1>b DEF TypeOK, RestTyped, Labels
<1>d. /\ Null \in Orders \cup {Null}
      /\ Pending \in Responses /\ Plain("NotFound") \in Responses
  BY DataTypes DEF Codes
<1>e. ASSUME NEW r \in Readers, RestTyped', Refused(r)
      PROVE  TypeOK'
  BY <1>a, <1>d, <1>e DEF Refused, Labels
<1>1. ASSUME Command
      PROVE  TypeOK'
  <2>1. ASSUME NEW file \in Pictures, Create(file)
        PROVE  RestTyped' /\ UNCHANGED <<pc, hand, response>>
    BY <1>0, <2>1 DEF Create, RestTyped
  <2>2. ASSUME NEW file \in Pictures, NEW a \in Answers, Refresh(file, a)
        PROVE  RestTyped' /\ UNCHANGED <<pc, hand, response>>
    <3>1. [Row EXCEPT !.picture = file] \in Orders
      BY DataTypes DEF Orders
    <3>2. Copy(Hydrated([Row EXCEPT !.picture = file], a)) \in Orders
      BY <3>1, DataTypes
    <3> QED
      BY <1>0, <2>2, <3>2 DEF Refresh, RestTyped
  <2>3. ASSUME NEW set \in BOOLEAN, SaveRequirements(set)
        PROVE  RestTyped' /\ UNCHANGED <<pc, hand, response>>
    BY <1>0, <2>3 DEF SaveRequirements, RestTyped
  <2>4. ASSUME BlankRequirements
        PROVE  RestTyped' /\ UNCHANGED <<pc, hand, response>>
    <3>1. short' \in [Readers -> BOOLEAN]
      BY <2>4, Zenon DEF BlankRequirements
    <3> QED
      BY <1>0, <2>4, <3>1 DEF BlankRequirements, RestTyped
  <2>5. ASSUME NEW set \in BOOLEAN, NEW file \in BOOLEAN, SaveDelivery(set, file)
        PROVE  RestTyped' /\ UNCHANGED <<pc, hand, response>>
    BY <1>0, <2>5, DataTypes DEF SaveDelivery, RestTyped
  <2> QED
    BY <1>1, <1>b, <2>1, <2>2, <2>3, <2>4, <2>5, Zenon DEF Command
<1>2. ASSUME NEW r \in Readers, NEW kind \in Kinds, NEW user \in Users \cup {Blank},
             NEW role \in BOOLEAN, Begin(r, kind, user, role)
      PROVE  TypeOK'
  <2>1. RestTyped'
    <3>1. /\ [kind |-> kind, user |-> user] \in Requests
          /\ [file |-> FALSE, users |-> {}] \in Answers
      BY DEF Requests, Answers
    <3> QED
      BY <1>0, <1>2, <3>1 DEF Begin, RestTyped
  <2>2. \/ \E code \in {"InvalidArgument", "NotFound"} : Respond(r, Plain(code))
        \/ Goto(r, "lookup")
    BY <1>2, Zenon DEF Begin
  <2>3. \/ \E code \in Codes : Becomes(r, "done", Null, Plain(code))
        \/ Becomes(r, "lookup", Null, Pending)
    BY <2>2, Outcomes DEF Codes
  <2> QED
    BY <1>a, <1>d, <2>1, <2>3, DataTypes DEF Labels
<1>3. ASSUME NEW r \in Readers, NEW o \in Orders, Load(r, o), RestTyped'
      PROVE  TypeOK'
  <2>1. Loaded(r, o)
    BY <1>3, Outcomes
  <2> QED
    BY <1>3, <1>a, <1>d, <1>e, <2>1 DEF Loaded, Labels
<1>4. ASSUME NEW r \in Readers, FindCopy(r) \/ SelectOrder(r)
      PROVE  TypeOK'
  <2>1. RestTyped'
    BY <1>0, <1>4 DEF FindCopy, SelectOrder, RestTyped
  <2>2. \E o \in Orders : Load(r, o)
    BY <1>0, <1>4, DataTypes DEF FindCopy, SelectOrder, RestTyped
  <2> QED
    BY <1>3, <2>1, <2>2
<1>5. ASSUME NEW r \in Readers, FindNoCopy(r) \/ FindNoContent(r)
      PROVE  TypeOK'
  <2>1. RestTyped'
    BY <1>0, <1>5 DEF FindNoCopy, FindNoContent, RestTyped
  <2>2. \E label \in Labels : Becomes(r, label, Null, Pending)
    BY <1>5, Outcomes DEF FindNoCopy, FindNoContent, Labels
  <2> QED
    BY <1>a, <1>d, <2>1, <2>2
<1>6. ASSUME NEW r \in Readers, NEW fails \in BOOLEAN, SelectNoOrder(r, fails)
      PROVE  TypeOK'
  <2>1. RestTyped'
    BY <1>0, <1>6 DEF SelectNoOrder, RestTyped
  <2>2. Refused(r)
    BY <1>6, Outcomes DEF SelectNoOrder
  <2> QED
    BY <1>e, <2>1, <2>2
(* The steps that end a call with a code and nothing else to show. *)
<1>7. ASSUME NEW r \in Readers, NEW code \in Codes, Respond(r, Plain(code)),
             RestTyped'
      PROVE  TypeOK'
  <2>1. Becomes(r, "done", Null, Plain(code))
    BY <1>7, Outcomes
  <2> QED
    BY <1>7, <1>a, <1>d, <2>1, DataTypes DEF Labels
<1>8. ASSUME NEW r \in Readers, NEW fails \in BOOLEAN, Recheck(r, fails)
      PROVE  TypeOK'
  <2>1. RestTyped'
    BY <1>0, <1>8 DEF Recheck, RestTyped
  <2>2. \E code \in Codes : Respond(r, Plain(code))
    BY <1>8, DataTypes DEF Recheck, Codes
  <2> QED
    BY <1>7, <2>1, <2>2
<1>9. ASSUME NEW r \in Readers, FindRequirements(r)
      PROVE  TypeOK'
  <2>1. RestTyped'
    BY <1>0, <1>9 DEF FindRequirements, RestTyped
  <2> QED
    BY <1>7, <1>9, <2>1 DEF FindRequirements, Codes
<1>10. ASSUME NEW r \in Readers, NEW fails \in BOOLEAN, NEW set \in BOOLEAN,
              SelectRequirements(r, fails, set)
       PROVE  TypeOK'
  <2>1. RestTyped'
    BY <1>0, <1>10 DEF SelectRequirements, RestTyped
  <2>2. \E code \in Codes : Respond(r, Plain(code))
    BY <1>10 DEF SelectRequirements, Codes
  <2> QED
    BY <1>7, <2>1, <2>2
<1>11. ASSUME NEW r \in Readers, NEW fails \in BOOLEAN, SelectNoDelivery(r, fails)
       PROVE  TypeOK'
  <2>1. RestTyped'
    BY <1>0, <1>11 DEF SelectNoDelivery, RestTyped
  <2>2. \E code \in Codes : Respond(r, Plain(code))
    BY <1>11 DEF SelectNoDelivery, Codes
  <2> QED
    BY <1>7, <2>1, <2>2
<1>12. ASSUME NEW r \in Readers, NEW file \in BOOLEAN, FindDelivery(r, file)
       PROVE  TypeOK'
  <2>1. told' \in [Readers -> Answers]
    BY <1>0, <1>12 DEF FindDelivery, RestTyped, Answers
  <2>2. RestTyped'
    BY <1>0, <1>12, <2>1 DEF FindDelivery, RestTyped
  <2>3. PICK what \in Responses : Respond(r, what)
    <3>1. delCopy \in [links: BOOLEAN] /\ Respond(r, Links(delCopy.links \/ file))
      BY <1>0, <1>12, Zenon DEF FindDelivery, RestTyped
    <3>2. (delCopy.links \/ file) \in BOOLEAN
      BY <3>1
    <3> QED
      BY <3>1, <3>2, DataTypes, Zenon
  <2> QED
    BY <1>a, <1>d, <2>2, <2>3, Outcomes DEF Labels
<1>13. ASSUME NEW r \in Readers, NEW file \in BOOLEAN, NEW set \in BOOLEAN,
              SelectDelivery(r, file, set)
       PROVE  TypeOK'
  <2>1. told' \in [Readers -> Answers]
    BY <1>0, <1>13 DEF SelectDelivery, RestTyped, Answers
  <2>2. RestTyped'
    BY <1>0, <1>13, <2>1, DataTypes DEF SelectDelivery, RestTyped
  <2>3. PICK what \in Responses : Respond(r, what)
    BY <1>13, DataTypes, Zenon DEF SelectDelivery
  <2> QED
    BY <1>a, <1>d, <2>2, <2>3, Outcomes DEF Labels
<1>14. ASSUME NEW r \in Readers, NEW first \in Answers, NEW second \in Answers,
              NEW set \in BOOLEAN, Hydrate(r, first, second, set)
       PROVE  TypeOK'
  <2> DEFINE shown == Hydrated(hand[r], first)
             refreshed == Hydrated(shown, second)
             what == [Plain("OK") EXCEPT !.picture = shown.picture,
                                         !.url = shown.url,
                                         !.people = refreshed.people]
  <2>1. shown \in Orders /\ refreshed \in Orders
    <3>1. hand[r] \in Orders
      BY <1>14, Zenon DEF Hydrate, HandsFull
    <3> QED
      BY <3>1, DataTypes
  <2>2. /\ preview' = IF set THEN Copy(refreshed) ELSE preview
        /\ told' = [told EXCEPT ![r] = [file |-> first.file,
                                        users |-> first.users \cup second.users]]
        /\ UNCHANGED <<order, reqCopy, delCopy, request, failed, early, short>>
        /\ Respond(r, what) \/ Goto(r, "content")
    BY <1>14, Zenon DEF Hydrate
  <2>3. [file |-> first.file, users |-> first.users \cup second.users] \in Answers
    BY DEF Answers
  <2>4. what \in Responses
    <3> HIDE DEF shown, refreshed
    <3> QED
      BY <2>1 DEF Orders, Responses, Codes, Plain
  <2>5. preview' \in Orders \cup {Null}
    <3> HIDE DEF refreshed
    <3> QED
      BY <1>0, <2>1, <2>2, DataTypes DEF RestTyped
  <2> HIDE DEF shown, refreshed, what
  <2>6. RestTyped'
    BY <1>0, <2>2, <2>3, <2>5 DEF RestTyped
  <2>7. \/ Becomes(r, "done", Null, what)
        \/ Becomes(r, "content", Null, Pending)
    BY <2>2, Outcomes
  <2> QED
    BY <1>a, <1>d, <2>4, <2>6, <2>7 DEF Labels
<1>15. CASE UNCHANGED vars
  BY <1>0, <1>b, <1>15 DEF vars, RestTyped
<1> QED
  BY <1>1, <1>2, <1>4, <1>5, <1>6, <1>8, <1>9, <1>10, <1>11, <1>12, <1>13, <1>14,
     <1>15, Zenon DEF Next, Read

-----------------------------------------------------------------------------
(***************************************************************************)
(* What a copy and a call have to do with the stored order.                *)
(***************************************************************************)

(* Copies are copies of the order, and there are none without it. *)
CopiesBacked ==
  /\ preview # Null => /\ stored
                       /\ preview.parties = Parties
                       /\ preview.url \in {Blank, preview.picture}
  /\ asked \/ delivered \/ reqCopy \/ delCopy # Null \/ pictures # {} => stored

(* A call in progress knows why it may still refuse a party. *)
UnderWay(r) ==
  /\ request[r].user # Blank
  /\ stored \/ early[r]
  /\ request[r].kind = "requirements" => asked \/ short[r]
  /\ request[r].kind = "delivery" => delivered \/ short[r]

Admitted(r) == stored /\ request[r].user \in Parties

Served(r) ==
  /\ response[r].code = "OK" => Admitted(r)
  /\ response[r].code = "PermissionDenied" => stored

NotRefused(r) ==
  request[r].user \in Parties =>
    \/ response[r].code = "OK"
    \/ request[r].kind = "preview" /\ response[r].code = "InvalidArgument"
    \/ failed[r]
    \/ early[r]
    \/ short[r] /\ response[r].code = "NotFound"

Fresh(r) ==
  response[r].code = "OK" =>
    /\ request[r].kind = "preview" =>
         /\ \/ response[r].url = response[r].picture
            \/ response[r].url = Blank /\ ~told[r].file
         /\ response[r].people \cup (Participants \ told[r].users) = Participants
    /\ request[r].kind = "delivery" => response[r].links \/ ~told[r].file

CallInv(r) ==
  /\ pc[r] # "done" => UnderWay(r)
  /\ pc[r] = "recheck" =>
       /\ request[r].kind # "preview"
       /\ request[r].user \in Parties => failed[r] \/ early[r]
  /\ pc[r] = "hydrate" =>
       /\ Admitted(r)
       /\ hand[r] \in Orders /\ hand[r].parties = Parties
       /\ hand[r].url \in {Blank, hand[r].picture}
  /\ pc[r] \in {"content", "build"} => Admitted(r) /\ request[r].kind # "preview"
  /\ pc[r] = "done" /\ request[r].user # Blank =>
       Served(r) /\ NotRefused(r) /\ Fresh(r)

ReadInv == CopiesBacked /\ \A r \in Readers : CallInv(r)

(* What a command or another call may do to a call: the order appears, and *)
(* content that goes away leaves its mark.                                 *)
LEMMA CallKept ==
  ASSUME TypeOK, ReadInv, NEW r \in Readers,
         pc'[r] = pc[r], request'[r] = request[r], hand'[r] = hand[r],
         response'[r] = response[r], failed'[r] = failed[r], early'[r] = early[r],
         told'[r] = told[r], short[r] => short'[r],
         stored => stored', delivered => delivered',
         asked => asked' \/ (request[r].kind = "requirements" => short'[r])
  PROVE  CallInv(r)'
<1>0. CallInv(r)
  BY DEF ReadInv
<1>1. (pc[r] # "done" => UnderWay(r))'
  BY <1>0 DEF CallInv, UnderWay
<1>2. Admitted(r) => Admitted(r)'
  BY DEF Admitted
<1>3. Served(r) /\ NotRefused(r) /\ Fresh(r) =>
        Served(r)' /\ NotRefused(r)' /\ Fresh(r)'
  BY <1>2 DEF Served, NotRefused, Fresh, Admitted
<1>4. (pc[r] = "recheck" =>
         /\ request[r].kind # "preview"
         /\ request[r].user \in Parties => failed[r] \/ early[r])'
  BY <1>0 DEF CallInv
<1>5. (pc[r] = "hydrate" =>
         /\ Admitted(r)
         /\ hand[r] \in Orders /\ hand[r].parties = Parties
         /\ hand[r].url \in {Blank, hand[r].picture})'
  BY <1>0, <1>2 DEF CallInv
<1>6. (pc[r] \in {"content", "build"} => Admitted(r) /\ request[r].kind # "preview")'
  BY <1>0, <1>2 DEF CallInv
<1>7. (pc[r] = "done" /\ request[r].user # Blank =>
         Served(r) /\ NotRefused(r) /\ Fresh(r))'
  BY <1>0, <1>3 DEF CallInv
<1> QED
  BY <1>1, <1>4, <1>5, <1>6, <1>7 DEF CallInv

LEMMA CommandStep ==
  ASSUME TypeOK, ReadInv, Command
  PROVE  ReadInv'
<1> USE DEF order, copies, calls, history
<1>1. ASSUME NEW file \in Pictures, Create(file)
      PROVE  ReadInv'
  <2>1. CopiesBacked'
    BY <1>1 DEF Create, ReadInv, CopiesBacked
  <2>2. \A r \in Readers : CallInv(r)'
    BY <1>1, CallKept DEF Create
  <2> QED
    BY <2>1, <2>2 DEF ReadInv
<1>2. ASSUME NEW file \in Pictures, NEW a \in Answers, Refresh(file, a)
      PROVE  ReadInv'
  <2> DEFINE new == Copy(Hydrated([Row EXCEPT !.picture = file], a))
  <2>1. new.parties = Parties /\ new.url \in {Blank, new.picture}
    BY DEF Copy, Hydrated, Row
  <2> HIDE DEF new
  <2>4. preview' = new /\ file \in pictures /\ UNCHANGED <<order, reqCopy, delCopy>>
    BY <1>2 DEF Refresh, new
  <2>2. CopiesBacked'
    BY <2>1, <2>4 DEF ReadInv, CopiesBacked
  <2>3. \A r \in Readers : CallInv(r)'
    BY <1>2, CallKept DEF Refresh
  <2> QED
    BY <2>2, <2>3 DEF ReadInv
<1>3. ASSUME NEW set \in BOOLEAN, SaveRequirements(set)
      PROVE  ReadInv'
  <2>1. CopiesBacked'
    BY <1>3 DEF SaveRequirements, ReadInv, CopiesBacked
  <2>2. \A r \in Readers : CallInv(r)'
    BY <1>3, CallKept DEF SaveRequirements
  <2> QED
    BY <2>1, <2>2 DEF ReadInv
<1>4. ASSUME BlankRequirements
      PROVE  ReadInv'
  <2>1. CopiesBacked'
    BY <1>4 DEF BlankRequirements, ReadInv, CopiesBacked
  <2>2. \A r \in Readers :
          short'[r] = (short[r] \/ request[r].kind = "requirements")
    BY <1>4 DEF BlankRequirements
  <2>3. \A r \in Readers : CallInv(r)'
    BY <1>4, <2>2, CallKept DEF BlankRequirements
  <2> QED
    BY <2>1, <2>3 DEF ReadInv
<1>5. ASSUME NEW set \in BOOLEAN, NEW file \in BOOLEAN, SaveDelivery(set, file)
      PROVE  ReadInv'
  <2>1. CopiesBacked'
    BY <1>5 DEF SaveDelivery, ReadInv, CopiesBacked
  <2>2. \A r \in Readers : CallInv(r)'
    BY <1>5, CallKept DEF SaveDelivery
  <2> QED
    BY <2>1, <2>2 DEF ReadInv
<1> QED
  BY <1>1, <1>2, <1>3, <1>4, <1>5, Zenon DEF Command

(* A read changes nothing of the order and of the other calls. *)
Alone(r) ==
  /\ UNCHANGED order
  /\ \A q \in Readers \ {r} :
       /\ pc'[q] = pc[q] /\ request'[q] = request[q] /\ hand'[q] = hand[q]
       /\ response'[q] = response[q] /\ failed'[q] = failed[q]
       /\ early'[q] = early[q] /\ short'[q] = short[q] /\ told'[q] = told[q]

LEMMA BecomesAt ==
  ASSUME TypeOK, NEW r \in Readers, NEW label, NEW o, NEW what,
         Becomes(r, label, o, what)
  PROVE  /\ pc'[r] = label /\ hand'[r] = o /\ response'[r] = what
         /\ \A q \in Readers \ {r} :
              pc'[q] = pc[q] /\ hand'[q] = hand[q] /\ response'[q] = response[q]
BY DEF TypeOK, Becomes

LEMMA OthersKept ==
  ASSUME TypeOK, ReadInv, NEW r \in Readers, Alone(r), CopiesBacked', CallInv(r)'
  PROVE  ReadInv'
<1>1. ASSUME NEW q \in Readers \ {r}
      PROVE  CallInv(q)'
  BY CallKept DEF Alone, order
<1> QED
  BY <1>1 DEF ReadInv

(* A party is refused only by a SELECT that failed or came too early; a    *)
(* stranger is in no call's hand. *)
LEMMA RefusedStep ==
  ASSUME TypeOK, ReadInv, NEW r \in Readers, Alone(r), Refused(r),
         pc[r] # "done", UNCHANGED copies, request'[r] = request[r],
         early'[r] = early[r], short'[r] = short[r], failed[r] => failed'[r],
         request[r].user \in Parties => failed'[r] \/ early[r]
  PROVE  ReadInv'
<1>1. UnderWay(r)
  BY DEF ReadInv, CallInv
<1>2. CopiesBacked'
  BY DEF ReadInv, CopiesBacked, Alone, order, copies
<1>3. CASE request[r].kind = "preview" /\ Becomes(r, "done", Null, Plain("NotFound"))
  <2>1. pc'[r] = "done" /\ response'[r].code = "NotFound"
    BY <1>3, BecomesAt DEF Plain
  <2>2. CallInv(r)'
    BY <1>3, <2>1 DEF CallInv, Served, NotRefused, Fresh
  <2> QED
    BY <1>2, <2>2, OthersKept
<1>4. CASE request[r].kind # "preview" /\ Becomes(r, "recheck", Null, Pending)
  <2>1. pc'[r] = "recheck"
    BY <1>4, BecomesAt
  <2>2. CallInv(r)'
    BY <1>1, <1>4, <2>1 DEF CallInv, UnderWay, Alone, order
  <2> QED
    BY <1>2, <2>2, OthersKept
<1> QED
  BY <1>3, <1>4 DEF Refused

LEMMA LoadStep ==
  ASSUME TypeOK, ReadInv, NEW r \in Readers, Alone(r), NEW o \in Orders, Load(r, o),
         pc[r] # "done", UNCHANGED <<copies, request, history>>,
         stored, o.parties = Parties, o.url \in {Blank, o.picture}
  PROVE  ReadInv'
<1>1. UnderWay(r)
  BY DEF ReadInv, CallInv
<1>2. CASE request[r].user \in o.parties /\ Becomes(r, "hydrate", o, Pending)
  <2>1. pc'[r] = "hydrate" /\ hand'[r] = o
    BY <1>2, BecomesAt
  <2>2. CopiesBacked'
    BY DEF ReadInv, CopiesBacked, Alone, order, copies
  <2>3. CallInv(r)'
    BY <1>1, <1>2, <2>1 DEF CallInv, UnderWay, Admitted, Alone, order, history
  <2> QED
    BY <2>2, <2>3, OthersKept
<1>3. CASE request[r].user \notin o.parties /\ Refused(r)
  BY <1>3, RefusedStep DEF history
<1> QED
  BY <1>2, <1>3, Outcomes DEF Loaded

(* A call that goes on with nothing in its hand. *)
LEMMA GotoStep ==
  ASSUME TypeOK, ReadInv, NEW r \in Readers, Alone(r),
         NEW label \in {"lookup", "select", "content", "build"}, Goto(r, label),
         CopiesBacked', UnderWay(r)',
         label \in {"content", "build"} =>
           Admitted(r) /\ request'[r] = request[r] /\ request[r].kind # "preview"
  PROVE  ReadInv'
<1>1. pc'[r] = label
  BY Outcomes, BecomesAt
<1>2. CallInv(r)'
  BY <1>1 DEF CallInv, Admitted, Alone, order
<1> QED
  BY <1>2, OthersKept

(* A call that ends. *)
LEMMA RespondStep ==
  ASSUME TypeOK, ReadInv, NEW r \in Readers, Alone(r), NEW what, Respond(r, what),
         CopiesBacked',
         what.code = "OK" => Admitted(r) /\ request'[r] = request[r],
         what.code = "PermissionDenied" => stored,
         request'[r].user \in Parties =>
           \/ what.code = "OK"
           \/ request'[r].kind = "preview" /\ what.code = "InvalidArgument"
           \/ failed'[r]
           \/ early'[r]
           \/ short'[r] /\ what.code = "NotFound",
         what.code = "OK" =>
           /\ request'[r].kind = "preview" =>
                /\ \/ what.url = what.picture
                   \/ what.url = Blank /\ ~told'[r].file
                /\ what.people \cup (Participants \ told'[r].users) = Participants
           /\ request'[r].kind = "delivery" => what.links \/ ~told'[r].file
  PROVE  ReadInv'
<1>1. pc'[r] = "done" /\ response'[r] = what
  BY Outcomes, BecomesAt
<1>2. CallInv(r)'
  BY <1>1 DEF CallInv, Served, NotRefused, Fresh, Admitted, Alone, order
<1> QED
  BY <1>2, OthersKept

(* The end of a step, for the other calls. *)
LEMMA EndsAlone ==
  ASSUME TypeOK, NEW r \in Readers,
         \/ \E label : Goto(r, label)
         \/ \E what : Respond(r, what)
         \/ RefuseAsStranger(r)
         \/ \E o : Load(r, o)
  PROVE  \A q \in Readers \ {r} :
           pc'[q] = pc[q] /\ hand'[q] = hand[q] /\ response'[q] = response[q]
<1>1. \E label, o, what : Becomes(r, label, o, what)
  BY Outcomes DEF Loaded, Refused
<1> QED
  BY <1>1, BecomesAt

LEMMA ReadStep ==
  ASSUME TypeOK, ReadInv, NEW r \in Readers, Read(r)
  PROVE  ReadInv'
<1> USE DEF order, copies, history
<1>0. /\ request \in [Readers -> Requests] /\ failed \in [Readers -> BOOLEAN]
      /\ early \in [Readers -> BOOLEAN] /\ short \in [Readers -> BOOLEAN]
      /\ told \in [Readers -> Answers] /\ stored \in BOOLEAN
      /\ preview \in Orders \cup {Null}
  BY DEF TypeOK
<1>i. CopiesBacked /\ CallInv(r)
  BY DEF ReadInv
<1>1. ASSUME NEW kind \in Kinds, NEW user \in Users \cup {Blank},
             NEW role \in BOOLEAN, Begin(r, kind, user, role)
      PROVE  ReadInv'
  <2>1. /\ request' = [request EXCEPT ![r] = [kind |-> kind, user |-> user]]
        /\ failed' = [failed EXCEPT ![r] = FALSE]
        /\ early' = [early EXCEPT ![r] = ~stored]
        /\ short' = [short EXCEPT ![r] = \/ kind = "requirements" /\ ~asked
                                         \/ kind = "delivery" /\ ~delivered]
        /\ told' = [told EXCEPT ![r] = [file |-> FALSE, users |-> {}]]
        /\ UNCHANGED <<order, copies>>
    BY <1>1, Zenon DEF Begin
  <2>2. \/ kind = "preview" /\ Respond(r, Plain("InvalidArgument"))
        \/ user = Blank /\ Respond(r, Plain("InvalidArgument"))
        \/ user = Blank /\ Respond(r, Plain("NotFound"))
        \/ user # Blank /\ Goto(r, "lookup")
    BY <1>1, Zenon DEF Begin
  <2>3. /\ request'[r].kind = kind /\ request'[r].user = user
        /\ early'[r] = ~stored
        /\ short'[r] = ((kind = "requirements" /\ ~asked)
                         \/ (kind = "delivery" /\ ~delivered))
    BY <1>0, <2>1
  <2>4. Alone(r)
    BY <1>0, <2>1, <2>2, EndsAlone DEF Alone
  <2>5. CopiesBacked'
    BY <1>i, <2>1 DEF CopiesBacked
  <2>6. CASE user # Blank /\ Goto(r, "lookup")
    BY <2>1, <2>3, <2>4, <2>5, <2>6, GotoStep DEF UnderWay
  <2>7. Blank \notin Parties
    BY PartiesAssumption DEF Parties
  <2>8. CASE kind = "preview" /\ Respond(r, Plain("InvalidArgument"))
    BY <2>3, <2>4, <2>5, <2>8, RespondStep DEF Plain
  <2>9. CASE user = Blank /\ (Respond(r, Plain("InvalidArgument"))
                               \/ Respond(r, Plain("NotFound")))
    BY <2>3, <2>4, <2>5, <2>7, <2>9, RespondStep DEF Plain
  <2> QED
    BY <2>2, <2>6, <2>8, <2>9
<1>2. CASE FindCopy(r)
  <2>1. /\ pc[r] = "lookup" /\ preview # Null /\ Load(r, Copy(preview))
        /\ UNCHANGED <<order, copies, request, history>>
    BY <1>2, Zenon DEF FindCopy
  <2>2. /\ stored /\ Copy(preview) \in Orders
        /\ Copy(preview).parties = Parties
        /\ Copy(preview).url \in {Blank, Copy(preview).picture}
    BY <1>0, <1>i, <2>1, DataTypes DEF CopiesBacked, Copy
  <2>3. Alone(r)
    BY <2>1, EndsAlone DEF Alone
  <2> QED
    BY <2>1, <2>2, <2>3, LoadStep
<1>3. CASE SelectOrder(r)
  <2>1. /\ pc[r] = "select" /\ stored /\ Load(r, Row)
        /\ UNCHANGED <<order, copies, request, history>>
    BY <1>3, Zenon DEF SelectOrder
  <2>2. Row \in Orders /\ Row.parties = Parties /\ Row.url = Blank
    BY DataTypes DEF Row
  <2>3. Alone(r)
    BY <2>1, EndsAlone DEF Alone
  <2> QED
    BY <2>1, <2>2, <2>3, LoadStep
<1>4. CASE FindNoCopy(r) \/ FindNoContent(r)
  <2>1. /\ \/ pc[r] = "lookup" /\ Goto(r, "select")
           \/ pc[r] = "content" /\ Goto(r, "build")
        /\ UNCHANGED <<order, copies, request, history>>
    BY <1>4, Zenon DEF FindNoCopy, FindNoContent
  <2>2. Alone(r)
    BY <2>1, EndsAlone DEF Alone
  <2>3. CopiesBacked' /\ UnderWay(r)'
    BY <1>i, <2>1 DEF CopiesBacked, CallInv, UnderWay
  <2> QED
    BY <1>i, <2>1, <2>2, <2>3, GotoStep DEF CallInv
<1>5. ASSUME NEW fails \in BOOLEAN, SelectNoOrder(r, fails)
      PROVE  ReadInv'
  <2>1. /\ pc[r] = "select" /\ RefuseAsStranger(r) /\ (fails \/ ~stored)
        /\ failed' = [failed EXCEPT ![r] = @ \/ fails]
        /\ UNCHANGED <<order, copies, request, early, short, told>>
    BY <1>5, Zenon DEF SelectNoOrder
  <2>2. Alone(r)
    BY <1>0, <2>1, EndsAlone DEF Alone
  <2>3. failed'[r] = (failed[r] \/ fails)
    BY <1>0, <2>1
  <2>4. fails \/ early[r]
    BY <1>i, <2>1 DEF CallInv, UnderWay
  <2> QED
    BY <2>1, <2>2, <2>3, <2>4, Outcomes, RefusedStep
<1>6. ASSUME NEW fails \in BOOLEAN, Recheck(r, fails)
      PROVE  ReadInv'
  <2>1. PICK code \in {"Internal", "PermissionDenied", "NotFound"} :
          /\ pc[r] = "recheck" /\ Respond(r, Plain(code))
          /\ code = "PermissionDenied" => stored
    BY <1>6 DEF Recheck, ErrOrderNotOwned
  <2>2. /\ failed' = [failed EXCEPT ![r] = @ \/ fails]
        /\ UNCHANGED <<order, copies, request, early, short, told>>
    BY <1>6, Zenon DEF Recheck
  <2>3. Alone(r) /\ CopiesBacked'
    BY <1>0, <1>i, <2>1, <2>2, EndsAlone DEF Alone, CopiesBacked
  <2>4. failed'[r] = (failed[r] \/ fails)
    BY <1>0, <2>2
  <2>5. Plain(code).code = code /\ code # "OK"
    BY DEF Plain
  <2>6. request'[r].user \in Parties => failed'[r] \/ early'[r]
    BY <1>i, <2>1, <2>2, <2>4 DEF CallInv
  <2> QED
    BY <2>1, <2>3, <2>5, <2>6, RespondStep
<1>7. ASSUME NEW first \in Answers, NEW second \in Answers, NEW set \in BOOLEAN,
             Hydrate(r, first, second, set)
      PROVE  ReadInv'
  <2> DEFINE shown == Hydrated(hand[r], first)
             refreshed == Hydrated(shown, second)
             what == [Plain("OK") EXCEPT !.picture = shown.picture,
                                         !.url = shown.url,
                                         !.people = refreshed.people]
  <2>1. /\ pc[r] = "hydrate"
        /\ preview' = IF set THEN Copy(refreshed) ELSE preview
        /\ told' = [told EXCEPT ![r] = [file |-> first.file,
                                        users |-> first.users \cup second.users]]
        /\ \/ request[r].kind = "preview" /\ Respond(r, what)
           \/ request[r].kind # "preview" /\ Goto(r, "content")
        /\ UNCHANGED <<order, reqCopy, delCopy, request, failed, early, short>>
    BY <1>7, Zenon DEF Hydrate
  <2>2. /\ hand[r] \in Orders /\ hand[r].parties = Parties
        /\ hand[r].url \in {Blank, hand[r].picture}
        /\ Admitted(r) /\ UnderWay(r)
    BY <1>i, <2>1 DEF CallInv
  <2>3. /\ Copy(refreshed).parties = Parties
        /\ Copy(refreshed).url \in {Blank, Copy(refreshed).picture}
        /\ \/ shown.url = shown.picture
           \/ shown.url = Blank /\ ~first.file
        /\ refreshed.people = hand[r].people \cup first.users \cup second.users
        /\ hand[r].people \subseteq Participants
        /\ first.users \subseteq Participants /\ second.users \subseteq Participants
    BY <2>2 DEF Copy, Hydrated, Orders, Answers
  <2>4. told'[r].file = first.file /\ told'[r].users = first.users \cup second.users
    BY <1>0, <2>1
  <2> HIDE DEF shown, refreshed
  <2>5. Alone(r)
    BY <1>0, <2>1, EndsAlone DEF Alone
  <2>6. CopiesBacked'
    BY <1>i, <2>1, <2>2, <2>3 DEF CopiesBacked, Admitted
  <2>7. UnderWay(r)'
    BY <2>1, <2>2 DEF UnderWay
  <2>8. CASE request[r].kind # "preview" /\ Goto(r, "content")
    BY <2>1, <2>2, <2>5, <2>6, <2>7, <2>8, GotoStep
  <2>9. CASE request[r].kind = "preview" /\ Respond(r, what)
    <3>0. /\ what.code = "OK" /\ what.picture = shown.picture
          /\ what.url = shown.url /\ what.people = refreshed.people
      BY DEF Plain
    <3>1. what.url = what.picture \/ (what.url = Blank /\ ~told'[r].file)
      BY <2>3, <2>4, <3>0
    <3>2. what.people \cup (Participants \ told'[r].users) = Participants
      BY <2>3, <2>4, <3>0
    <3>3. /\ what.code = "OK" /\ request'[r] = request[r]
          /\ request[r].kind = "preview"
      BY <2>1, <2>9, <3>0
    <3> HIDE DEF what
    <3> QED
      BY <2>2, <2>5, <2>6, <2>9, <3>1, <3>2, <3>3, RespondStep
  <2> QED
    BY <2>1, <2>8, <2>9
<1>8. CASE FindRequirements(r)
  <2>1. /\ pc[r] = "content" /\ request[r].kind = "requirements"
        /\ Respond(r, Plain("OK"))
        /\ UNCHANGED <<order, copies, request, history>>
    BY <1>8, Zenon DEF FindRequirements
  <2>2. Alone(r) /\ CopiesBacked' /\ Admitted(r)
    BY <1>i, <2>1, EndsAlone DEF Alone, CopiesBacked, CallInv
  <2> QED
    BY <2>1, <2>2, RespondStep DEF Plain
<1>9. ASSUME NEW file \in BOOLEAN, FindDelivery(r, file)
      PROVE  ReadInv'
  <2> DEFINE what == Links(delCopy.links \/ file)
  <2>1. /\ pc[r] = "content" /\ request[r].kind = "delivery" /\ Respond(r, what)
        /\ told' = [told EXCEPT ![r].file = file]
        /\ UNCHANGED <<order, copies, request, failed, early, short>>
    BY <1>9, Zenon DEF FindDelivery
  <2>2. Alone(r) /\ CopiesBacked' /\ Admitted(r)
    BY <1>0, <1>i, <2>1, EndsAlone DEF Alone, CopiesBacked, CallInv
  <2>3. told'[r].file = file
    BY <1>0, <2>1 DEF Answers
  <2>4. what.code = "OK" /\ (what.links \/ ~told'[r].file)
    BY <2>3 DEF Links, Plain
  <2> HIDE DEF what
  <2> QED
    BY <2>1, <2>2, <2>4, RespondStep
<1>10. ASSUME NEW fails \in BOOLEAN, NEW set \in BOOLEAN,
              SelectRequirements(r, fails, set)
       PROVE  ReadInv'
  <2> DEFINE found == asked /\ ~fails
             code == IF found THEN "OK" ELSE "NotFound"
  <2>1. /\ pc[r] = "build" /\ request[r].kind = "requirements"
        /\ failed' = [failed EXCEPT ![r] = @ \/ fails]
        /\ reqCopy' = (reqCopy \/ (found /\ set))
        /\ Respond(r, Plain(code))
        /\ UNCHANGED <<order, preview, delCopy, request, early, short, told>>
    BY <1>10, Zenon DEF SelectRequirements
  <2>2. Admitted(r) /\ UnderWay(r)
    BY <1>i, <2>1 DEF CallInv
  <2>3. Alone(r) /\ CopiesBacked'
    BY <1>0, <1>i, <2>1, <2>2, EndsAlone DEF Alone, CopiesBacked, Admitted
  <2>4. failed'[r] = (failed[r] \/ fails)
    BY <1>0, <2>1
  <2>5. /\ Plain(code).code = code /\ code \in {"OK", "NotFound"}
        /\ code = "OK" \/ failed'[r] \/ short'[r]
    BY <2>1, <2>2, <2>4 DEF Plain, UnderWay
  <2> HIDE DEF code
  <2> QED
    BY <2>1, <2>2, <2>3, <2>5, RespondStep
<1>11. ASSUME NEW file \in BOOLEAN, NEW set \in BOOLEAN,
              SelectDelivery(r, file, set)
       PROVE  ReadInv'
  <2> DEFINE what == Links(file)
  <2>1. /\ pc[r] = "build" /\ request[r].kind = "delivery" /\ Respond(r, what)
        /\ told' = [told EXCEPT ![r].file = file]
        /\ UNCHANGED <<order, preview, reqCopy, request, failed, early, short>>
    BY <1>11, Zenon DEF SelectDelivery
  <2>2. Admitted(r)
    BY <1>i, <2>1 DEF CallInv
  <2>3. Alone(r) /\ CopiesBacked'
    BY <1>0, <1>i, <2>1, <2>2, EndsAlone DEF Alone, CopiesBacked, Admitted
  <2>4. told'[r].file = file
    BY <1>0, <2>1 DEF Answers
  <2>5. what.code = "OK" /\ (what.links \/ ~told'[r].file)
    BY <2>4 DEF Links, Plain
  <2> HIDE DEF what
  <2> QED
    BY <2>1, <2>2, <2>3, <2>5, RespondStep
<1>12. ASSUME NEW fails \in BOOLEAN, SelectNoDelivery(r, fails)
       PROVE  ReadInv'
  <2> DEFINE code == IF fails THEN "Internal" ELSE "NotFound"
  <2>1. /\ pc[r] = "build" /\ request[r].kind = "delivery"
        /\ fails \/ ~delivered
        /\ failed' = [failed EXCEPT ![r] = @ \/ fails]
        /\ Respond(r, Plain(code))
        /\ UNCHANGED <<order, copies, request, early, short, told>>
    BY <1>12, Zenon DEF SelectNoDelivery
  <2>2. UnderWay(r)
    BY <1>i, <2>1 DEF CallInv
  <2>3. Alone(r) /\ CopiesBacked'
    BY <1>0, <1>i, <2>1, EndsAlone DEF Alone, CopiesBacked
  <2>4. failed'[r] = (failed[r] \/ fails)
    BY <1>0, <2>1
  <2>5. /\ Plain(code).code = code /\ code \in {"Internal", "NotFound"}
        /\ failed'[r] \/ (short'[r] /\ code = "NotFound")
    BY <2>1, <2>2, <2>4 DEF Plain, UnderWay
  <2> HIDE DEF code
  <2> QED
    BY <2>1, <2>3, <2>5, RespondStep
<1> QED
  BY <1>1, <1>2, <1>3, <1>4, <1>5, <1>6, <1>7, <1>8, <1>9, <1>10, <1>11, <1>12,
     Zenon DEF Read

LEMMA InvStep == TypeOK /\ ReadInv /\ [Next]_vars => ReadInv'
<1> SUFFICES ASSUME TypeOK, ReadInv, [Next]_vars
             PROVE  ReadInv'
  OBVIOUS
<1>1. CASE UNCHANGED vars
  <2>1. CopiesBacked'
    BY <1>1 DEF vars, order, copies, ReadInv, CopiesBacked
  <2>2. \A r \in Readers : CallInv(r)'
    BY <1>1, CallKept DEF vars, order, copies, calls, history
  <2> QED
    BY <2>1, <2>2 DEF ReadInv
<1> QED
  BY <1>1, CommandStep, ReadStep, Zenon DEF Next

LEMMA Invariant == Spec => [](TypeOK /\ ReadInv)
<1>1. Init => TypeOK
  <2> SUFFICES ASSUME Init
               PROVE  TypeOK
    OBVIOUS
  <2>1. preview \in Orders \cup {Null}
    <3>1. \A u \in {Blank, picture} : [Row EXCEPT !.url = u] \in Orders
      BY PartiesAssumption DEF Init, Row, Orders, Parties, Pictures
    <3> QED
      BY <3>1 DEF Init
  <2>2. Pending \in Responses
    BY DataTypes
  <2> QED
    BY <2>1, <2>2 DEF Init, TypeOK, Requests, Kinds, Answers, Pictures
<1>2. Init => ReadInv
  <2> SUFFICES ASSUME Init
               PROVE  ReadInv
    OBVIOUS
  <2>1. CopiesBacked
    BY DEF Init, CopiesBacked, Row
  <2>2. \A r \in Readers : CallInv(r)
    BY DEF Init, CallInv
  <2> QED
    BY <2>1, <2>2 DEF ReadInv
<1>3. TypeOK /\ ReadInv => HandsFull
  BY Zenon DEF ReadInv, CallInv, HandsFull
<1> QED
  BY <1>1, <1>2, <1>3, TypeStep, InvStep, PTL DEF Spec

(* Type correctness: every response has one of the five codes, and copies  *)
(* and orders in hand are orders.                                          *)
THEOREM TypeCorrect == Spec => []TypeOK
BY Invariant, PTL

(* Whichever copy a read is answered from, and whatever fails on the way,  *)
(* only the two parties are shown an order, and only one that is stored.   *)
THEOREM OthersSeeNothing == Spec => []OnlyPartiesServed
<1>1. ReadInv => OnlyPartiesServed
  BY DEF ReadInv, CallInv, Served, Admitted, OnlyPartiesServed, Done
<1> QED
  BY <1>1, Invariant, PTL

(* A party is refused only for a SELECT that failed, an order that came    *)
(* late or content that was missing.                                       *)
THEOREM RefusalsHaveReasons == Spec => []PartiesAreServed
<1>1. ReadInv => PartiesAreServed
  BY DEF ReadInv, CallInv, NotRefused, PartiesAreServed, Done
<1> QED
  BY <1>1, Invariant, PTL

(* What a response lacks was refused to the call that gives it, and its    *)
(* URL is that of the picture it names: whichever create commands, stale   *)
(* copies and late projections came before and between its steps.          *)
THEOREM GapsAreFilled == Spec => []GapsAreFresh
<1>1. ReadInv => GapsAreFresh
  BY DEF ReadInv, CallInv, Fresh, GapsAreFresh, Done
<1> QED
  BY <1>1, Invariant, PTL

-----------------------------------------------------------------------------
(***************************************************************************)
(* The other direction for strangers: what they are told depends on        *)
(* nothing but the kind of the read.                                       *)
(***************************************************************************)

(* The codes a stranger may get for an order that is there. *)
Refusals(kind) ==
  IF kind = "preview" THEN {"NotFound", "InvalidArgument"}
                      ELSE {ErrOrderNotOwned(kind)}

TurnedAway(r) ==
  Done(r) /\ request[r].user \notin Parties =>
    response[r].code \in Refusals(request[r].kind) \/ failed[r] \/ early[r]

StrangersTurnedAway == \A r \in Readers : TurnedAway(r)

LEMMA TurnedAwayKept ==
  ASSUME NEW r \in Readers, TurnedAway(r),
         pc'[r] = pc[r], request'[r] = request[r], response'[r] = response[r],
         failed'[r] = failed[r], early'[r] = early[r]
  PROVE  TurnedAway(r)'
BY Zenon DEF TurnedAway, Done

(* The reply to a stranger, first of a read that refuses at once. *)
LEMMA StrangerRefused ==
  ASSUME TypeOK, NEW r \in Readers, Refused(r), request'[r] = request[r]
  PROVE  TurnedAway(r)'
<1>1. CASE request[r].kind = "preview" /\ Becomes(r, "done", Null, Plain("NotFound"))
  <2>1. response'[r].code = "NotFound" /\ request'[r].kind = "preview"
    BY <1>1, BecomesAt DEF Plain
  <2> QED
    BY <2>1 DEF TurnedAway, Refusals
<1>2. CASE request[r].kind # "preview" /\ Becomes(r, "recheck", Null, Pending)
  <2>1. pc'[r] = "recheck"
    BY <1>2, BecomesAt
  <2> QED
    BY <2>1 DEF TurnedAway, Done
<1> QED
  BY <1>1, <1>2, Zenon DEF Refused

(* A read of a party, or one that goes on, leaves no stranger behind. *)
LEMMA GoesOn ==
  ASSUME TypeOK, NEW r \in Readers, NEW label, label # "done", Goto(r, label)
  PROVE  TurnedAway(r)'
<1>1. pc'[r] = label
  BY Outcomes, BecomesAt
<1> QED
  BY <1>1 DEF TurnedAway, Done

LEMMA StrangerStep ==
  ASSUME TypeOK, ReadInv, NEW r \in Readers, Read(r)
  PROVE  TurnedAway(r)'
<1>0. /\ request \in [Readers -> Requests] /\ failed \in [Readers -> BOOLEAN]
      /\ stored \in BOOLEAN /\ CallInv(r)
  BY DEF TypeOK, ReadInv
<1>1. ASSUME NEW kind \in Kinds, NEW user \in Users \cup {Blank},
             NEW role \in BOOLEAN, Begin(r, kind, user, role)
      PROVE  TurnedAway(r)'
  <2>1. /\ request' = [request EXCEPT ![r] = [kind |-> kind, user |-> user]]
        /\ \/ kind = "preview" /\ Respond(r, Plain("InvalidArgument"))
           \/ user = Blank
           \/ Goto(r, "lookup")
    BY <1>1, Zenon DEF Begin
  <2>2. request'[r].kind = kind /\ request'[r].user = user
    BY <1>0, <2>1
  <2>3. CASE kind = "preview" /\ Respond(r, Plain("InvalidArgument"))
    <3>1. response'[r].code = "InvalidArgument"
      BY <2>3, Outcomes, BecomesAt DEF Plain
    <3> QED
      BY <2>2, <2>3, <3>1 DEF TurnedAway, Refusals
  <2>4. CASE user = Blank
    BY <2>2, <2>4 DEF TurnedAway, Done
  <2> QED
    BY <2>1, <2>3, <2>4, GoesOn
<1>2. CASE FindCopy(r) \/ SelectOrder(r)
  <2>1. PICK o : Load(r, o) /\ request' = request /\ o.parties = Parties
    <3>1. CASE FindCopy(r)
      <4>1. Load(r, Copy(preview)) /\ request' = request /\ preview # Null
        BY <3>1, Zenon DEF FindCopy
      <4>2. Copy(preview).parties = Parties
        BY <4>1 DEF ReadInv, CopiesBacked, Copy
      <4> QED
        BY <4>1, <4>2
    <3>2. CASE SelectOrder(r)
      <4>1. Load(r, Row) /\ request' = request
        BY <3>2, Zenon DEF SelectOrder
      <4> QED
        BY <4>1 DEF Row
    <3> QED
      BY <1>2, <3>1, <3>2
  <2>2. CASE request[r].user \in o.parties
    BY <2>1, <2>2 DEF TurnedAway
  <2>3. CASE Refused(r)
    BY <2>1, <2>3, StrangerRefused
  <2> QED
    BY <2>1, <2>2, <2>3, Outcomes DEF Loaded
<1>3. CASE FindNoCopy(r)
  BY <1>3, GoesOn DEF FindNoCopy
<1>4. ASSUME NEW fails \in BOOLEAN, SelectNoOrder(r, fails)
      PROVE  TurnedAway(r)'
  <2>1. RefuseAsStranger(r) /\ request' = request
    BY <1>4, Zenon DEF SelectNoOrder
  <2> QED
    BY <2>1, Outcomes, StrangerRefused
<1>5. ASSUME NEW fails \in BOOLEAN, Recheck(r, fails)
      PROVE  TurnedAway(r)'
  <2>1. /\ pc[r] = "recheck"
        /\ failed' = [failed EXCEPT ![r] = @ \/ fails]
        /\ Respond(r, Plain(IF stored /\ ~fails THEN ErrOrderNotOwned(request[r].kind)
                                                ELSE "NotFound"))
        /\ request' = request /\ early' = early
    BY <1>5, Zenon DEF Recheck
  <2>2. request[r].kind # "preview" /\ (stored \/ early[r])
    BY <1>0, <2>1 DEF CallInv, UnderWay
  <2>3. failed'[r] = (failed[r] \/ fails)
    BY <1>0, <2>1
  <2>4. CASE stored /\ ~fails
    <3>1. response'[r].code = ErrOrderNotOwned(request[r].kind)
      BY <2>1, <2>4, Outcomes, BecomesAt DEF Plain
    <3> QED
      BY <2>1, <2>2, <3>1 DEF TurnedAway, Refusals
  <2>5. CASE fails \/ early[r]
    BY <2>1, <2>3, <2>5 DEF TurnedAway
  <2> QED
    BY <2>2, <2>4, <2>5
<1>6. CASE request'[r] = request[r] /\ pc[r] \in {"hydrate", "content", "build"}
  <2>1. request[r].user \in Parties
    BY <1>0, <1>6 DEF CallInv, Admitted
  <2> QED
    BY <1>6, <2>1 DEF TurnedAway
<1> QED
  BY <1>1, <1>2, <1>3, <1>4, <1>5, <1>6, Zenon
  DEF Read, Hydrate, FindRequirements, FindDelivery, FindNoContent,
      SelectRequirements, SelectDelivery, SelectNoDelivery

(* A step of a read is one of that call only. *)
LEMMA ReadIsAlone ==
  ASSUME TypeOK, NEW r \in Readers, Read(r)
  PROVE  Alone(r)
<1>0. /\ request \in [Readers -> Requests] /\ failed \in [Readers -> BOOLEAN]
      /\ early \in [Readers -> BOOLEAN] /\ short \in [Readers -> BOOLEAN]
      /\ told \in [Readers -> Answers]
  BY Zenon DEF TypeOK
<1>1. /\ UNCHANGED order
      /\ \/ \E label : Goto(r, label)
         \/ \E what : Respond(r, what)
         \/ RefuseAsStranger(r)
         \/ \E o : Load(r, o)
  BY Zenon
  DEF Read, Begin, FindCopy, FindNoCopy, SelectOrder, SelectNoOrder, Recheck,
      Hydrate, FindRequirements, FindDelivery, FindNoContent,
      SelectRequirements, SelectDelivery, SelectNoDelivery
<1>2. /\ \E v : request' = [request EXCEPT ![r] = v]
      /\ \E v : failed' = [failed EXCEPT ![r] = v]
      /\ \E v : early' = [early EXCEPT ![r] = v]
      /\ \E v : short' = [short EXCEPT ![r] = v]
      /\ \E v : told' = [told EXCEPT ![r] = v]
  <2>1. /\ request = [request EXCEPT ![r] = request[r]]
        /\ failed = [failed EXCEPT ![r] = failed[r]]
        /\ early = [early EXCEPT ![r] = early[r]]
        /\ short = [short EXCEPT ![r] = short[r]]
        /\ told = [told EXCEPT ![r] = told[r]]
    BY <1>0
  <2> QED
    BY <2>1, Zenon
    DEF Read, Begin, FindCopy, FindNoCopy, SelectOrder, SelectNoOrder, Recheck,
        Hydrate, FindRequirements, FindDelivery, FindNoContent,
        SelectRequirements, SelectDelivery, SelectNoDelivery, history
<1>3. \A q \in Readers \ {r} :
        /\ request'[q] = request[q] /\ failed'[q] = failed[q]
        /\ early'[q] = early[q] /\ short'[q] = short[q] /\ told'[q] = told[q]
  BY <1>0, <1>2
<1> QED
  BY <1>1, <1>3, EndsAlone, Zenon DEF Alone

LEMMA StrangersStep ==
  TypeOK /\ ReadInv /\ StrangersTurnedAway /\ [Next]_vars => StrangersTurnedAway'
<1> SUFFICES ASSUME TypeOK, ReadInv, StrangersTurnedAway, [Next]_vars,
                    NEW q \in Readers
             PROVE  TurnedAway(q)'
  BY Zenon DEF StrangersTurnedAway
<1>0. TurnedAway(q)
  BY Zenon DEF StrangersTurnedAway
<1>1. CASE Command \/ UNCHANGED vars
  <2>1. UNCHANGED <<pc, request, response, failed, early>>
    BY <1>1, Zenon
    DEF Command, Create, Refresh, SaveRequirements, BlankRequirements,
        SaveDelivery, vars, calls, history
  <2> QED
    BY <1>0, <2>1, TurnedAwayKept
<1>2. ASSUME NEW r \in Readers, Read(r)
      PROVE  TurnedAway(q)'
  <2>1. CASE q = r
    BY <1>2, <2>1, StrangerStep
  <2>2. CASE q # r
    <3>1. Alone(r)
      BY <1>2, ReadIsAlone
    <3> QED
      BY <1>0, <2>2, <3>1, TurnedAwayKept DEF Alone
  <2> QED
    BY <2>1, <2>2
<1> QED
  BY <1>1, <1>2, Zenon DEF Next

(* A user who is no party of the order gets the refusal of the read, and   *)
(* only that, for every order that is there and every SELECT that works:   *)
(* neither what Redis holds, nor other services, nor what the order        *)
(* contains, shows in the answer.                                          *)
THEOREM StrangersAreTurnedAway == Spec => []StrangersTurnedAway
<1>1. Init => StrangersTurnedAway
  BY DEF Init, StrangersTurnedAway, TurnedAway, Done
<1> QED
  BY <1>1, StrangersStep, Invariant, PTL DEF Spec

=============================================================================
