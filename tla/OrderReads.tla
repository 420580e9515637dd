------------------------------ MODULE OrderReads ------------------------------
(***************************************************************************)
(* The reads of one order: GetOrderPreviewByID, GetOrderRequirementsByID   *)
(* and GetOrderDeliveryByID, from the gRPC request to its status code.     *)
(*                                                                         *)
(* Every read first loads the order, from its Redis copy or else from      *)
(* PostgreSQL, and serves the two parties of the order only.  The preview  *)
(* read reports a stranger as "not found"; the other two then ask          *)
(* PostgreSQL again, to tell an order that is not theirs from one that     *)
(* does not exist.  On the way the order is completed with the picture URL *)
(* and the two user snapshots of other services, and written back.         *)
(*                                                                         *)
(* How old the copies may be is the subject of FullCopyProjection and      *)
(* DeliveryProjection.  Here they are as old as they please: a repeated    *)
(* create command gives a stored order another picture, while a copy, a    *)
(* queued projection or a call keeps the one before it.                    *)
(***************************************************************************)
EXTENDS Naturals

CONSTANTS
  Readers,        \* the calls that may be in progress at one time
  Users,          \* user ids, of strangers too
  Buyer, Seller,  \* the parties of the order
  Files,          \* ids of picture files
  Blank,          \* an empty string: no user id, no picture, no URL
  Null            \* no copy in Redis

ASSUME PartiesAssumption == {Buyer, Seller} \subseteq Users /\ Blank \notin Users
ASSUME FilesAssumption == Blank \notin Files

Parties == {Buyer, Seller}
Pictures == Files \cup {Blank}
Kinds == {"preview", "requirements", "delivery"}
Participants == {"customer", "freelancer"}

(* What a read knows of the order: who may see it, the picture of its gig, *)
(* and what other services have already told: the file whose URL is known  *)
(* and the users that are.                                                 *)
Orders == [parties: SUBSET Users, picture: Pictures,
           url: Pictures, people: SUBSET Participants]

(* Which calls to the file and the user service succeed. *)
Answers == [file: BOOLEAN, users: SUBSET Participants]

Requests == [kind: Kinds, user: Users \cup {Blank}]

(* The status codes, and none while a call is under way. *)
Codes == {"OK", "NotFound", "PermissionDenied", "Internal", "InvalidArgument", "none"}

(* A response; shown are the parts that other services provide, and for    *)
(* the URL of a picture also the picture it comes with.  "links" are the   *)
(* URLs of delivered files.                                                *)
Responses == [code: Codes, picture: Pictures, url: Pictures,
              links: BOOLEAN, people: SUBSET Participants]

ASSUME NullAssumption == Null \notin Orders /\ Null \notin [links: BOOLEAN]

VARIABLES
  stored,     \* the order is in PostgreSQL
  picture,    \* the picture of its gig
  pictures,   \* history: every picture its snapshot has had
  asked,      \* there are questions or a buyer message
  delivered,  \* there is a delivery
  preview,    \* the Redis copy of the order
  reqCopy,    \* whether Redis has a copy of the requirements
  delCopy,    \* the Redis copy of the delivery, with or without file URLs
  pc,         \* what each call does next
  request,    \* its request
  hand,       \* the order it has loaded
  response,   \* its response
  failed,     \* history: a SELECT of the call failed
  early,      \* history: the order was not there when the call began
  short,      \* history: during the call there was nothing to show
  told        \* history: what other services told the call

order == <<stored, picture, pictures, asked, delivered>>
copies == <<preview, reqCopy, delCopy>>
history == <<failed, early, short, told>>
calls == <<pc, request, hand, response, history>>
vars == <<order, copies, calls>>

(* The order as a SELECT returns it. *)
Row == [parties |-> Parties, picture |-> picture, url |-> Blank, people |-> {}]

CopyWithoutPicture(o) ==
  [parties |-> o.parties, picture |-> Blank, url |-> o.url, people |-> o.people]

(* What Redis keeps of an order, and what is read from it again. *)
Copy(o) ==
  [parties |-> o.parties, picture |-> o.picture, url |-> o.url, people |-> o.people]

(* Of a delivery only its file URLs matter here, as they come and go. *)
DeliveryCopy(file) == [links |-> file]

(* Only what is still missing is asked from the other services. *)
Hydrated(o, a) ==
  [o EXCEPT !.url = IF @ = Blank /\ a.file THEN o.picture ELSE @,
            !.people = @ \cup a.users]

Plain(code) ==
  [code |-> code, picture |-> Blank, url |-> Blank, links |-> FALSE, people |-> {}]

Pending == Plain("none")

Links(file) == [Plain("OK") EXCEPT !.links = file]

(* An order from before the page layout of the copy may have a flat one,   *)
(* which knows no user snapshots.                                          *)
Init ==
  /\ stored \in BOOLEAN
  /\ picture \in IF stored THEN Pictures ELSE {Blank}
  /\ pictures = IF stored THEN {picture} ELSE {}
  /\ asked = FALSE
  /\ delivered = FALSE
  /\ preview \in {Null} \cup
       (IF stored THEN {[Row EXCEPT !.url = u] : u \in {Blank, picture}} ELSE {})
  /\ reqCopy = FALSE
  /\ delCopy = Null
  /\ pc = [r \in Readers |-> "done"]
  /\ request = [r \in Readers |-> [kind |-> "preview", user |-> Blank]]
  /\ hand = [r \in Readers |-> Null]
  /\ response = [r \in Readers |-> Pending]
  /\ failed = [r \in Readers |-> FALSE]
  /\ early = [r \in Readers |-> FALSE]
  /\ short = [r \in Readers |-> FALSE]
  /\ told = [r \in Readers |-> [file |-> FALSE, users |-> {}]]

-----------------------------------------------------------------------------
(* Commands and consumers, as far as reads notice them.                    *)

(* A create command commits, the first or a repeated one: the row and its  *)
(* parties stay, the gig snapshot is overwritten.                          *)
Create(file) ==
  /\ stored' = TRUE
  /\ picture' = file
  /\ pictures' = pictures \cup {file}
  /\ UNCHANGED <<asked, delivered, copies, calls>>

(* A command refreshes the copy, or a consumer writes what one published:  *)
(* the order as that command read it, before later creates maybe.          *)
Refresh(file, a) ==
  /\ file \in pictures
  /\ preview' = Copy(Hydrated([Row EXCEPT !.picture = file], a))
  /\ UNCHANGED <<order, reqCopy, delCopy, calls>>

SaveRequirements(set) ==
  /\ stored
  /\ asked' = TRUE
  /\ reqCopy' = (reqCopy \/ set)
  /\ UNCHANGED <<stored, picture, pictures, delivered, preview, delCopy, calls>>

(* A blank message to an order without questions; its copy stays. *)
BlankRequirements ==
  /\ asked
  /\ asked' = FALSE
  /\ short' = [r \in Readers |-> short[r] \/ request[r].kind = "requirements"]
  /\ UNCHANGED <<stored, picture, pictures, delivered, copies, pc, request, hand,
                 response, failed, early, told>>

SaveDelivery(set, file) ==
  /\ stored
  /\ delivered' = TRUE
  /\ delCopy' = IF set THEN DeliveryCopy(file) ELSE delCopy
  /\ UNCHANGED <<stored, picture, pictures, asked, preview, reqCopy, calls>>

-----------------------------------------------------------------------------
(* The reads.                                                              *)

Goto(r, label) ==
  /\ pc' = [pc EXCEPT ![r] = label]
  /\ hand' = [hand EXCEPT ![r] = Null]
  /\ response' = [response EXCEPT ![r] = Pending]

Respond(r, what) ==
  /\ pc' = [pc EXCEPT ![r] = "done"]
  /\ hand' = [hand EXCEPT ![r] = Null]
  /\ response' = [response EXCEPT ![r] = what]

(* The order was not seen, or is not the user's. *)
RefuseAsStranger(r) ==
  IF request[r].kind = "preview" THEN Respond(r, Plain("NotFound"))
                                 ELSE Goto(r, "recheck")

LoadForAnybody(r, o) ==
  /\ pc' = [pc EXCEPT ![r] = "hydrate"]
  /\ hand' = [hand EXCEPT ![r] = o]
  /\ response' = [response EXCEPT ![r] = Pending]

(* The order is loaded, for one of its parties. *)
Load(r, o) ==
  IF request[r].user \in o.parties
  THEN /\ pc' = [pc EXCEPT ![r] = "hydrate"]
       /\ hand' = [hand EXCEPT ![r] = o]
       /\ response' = [response EXCEPT ![r] = Pending]
  ELSE RefuseAsStranger(r)

ErrOrderNotOwnedAsIs(kind) == "Unknown"

(* The status code of ErrOrderNotOwned: the requirements handler has no    *)
(* case for it.                                                            *)
ErrOrderNotOwned(kind) ==
  IF kind = "requirements" THEN "Internal" ELSE "PermissionDenied"

(* A request arrives; role tells whether the preview request names one of  *)
(* the two participant roles, which is all its role is used for.           *)
Begin(r, kind, user, role) ==
  /\ pc[r] = "done"
  /\ request' = [request EXCEPT ![r] = [kind |-> kind, user |-> user]]
  /\ failed' = [failed EXCEPT ![r] = FALSE]
  /\ early' = [early EXCEPT ![r] = ~stored]
  /\ short' = [short EXCEPT ![r] = \/ kind = "requirements" /\ ~asked
                                   \/ kind = "delivery" /\ ~delivered]
  /\ told' = [told EXCEPT ![r] = [file |-> FALSE, users |-> {}]]
  /\ \/ kind = "preview" /\ ~role /\ Respond(r, Plain("InvalidArgument"))
     \/ kind # "preview" /\ user = Blank /\ Respond(r, Plain("InvalidArgument"))
     \/ kind = "preview" /\ role /\ user = Blank /\ Respond(r, Plain("NotFound"))
     \/ (kind = "preview" => role) /\ user # Blank /\ Goto(r, "lookup")
  /\ UNCHANGED <<order, copies>>

(* Redis has the copy and answers. *)
FindCopy(r) ==
  /\ pc[r] = "lookup"
  /\ preview # Null
  /\ Load(r, Copy(preview))
  /\ UNCHANGED <<order, copies, request, history>>

FindNoCopyAndRefuse(r) ==
  /\ pc[r] = "lookup"
  /\ RefuseAsStranger(r)
  /\ UNCHANGED <<order, copies, request, history>>

(* Redis has no copy, or fails. *)
FindNoCopy(r) ==
  /\ pc[r] = "lookup"
  /\ Goto(r, "select")
  /\ UNCHANGED <<order, copies, request, history>>

SelectOrder(r) ==
  /\ pc[r] = "select"
  /\ stored
  /\ Load(r, Row)
  /\ UNCHANGED <<order, copies, request, history>>

(* There is no such order, or the SELECT fails: one error for both. *)
SelectNoOrder(r, fails) ==
  /\ pc[r] = "select"
  /\ fails \/ ~stored
  /\ failed' = [failed EXCEPT ![r] = @ \/ fails]
  /\ RefuseAsStranger(r)
  /\ UNCHANGED <<order, copies, request, early, short, told>>

(* The second SELECT for a stranger, who may not be one: the first may     *)
(* have failed, or come before the commit.                                 *)
Recheck(r, fails) ==
  /\ pc[r] = "recheck"
  /\ failed' = [failed EXCEPT ![r] = @ \/ fails]
  /\ Respond(r, Plain(IF stored /\ ~fails THEN ErrOrderNotOwned(request[r].kind)
                                          ELSE "NotFound"))
  /\ UNCHANGED <<order, copies, request, early, short, told>>

(* The order is completed, and completed again by the refresh, which       *)
(* writes it to Redis unless the SET fails.  The gig part of the response  *)
(* is made before the refresh, the two users after it.                     *)
Hydrate(r, first, second, set) ==
  /\ pc[r] = "hydrate"
  /\ LET shown == Hydrated(hand[r], first)
         refreshed == Hydrated(shown, second)
     IN /\ preview' = IF set THEN Copy(refreshed) ELSE preview
        /\ told' = [told EXCEPT ![r] = [file |-> first.file,
                                        users |-> first.users \cup second.users]]
        /\ IF request[r].kind = "preview"
           THEN Respond(r, [Plain("OK") EXCEPT !.picture = shown.picture,
                                               !.url = shown.url,
                                               !.people = refreshed.people])
           ELSE Goto(r, "content")
  /\ UNCHANGED <<order, reqCopy, delCopy, request, failed, early, short>>

FindRequirements(r) ==
  /\ pc[r] = "content"
  /\ request[r].kind = "requirements"
  /\ reqCopy
  /\ Respond(r, Plain("OK"))
  /\ UNCHANGED <<order, copies, request, history>>

(* A copied file URL is kept, a missing one asked for. *)
FindDelivery(r, file) ==
  /\ pc[r] = "content"
  /\ request[r].kind = "delivery"
  /\ delCopy # Null
  /\ told' = [told EXCEPT ![r].file = file]
  /\ Respond(r, Links(delCopy.links \/ file))
  /\ UNCHANGED <<order, copies, request, failed, early, short>>

(* Redis has no copy of what was asked for, or fails. *)
FindNoContent(r) ==
  /\ pc[r] = "content"
  /\ Goto(r, "build")
  /\ UNCHANGED <<order, copies, request, history>>

SelectRequirements(r, fails, set) ==
  /\ pc[r] = "build"
  /\ request[r].kind = "requirements"
  /\ failed' = [failed EXCEPT ![r] = @ \/ fails]
  /\ LET found == asked /\ ~fails
     IN /\ reqCopy' = (reqCopy \/ (found /\ set))
        /\ Respond(r, Plain(IF found THEN "OK" ELSE "NotFound"))
  /\ UNCHANGED <<order, preview, delCopy, request, early, short, told>>

SelectDelivery(r, file, set) ==
  /\ pc[r] = "build"
  /\ request[r].kind = "delivery"
  /\ delivered
  /\ delCopy' = IF set THEN DeliveryCopy(file) ELSE delCopy
  /\ told' = [told EXCEPT ![r].file = file]
  /\ Respond(r, Links(file))
  /\ UNCHANGED <<order, preview, reqCopy, request, failed, early, short>>

(* No delivery yet, or the SELECT fails: this read keeps the errors apart. *)
SelectNoDelivery(r, fails) ==
  /\ pc[r] = "build"
  /\ request[r].kind = "delivery"
  /\ fails \/ ~delivered
  /\ failed' = [failed EXCEPT ![r] = @ \/ fails]
  /\ Respond(r, Plain(IF fails THEN "Internal" ELSE "NotFound"))
  /\ UNCHANGED <<order, copies, request, early, short, told>>

Command ==
  \/ \E file \in Pictures : Create(file)
  \/ \E file \in Pictures, a \in Answers : Refresh(file, a)
  \/ \E set \in BOOLEAN : SaveRequirements(set)
  \/ BlankRequirements
  \/ \E set, file \in BOOLEAN : SaveDelivery(set, file)

Read(r) ==
  \/ \E kind \in Kinds, user \in Users \cup {Blank}, role \in BOOLEAN :
       Begin(r, kind, user, role)
  \/ FindCopy(r)
  \/ FindNoCopy(r)
  \/ SelectOrder(r)
  \/ \E fails \in BOOLEAN : SelectNoOrder(r, fails)
  \/ \E fails \in BOOLEAN : Recheck(r, fails)
  \/ \E first, second \in Answers, set \in BOOLEAN : Hydrate(r, first, second, set)
  \/ FindRequirements(r)
  \/ \E file \in BOOLEAN : FindDelivery(r, file)
  \/ FindNoContent(r)
  \/ \E fails, set \in BOOLEAN : SelectRequirements(r, fails, set)
  \/ \E file, set \in BOOLEAN : SelectDelivery(r, file, set)
  \/ \E fails \in BOOLEAN : SelectNoDelivery(r, fails)

Next == Command \/ \E r \in Readers : Read(r)

Spec == Init /\ [][Next]_vars

-----------------------------------------------------------------------------
(* Properties.                                                             *)

TypeOK ==
  /\ stored \in BOOLEAN /\ picture \in Pictures
  /\ pictures \subseteq Pictures
  /\ asked \in BOOLEAN /\ delivered \in BOOLEAN
  /\ preview \in Orders \cup {Null}
  /\ reqCopy \in BOOLEAN
  /\ delCopy \in [links: BOOLEAN] \cup {Null}
  /\ pc \in [Readers -> {"done", "lookup", "select", "recheck", "hydrate",
                         "content", "build"}]
  /\ request \in [Readers -> Requests]
  /\ hand \in [Readers -> Orders \cup {Null}]
  /\ response \in [Readers -> Responses]
  /\ failed \in [Readers -> BOOLEAN]
  /\ early \in [Readers -> BOOLEAN]
  /\ short \in [Readers -> BOOLEAN]
  /\ told \in [Readers -> Answers]

Done(r) == pc[r] = "done" /\ request[r].user # Blank

(* Whatever copy a read is answered from, in whatever layout, what it      *)
(* shows belongs to a stored order, and to nobody but its two parties.     *)
OnlyPartiesServed ==
  \A r \in Readers :
    /\ Done(r) /\ response[r].code = "OK" => stored /\ request[r].user \in Parties
    /\ Done(r) /\ response[r].code = "PermissionDenied" => stored

(* A party of the order is not refused without a reason.  Redis, the file  *)
(* and the user service are none: only a SELECT that failed in this very   *)
(* call, an order committed while the call was on its way, or, as "not     *)
(* found", content that was missing during the call.                       *)
PartiesAreServed ==
  \A r \in Readers :
    Done(r) /\ request[r].user \in Parties =>
      \/ response[r].code = "OK"
      \/ request[r].kind = "preview" /\ response[r].code = "InvalidArgument"
      \/ failed[r]
      \/ early[r]
      \/ short[r] /\ response[r].code = "NotFound"

(* A copy that was written while the file or the user service was down is  *)
(* completed by the next read: what a response lacks was refused to this   *)
(* very call, not to an earlier one.  And the URL of a response is that of *)
(* the picture it names, however often the picture of the order changed    *)
(* between the writing of a copy and the answer.                           *)
GapsAreFresh ==
  \A r \in Readers :
    Done(r) /\ response[r].code = "OK" =>
      /\ request[r].kind = "preview" =>
           /\ \/ response[r].url = response[r].picture
              \/ response[r].url = Blank /\ ~told[r].file
           /\ response[r].people \cup (Participants \ told[r].users) = Participants
      /\ request[r].kind = "delivery" => response[r].links \/ ~told[r].file

=============================================================================
