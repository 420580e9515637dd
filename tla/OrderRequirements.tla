-------------------------- MODULE OrderRequirements --------------------------
(***************************************************************************)
(* The requirements of one order: the question snapshots that the draft    *)
(* command brings, the answers and the initial message of the buyer, and   *)
(* the attachments.  Every table is keyed by the order, so one order shows *)
(* all there is.                                                           *)
(*                                                                         *)
(* CreateDraftOrder commits the order, then inserts its questions one      *)
(* statement at a time, then reads the requirements back to publish them;  *)
(* SaveRequirementAnswers also commits answer by answer.  Calls overlap,   *)
(* end in the middle and are sent again.                                   *)
(***************************************************************************)
EXTENDS Naturals, Sequences

CONSTANTS
  Questions, Values, Messages, Attachments, Files,
  Blank,          \* messages that trim to nothing
  Drafts,         \* the draft commands sent for this order
  Batches,        \* the answers sent together
  Calls,          \* service calls that may be in flight at once
  Null

QuestionSnapshot == [question: Questions, required: BOOLEAN]
Answer == [question: Questions, value: Values]

(* SkipProjection is set by the recovery, whose commands carry no          *)
(* questions.                                                              *)
DraftCommand == [questions: Seq(QuestionSnapshot), skip: BOOLEAN]

ASSUME CommandsAssumption ==
  /\ Drafts \subseteq DraftCommand
  /\ Batches \subseteq Seq(Answer)
  /\ Blank \subseteq Messages

(* A service call under way: a draft with the questions it has still to    *)
(* insert, or a batch with the answers it has still to save.               *)
DraftCall == [draft: Drafts, left: Seq(QuestionSnapshot)]
BatchCall == [left: Seq(Answer)]

ASSUME NullAssumption ==
  Null \notin BOOLEAN \cup Values \cup Messages \cup Files
              \cup DraftCall \cup BatchCall

VARIABLES
  exists,       \* the orders row is there
  questions,    \* table order_question_snapshots: is the question required
  answers,      \* table order_requirement_answers
  message,      \* table order_buyer_messages
  attachments,  \* table order_attachments
  drafts,       \* CreateDraftOrder calls in flight
  batches,      \* SaveRequirementAnswers calls in flight
  drafted,      \* history: draft commands answered with success
  refused       \* history: draft commands answered with ErrOrderNotFound

tables == <<exists, questions, answers, message, attachments>>
history == <<drafted, refused>>
vars == <<tables, drafts, batches, history>>

Init ==
  /\ exists = FALSE
  /\ questions = [q \in Questions |-> Null]
  /\ answers = [q \in Questions |-> Null]
  /\ message = Null
  /\ attachments = [a \in Attachments |-> Null]
  /\ drafts = [c \in Calls |-> Null]
  /\ batches = [c \in Calls |-> Null]
  /\ drafted = {}
  /\ refused = {}

-----------------------------------------------------------------------------
(* What the queries say.                                                   *)

RequirementsCompleted ==
  \A q \in Questions : questions[q] = TRUE => answers[q] # Null

MessageCompleted == message \notin Blank \cup {Null}

HasQuestionsAndMessage ==
  exists /\ MessageCompleted /\ \E q \in Questions : questions[q] # Null

(* GetRequirementsByID finds something to show. *)
HasRequirements ==
  exists /\ (MessageCompleted \/ \E q \in Questions : questions[q] # Null)

-----------------------------------------------------------------------------
(* CreateDraftOrder.                                                       *)

(* The order row and its gig snapshot are committed, or were there. *)
BeginDraft(c, d) ==
  /\ drafts[c] = Null
  /\ exists' = TRUE
  /\ drafts' = [drafts EXCEPT ![c] = [draft |-> d, left |-> d.questions]]
  /\ UNCHANGED <<questions, answers, message, attachments, batches, history>>

InsertQuestionResettingAnswer(c) ==
  /\ drafts[c] # Null
  /\ drafts[c].left # <<>>
  /\ LET q == Head(drafts[c].left) IN
       /\ questions' = [questions EXCEPT ![q.question] = q.required]
       /\ answers' = [answers EXCEPT ![q.question] = Null]
  /\ drafts' = [drafts EXCEPT ![c].left = Tail(@)]
  /\ UNCHANGED <<exists, message, attachments, batches, history>>

(* One turn of SaveQuestionSnapshots, committed on its own; the upsert     *)
(* overwrites a snapshot that was there.                                   *)
InsertQuestion(c) ==
  /\ drafts[c] # Null
  /\ drafts[c].left # <<>>
  /\ LET q == Head(drafts[c].left) IN
       questions' = [questions EXCEPT ![q.question] = q.required]
  /\ drafts' = [drafts EXCEPT ![c].left = Tail(@)]
  /\ UNCHANGED <<exists, answers, message, attachments, batches, history>>

FinishDraftBeforeQuestions(c) ==
  /\ drafts[c] # Null
  /\ LET d == drafts[c].draft IN
       IF d.skip \/ HasRequirements
       THEN drafted' = drafted \cup {d} /\ UNCHANGED refused
       ELSE refused' = refused \cup {d} /\ UNCHANGED drafted
  /\ drafts' = [drafts EXCEPT ![c] = Null]
  /\ UNCHANGED <<tables, batches>>

(* All questions are in.  Unless projections are skipped, the requirements *)
(* are read back, and the call fails when there is nothing to show.        *)
FinishDraft(c) ==
  /\ drafts[c] # Null
  /\ drafts[c].left = <<>>
  /\ LET d == drafts[c].draft IN
       IF d.skip \/ HasRequirements
       THEN drafted' = drafted \cup {d} /\ UNCHANGED refused
       ELSE refused' = refused \cup {d} /\ UNCHANGED drafted
  /\ drafts' = [drafts EXCEPT ![c] = Null]
  /\ UNCHANGED <<tables, batches>>

(* The call ends early: a statement failed, or the process stopped. *)
CutDraft(c) ==
  /\ drafts[c] # Null
  /\ drafts' = [drafts EXCEPT ![c] = Null]
  /\ UNCHANGED <<tables, batches, history>>

-----------------------------------------------------------------------------
(* SaveRequirementAnswers.                                                 *)

BeginAnswers(c, b) ==
  /\ batches[c] = Null
  /\ batches' = [batches EXCEPT ![c] = [left |-> b]]
  /\ UNCHANGED <<tables, drafts, history>>

(* One turn of its loop, an upsert committed on its own.  The foreign key  *)
(* refuses an answer whose question is not there.                          *)
SaveAnswer(c) ==
  /\ batches[c] # Null
  /\ batches[c].left # <<>>
  /\ LET a == Head(batches[c].left) IN
       /\ questions[a.question] # Null
       /\ answers' = [answers EXCEPT ![a.question] = a.value]
  /\ batches' = [batches EXCEPT ![c].left = Tail(@)]
  /\ UNCHANGED <<exists, questions, message, attachments, drafts, history>>

(* The call ends: all is saved, an answer was refused, a statement failed, *)
(* or the process stopped.                                                 *)
EndAnswers(c) ==
  /\ batches[c] # Null
  /\ batches' = [batches EXCEPT ![c] = Null]
  /\ UNCHANGED <<tables, drafts, history>>

-----------------------------------------------------------------------------

(* SaveBuyerInitialMessage: a message replaces the one before, a blank one *)
(* too.                                                                    *)
SaveBuyerInitialMessage(m) ==
  /\ exists
  /\ message' = m
  /\ UNCHANGED <<exists, questions, answers, attachments, drafts, batches, history>>

AttachFileSwapped(a, f) ==
  /\ exists
  /\ attachments' = [attachments EXCEPT ![a] = a]
  /\ UNCHANGED <<exists, questions, answers, message, drafts, batches, history>>

(* AttachFile. *)
AttachFile(a, f) ==
  /\ exists
  /\ attachments' = [attachments EXCEPT ![a] = f]
  /\ UNCHANGED <<exists, questions, answers, message, drafts, batches, history>>

Next ==
  \/ \E c \in Calls, d \in Drafts : BeginDraft(c, d)
  \/ \E c \in Calls : InsertQuestion(c)
  \/ \E c \in Calls : FinishDraft(c)
  \/ \E c \in Calls : CutDraft(c)
  \/ \E c \in Calls, b \in Batches : BeginAnswers(c, b)
  \/ \E c \in Calls : SaveAnswer(c)
  \/ \E c \in Calls : EndAnswers(c)
  \/ \E m \in Messages : SaveBuyerInitialMessage(m)
  \/ \E a \in Attachments, f \in Files : AttachFile(a, f)

Spec == Init /\ [][Next]_vars

-----------------------------------------------------------------------------
(* Properties.                                                             *)

TypeOK ==
  /\ exists \in BOOLEAN
  /\ questions \in [Questions -> BOOLEAN \cup {Null}]
  /\ answers \in [Questions -> Values \cup {Null}]
  /\ message \in Messages \cup {Null}
  /\ attachments \in [Attachments -> Files \cup {Null}]
  /\ drafts \in [Calls -> DraftCall \cup {Null}]
  /\ batches \in [Calls -> BatchCall \cup {Null}]
  /\ drafted \in SUBSET Drafts
  /\ refused \in SUBSET Drafts

Asked(d) == {d.questions[i] : i \in 1..Len(d.questions)}

(* The draft commands of an order agree on what is required, as a command  *)
(* that is sent again agrees with itself.                                  *)
DraftsAgree ==
  \A d, e \in Drafts : \A q \in Asked(d), r \in Asked(e) :
    q.question = r.question => q.required = r.required

(* "Requirements completed", which payment waits for, may be reported      *)
(* while a draft is still inserting its questions.  Once the draft has     *)
(* been acknowledged it means what it says: every required question of the *)
(* command has an answer, although questions and answers come one by one   *)
(* and from overlapping calls.                                             *)
CompletedMeansAnswered ==
  DraftsAgree => \A d \in drafted : RequirementsCompleted =>
    \A q \in Asked(d) : q.required => answers[q.question] # Null

(* After every draft command has been acknowledged once, one that is sent  *)
(* again does not reopen the requirements: a question that is inserted     *)
(* again keeps its answer.                                                 *)
CompletionStable ==
  [][DraftsAgree /\ drafted = Drafts /\ RequirementsCompleted
       => RequirementsCompleted']_vars

(* A draft is answered "order not found" only if it asks nothing: the      *)
(* questions it has inserted are found again.                              *)
RefusedAskNothing ==
  \A d \in refused : d.questions = <<>>

=============================================================================
