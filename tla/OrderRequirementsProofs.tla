------------------------ MODULE OrderRequirementsProofs ------------------------
(***************************************************************************)
(* Proofs about OrderRequirements, for any questions, drafts, batches and  *)
(* calls.                                                                  *)
(***************************************************************************)
EXTENDS OrderRequirements, TLAPS

LEMMA CommandTypes ==
  /\ \A d \in Drafts : d.questions \in Seq(QuestionSnapshot)
  /\ \A d \in Drafts : [draft |-> d, left |-> d.questions] \in DraftCall
  /\ \A b \in Batches : [left |-> b] \in BatchCall
BY CommandsAssumption DEF DraftCommand, DraftCall, BatchCall

(* The head of what is left, and the call without it. *)
LEMMA DraftTurn ==
  ASSUME TypeOK, NEW c \in Calls, drafts[c] # Null, drafts[c].left # <<>>
  PROVE  /\ drafts[c] \in DraftCall
         /\ Head(drafts[c].left) \in QuestionSnapshot
         /\ [drafts[c] EXCEPT !.left = Tail(@)] \in DraftCall
<1>1. drafts[c] \in DraftCall
  BY DEF TypeOK
<1>2. drafts[c].left \in Seq(QuestionSnapshot)
  BY <1>1 DEF DraftCall
<1>3. /\ Head(drafts[c].left) \in QuestionSnapshot
      /\ Tail(drafts[c].left) \in Seq(QuestionSnapshot)
  BY <1>2
<1> QED
  BY <1>1, <1>3 DEF DraftCall

LEMMA BatchTurn ==
  ASSUME TypeOK, NEW c \in Calls, batches[c] # Null, batches[c].left # <<>>
  PROVE  /\ Head(batches[c].left) \in Answer
         /\ [batches[c] EXCEPT !.left = Tail(@)] \in BatchCall
<1>1. batches[c] \in BatchCall
  BY DEF TypeOK
<1>2. batches[c].left \in Seq(Answer)
  BY <1>1 DEF BatchCall
<1>3. /\ Head(batches[c].left) \in Answer
      /\ Tail(batches[c].left) \in Seq(Answer)
  BY <1>2
<1> QED
  BY <1>1, <1>3 DEF BatchCall

LEMMA TypeStep == TypeOK /\ [Next]_vars => TypeOK'
<1> SUFFICES ASSUME TypeOK, [Next]_vars
             PROVE  TypeOK'
  OBVIOUS
<1> USE DEF tables, history
<1>1. ASSUME NEW c \in Calls, NEW d \in Drafts, BeginDraft(c, d)
      PROVE  TypeOK'
  BY <1>1, CommandTypes DEF BeginDraft, TypeOK
<1>2. ASSUME NEW c \in Calls, InsertQuestion(c)
      PROVE  TypeOK'
  <2> DEFINE q == Head(drafts[c].left)
  <2>1. /\ drafts[c] # Null /\ drafts[c].left # <<>>
        /\ questions' = [questions EXCEPT ![q.question] = q.required]
        /\ drafts' = [drafts EXCEPT ![c] = [drafts[c] EXCEPT !.left = Tail(@)]]
        /\ UNCHANGED <<exists, answers, message, attachments, batches, history>>
    BY <1>2 DEF InsertQuestion
  <2>2. q \in QuestionSnapshot /\ [drafts[c] EXCEPT !.left = Tail(@)] \in DraftCall
    BY <2>1, DraftTurn
  <2> HIDE DEF q
  <2>3. questions' \in [Questions -> BOOLEAN \cup {Null}]
    BY <2>1, <2>2 DEF TypeOK, QuestionSnapshot
  <2> QED
    BY <2>1, <2>2, <2>3 DEF TypeOK
<1>3. ASSUME NEW c \in Calls, FinishDraft(c)
      PROVE  TypeOK'
  <2>1. drafts[c].draft \in Drafts
    BY <1>3 DEF FinishDraft, TypeOK, DraftCall
  <2>2. drafted' \in SUBSET Drafts /\ refused' \in SUBSET Drafts
    BY <1>3, <2>1 DEF FinishDraft, TypeOK
  <2> QED
    BY <1>3, <2>2 DEF FinishDraft, TypeOK
<1>4. ASSUME NEW c \in Calls, CutDraft(c)
      PROVE  TypeOK'
  BY <1>4 DEF CutDraft, TypeOK
<1>5. ASSUME NEW c \in Calls, NEW b \in Batches, BeginAnswers(c, b)
      PROVE  TypeOK'
  BY <1>5, CommandTypes DEF BeginAnswers, TypeOK
<1>6. ASSUME NEW c \in Calls, SaveAnswer(c)
      PROVE  TypeOK'
  <2> DEFINE a == Head(batches[c].left)
  <2>1. /\ batches[c] # Null /\ batches[c].left # <<>>
        /\ answers' = [answers EXCEPT ![a.question] = a.value]
        /\ batches' = [batches EXCEPT ![c] = [batches[c] EXCEPT !.left = Tail(@)]]
        /\ UNCHANGED <<exists, questions, message, attachments, drafts, history>>
    BY <1>6 DEF SaveAnswer
  <2>2. a \in Answer /\ [batches[c] EXCEPT !.left = Tail(@)] \in BatchCall
    BY <2>1, BatchTurn
  <2> HIDE DEF a
  <2>3. answers' \in [Questions -> Values \cup {Null}]
    BY <2>1, <2>2 DEF TypeOK, Answer
  <2> QED
    BY <2>1, <2>2, <2>3 DEF TypeOK
<1>7. ASSUME NEW c \in Calls, EndAnswers(c)
      PROVE  TypeOK'
  BY <1>7 DEF EndAnswers, TypeOK
<1>8. ASSUME NEW m \in Messages, SaveBuyerInitialMessage(m)
      PROVE  TypeOK'
  BY <1>8 DEF SaveBuyerInitialMessage, TypeOK
<1>9. ASSUME NEW a \in Attachments, NEW f \in Files, AttachFile(a, f)
      PROVE  TypeOK'
  BY <1>9 DEF AttachFile, TypeOK
<1>10. CASE UNCHANGED vars
  BY <1>10 DEF vars, TypeOK
<1> QED
  BY <1>1, <1>2, <1>3, <1>4, <1>5, <1>6, <1>7, <1>8, <1>9, <1>10 DEF Next

(* Type correctness: only snapshots, answers and files of their types are  *)
(* stored, and no call has more left than it was sent.                     *)
THEOREM TypeCorrect == Spec => []TypeOK
<1>1. Init => TypeOK
  BY DEF Init, TypeOK
<1> QED
  BY <1>1, TypeStep, PTL DEF Spec

-----------------------------------------------------------------------------
(***************************************************************************)
(* Drafts.  What a draft under way has not inserted yet it still has left; *)
(* so an acknowledged one has inserted everything it asks, and every       *)
(* question in the table is asked by some draft.                           *)
(***************************************************************************)

Inserted(s) == questions[s.question] # Null

InFlight(c) ==
  /\ exists
  /\ \A i \in 1..Len(drafts[c].left) :
       drafts[c].left[i] \in Asked(drafts[c].draft)
  /\ \A s \in Asked(drafts[c].draft) :
       Inserted(s) \/ \E i \in 1..Len(drafts[c].left) : drafts[c].left[i] = s

DraftInv ==
  /\ \A c \in Calls : drafts[c] # Null => InFlight(c)
  /\ \A d \in drafted : \A s \in Asked(d) : Inserted(s)
  /\ \A q \in Questions : questions[q] # Null =>
       \E d \in Drafts : \E s \in Asked(d) :
         s.question = q /\ s.required = questions[q]
  /\ RefusedAskNothing

LEMMA AskedTypes ==
  \A d \in Drafts : Asked(d) \subseteq QuestionSnapshot
BY CommandTypes DEF Asked

(* A step that leaves the questions and the drafts in flight, or ends one. *)
LEMMA DraftsKept ==
  ASSUME DraftInv, UNCHANGED <<questions, history>>, exists => exists',
         \A c \in Calls : drafts'[c] = drafts[c] \/ drafts'[c] = Null
  PROVE  DraftInv'
<1>1. ASSUME NEW c \in Calls, drafts'[c] # Null
      PROVE  InFlight(c)'
  <2>1. drafts'[c] = drafts[c] /\ InFlight(c)
    BY <1>1 DEF DraftInv
  <2>2. Asked(drafts[c].draft)' = Asked(drafts[c].draft)
    BY <2>1 DEF Asked
  <2> QED
    BY <2>1, <2>2 DEF InFlight, Inserted
<1> QED
  BY <1>1 DEF DraftInv, Inserted, RefusedAskNothing, Asked, history

LEMMA DraftStep == TypeOK /\ DraftInv /\ [Next]_vars => DraftInv'
<1> SUFFICES ASSUME TypeOK, DraftInv, [Next]_vars
             PROVE  DraftInv'
  OBVIOUS
<1> USE DEF tables, history
<1>0. drafts \in [Calls -> DraftCall \cup {Null}]
  BY DEF TypeOK
<1>1. ASSUME NEW c \in Calls, NEW d \in Drafts, BeginDraft(c, d)
      PROVE  DraftInv'
  <2>1. /\ exists' = TRUE /\ UNCHANGED <<questions, history>>
        /\ drafts' = [drafts EXCEPT ![c] = [draft |-> d, left |-> d.questions]]
    BY <1>1 DEF BeginDraft
  <2>2. /\ drafts'[c].draft = d /\ drafts'[c].left = d.questions
        /\ \A e \in Calls \ {c} : drafts'[e] = drafts[e]
    BY <1>0, <2>1
  <2>3. InFlight(c)'
    <3>1. /\ \A i \in 1..Len(d.questions) : d.questions[i] \in Asked(d)
          /\ \A s \in Asked(d) : \E i \in 1..Len(d.questions) : d.questions[i] = s
      BY DEF Asked
    <3>2. Asked(drafts[c].draft)' = Asked(d)
      BY <2>2 DEF Asked
    <3> QED
      BY <2>1, <2>2, <3>1, <3>2 DEF InFlight
  <2>4. ASSUME NEW e \in Calls \ {c}, drafts'[e] # Null
        PROVE  InFlight(e)'
    BY <2>1, <2>2, <2>4 DEF DraftInv, InFlight, Inserted, Asked
  <2> QED
    BY <2>1, <2>3, <2>4 DEF DraftInv, Inserted, RefusedAskNothing, Asked
<1>2. ASSUME NEW c \in Calls, InsertQuestion(c)
      PROVE  DraftInv'
  <2> DEFINE q == Head(drafts[c].left)
             left == drafts[c].left
             d == drafts[c].draft
  <2>1. /\ drafts[c] # Null /\ left # <<>>
        /\ questions' = [questions EXCEPT ![q.question] = q.required]
        /\ drafts' = [drafts EXCEPT ![c] = [drafts[c] EXCEPT !.left = Tail(@)]]
        /\ UNCHANGED <<exists, history>>
    BY <1>2 DEF InsertQuestion
  <2>2. /\ q \in QuestionSnapshot /\ d \in Drafts
        /\ left \in Seq(QuestionSnapshot)
        /\ drafts[c] \in DraftCall
    BY <2>1, DraftTurn DEF DraftCall
  <2>3. InFlight(c) /\ q \in Asked(d)
    <3>1. InFlight(c)
      BY <2>1 DEF DraftInv
    <3>2. 1 \in 1..Len(left) /\ q = left[1]
      BY <2>1, <2>2
    <3> QED
      BY <3>1, <3>2 DEF InFlight
  <2>4. /\ drafts'[c].draft = d /\ drafts'[c].left = Tail(left)
        /\ \A e \in Calls \ {c} : drafts'[e] = drafts[e]
    BY <1>0, <2>1, <2>2 DEF DraftCall
  <2>5. /\ \A i \in 1..Len(Tail(left)) :
             i + 1 \in 1..Len(left) /\ Tail(left)[i] = left[i + 1]
        /\ \A i \in 1..Len(left) :
             left[i] = q \/ (i - 1 \in 1..Len(Tail(left)) /\ Tail(left)[i - 1] = left[i])
    BY <2>1, <2>2
  <2>6. /\ questions'[q.question] = q.required /\ q.required # Null
        /\ q.question \in Questions
        /\ \A p \in Questions : p # q.question => questions'[p] = questions[p]
    BY <2>1, <2>2, NullAssumption DEF TypeOK, QuestionSnapshot
  <2> HIDE DEF q, left, d
  <2>7. \A s \in QuestionSnapshot : Inserted(s) => Inserted(s)'
    BY <2>6 DEF Inserted, QuestionSnapshot
  <2>8. InFlight(c)'
    <3>1. \A i \in 1..Len(Tail(left)) : Tail(left)[i] \in Asked(d)
      BY <2>3, <2>5 DEF InFlight, left, d
    <3>2. ASSUME NEW s \in Asked(d)
          PROVE  Inserted(s)' \/ \E i \in 1..Len(Tail(left)) : Tail(left)[i] = s
      <4>1. s \in QuestionSnapshot
        BY <2>2, AskedTypes
      <4>2. CASE Inserted(s) \/ s = q
        BY <2>6, <2>7, <4>1, <4>2 DEF Inserted
      <4>3. ASSUME NEW i \in 1..Len(left), left[i] = s, s # q
            PROVE  \E j \in 1..Len(Tail(left)) : Tail(left)[j] = s
        BY <2>5, <4>3
      <4> QED
        BY <2>3, <4>2, <4>3 DEF InFlight, left, d
    <3>3. Asked(drafts[c].draft)' = Asked(d)
      BY <2>4 DEF Asked
    <3> QED
      BY <2>1, <2>3, <2>4, <3>1, <3>2, <3>3 DEF InFlight
  <2>9. ASSUME NEW e \in Calls \ {c}, drafts'[e] # Null
        PROVE  InFlight(e)'
    <3>1. InFlight(e) /\ drafts'[e] = drafts[e] /\ drafts[e].draft \in Drafts
      BY <1>0, <2>4, <2>9 DEF DraftInv, DraftCall
    <3> QED
      BY <2>1, <2>7, <3>1, AskedTypes DEF InFlight, Inserted, Asked
  <2>10. ASSUME NEW e \in drafted', NEW s \in Asked(e)
         PROVE  Inserted(s)'
    <3>1. e \in drafted /\ s \in QuestionSnapshot
      BY <2>1, AskedTypes DEF TypeOK
    <3> QED
      BY <2>7, <3>1 DEF DraftInv
  <2>11. ASSUME NEW p \in Questions, questions'[p] # Null
         PROVE  \E e \in Drafts : \E s \in Asked(e) :
                  s.question = p /\ s.required = questions'[p]
    <3>1. CASE p = q.question
      BY <2>2, <2>3, <2>6, <3>1
    <3>2. CASE p # q.question
      BY <2>6, <2>11, <3>2 DEF DraftInv
    <3> QED
      BY <3>1, <3>2
  <2>12. RefusedAskNothing'
    BY <2>1 DEF DraftInv, RefusedAskNothing
  <2> QED
    BY <2>8, <2>9, <2>10, <2>11, <2>12 DEF DraftInv, Inserted, Asked
<1>3. ASSUME NEW c \in Calls, FinishDraft(c)
      PROVE  DraftInv'
  <2> DEFINE d == drafts[c].draft
  <2>1. /\ drafts[c] # Null /\ drafts[c].left = <<>>
        /\ drafts' = [drafts EXCEPT ![c] = Null]
        /\ \/ drafted' = drafted \cup {d} /\ refused' = refused
           \/ ~HasRequirements /\ refused' = refused \cup {d} /\ drafted' = drafted
        /\ UNCHANGED tables
    BY <1>3 DEF FinishDraft
  <2>2. d \in Drafts
    BY <1>0, <2>1 DEF DraftCall
  <2>3. exists /\ \A s \in Asked(d) : Inserted(s)
    BY <2>1 DEF DraftInv, InFlight
  <2>4. ~HasRequirements => d.questions = <<>>
    <3> SUFFICES ASSUME d.questions # <<>>
                 PROVE  HasRequirements
      OBVIOUS
    <3>1. d.questions \in Seq(QuestionSnapshot)
      BY <2>2, CommandTypes
    <3>2. d.questions[1] \in Asked(d) /\ d.questions[1] \in QuestionSnapshot
      <4>1. 1 \in 1..Len(d.questions)
        BY <3>1
      <4> QED
        BY <3>1, <4>1 DEF Asked
    <3> QED
      BY <2>3, <3>2 DEF Inserted, HasRequirements, QuestionSnapshot
  <2>5. \A e \in Calls : drafts'[e] = drafts[e] \/ drafts'[e] = Null
    BY <1>0, <2>1
  <2> HIDE DEF d
  <2>6. ASSUME NEW e \in Calls, drafts'[e] # Null
        PROVE  InFlight(e)'
    BY <2>1, <2>5, <2>6 DEF DraftInv, InFlight, Inserted, Asked
  <2>7. ASSUME NEW e \in drafted', NEW s \in Asked(e)
        PROVE  Inserted(s)'
    BY <2>1, <2>3, <2>7 DEF DraftInv, Inserted
  <2>8. RefusedAskNothing'
    BY <2>1, <2>4 DEF DraftInv, RefusedAskNothing
  <2> QED
    BY <2>1, <2>6, <2>7, <2>8 DEF DraftInv, Inserted, Asked
<1>4. ASSUME NEW c \in Calls, CutDraft(c)
      PROVE  DraftInv'
  BY <1>0, <1>4, DraftsKept DEF CutDraft
<1>5. ASSUME UNCHANGED <<exists, questions, drafts, history>>
      PROVE  DraftInv'
  BY <1>5, DraftsKept
<1>6. ASSUME \/ \E c \in Calls, b \in Batches : BeginAnswers(c, b)
             \/ \E c \in Calls : SaveAnswer(c) \/ EndAnswers(c)
             \/ \E m \in Messages : SaveBuyerInitialMessage(m)
             \/ \E a \in Attachments, f \in Files : AttachFile(a, f)
             \/ UNCHANGED vars
      PROVE  UNCHANGED <<exists, questions, drafts, history>>
  BY <1>6 DEF BeginAnswers, SaveAnswer, EndAnswers, SaveBuyerInitialMessage,
              AttachFile, vars
<1> QED
  BY <1>1, <1>2, <1>3, <1>4, <1>5, <1>6 DEF Next

LEMMA DraftInvariant == Spec => []DraftInv
<1>1. Init => DraftInv
  BY DEF Init, DraftInv, RefusedAskNothing
<1> QED
  BY <1>1, DraftStep, TypeCorrect, PTL DEF Spec

(* A draft is refused as "order not found" only if it asks nothing.        *)
THEOREM RefusalsAskNothing == Spec => []RefusedAskNothing
<1>1. DraftInv => RefusedAskNothing
  BY DEF DraftInv
<1> QED
  BY <1>1, DraftInvariant, PTL

(* A question of an acknowledged draft is stored as the draft asks it.     *)
LEMMA StoredAsAsked ==
  ASSUME TypeOK, DraftInv, DraftsAgree, NEW d \in Drafts, NEW s \in Asked(d),
         Inserted(s)
  PROVE  questions[s.question] = s.required
<1>1. s.question \in Questions
  BY AskedTypes DEF QuestionSnapshot
<1> QED
  BY <1>1 DEF DraftInv, DraftsAgree, Inserted

(* Whatever overlaps and whatever ends in the middle: once a draft is      *)
(* acknowledged, completed requirements are answered ones.                 *)
THEOREM CompletedIsAnswered == Spec => []CompletedMeansAnswered
<1>1. ASSUME TypeOK, DraftInv, DraftsAgree, NEW d \in drafted,
             RequirementsCompleted, NEW s \in Asked(d), s.required
      PROVE  answers[s.question] # Null
  <2>1. d \in Drafts /\ s \in QuestionSnapshot /\ Inserted(s)
    BY <1>1, AskedTypes DEF TypeOK, DraftInv
  <2>2. s.question \in Questions /\ s.required = TRUE
    BY <1>1, <2>1 DEF QuestionSnapshot
  <2>3. questions[s.question] = TRUE
    BY <1>1, <2>1, <2>2, StoredAsAsked
  <2> QED
    BY <1>1, <2>2, <2>3 DEF RequirementsCompleted
<1>2. TypeOK /\ DraftInv => CompletedMeansAnswered
  BY <1>1 DEF CompletedMeansAnswered
<1> QED
  BY <1>2, TypeCorrect, DraftInvariant, PTL

(* An answer is replaced, never taken back. *)
LEMMA AnswersKept ==
  ASSUME TypeOK, [Next]_vars
  PROVE  \A q \in Questions : answers[q] # Null => answers'[q] # Null
<1> USE DEF tables, history
<1>1. ASSUME NEW c \in Calls, SaveAnswer(c)
      PROVE  \A q \in Questions : answers[q] # Null => answers'[q] # Null
  <2> DEFINE a == Head(batches[c].left)
  <2>1. /\ batches[c] # Null /\ batches[c].left # <<>>
        /\ answers' = [answers EXCEPT ![a.question] = a.value]
    BY <1>1 DEF SaveAnswer
  <2>2. a.value # Null
    BY <2>1, BatchTurn, NullAssumption DEF Answer
  <2> HIDE DEF a
  <2> QED
    BY <2>1, <2>2 DEF TypeOK
<1>2. CASE answers' = answers
  BY <1>2
<1> QED
  BY <1>1, <1>2
  DEF Next, vars, BeginDraft, InsertQuestion, FinishDraft, CutDraft,
      BeginAnswers, EndAnswers, SaveBuyerInitialMessage, AttachFile

(* Once every draft has been acknowledged, no draft that comes again, and  *)
(* nothing else, reopens completed requirements.                           *)
THEOREM CompletionStays == Spec => CompletionStable
<1>1. ASSUME TypeOK, DraftInv, [Next]_vars,
             DraftsAgree, drafted = Drafts, RequirementsCompleted
      PROVE  RequirementsCompleted'
  <2> USE DEF tables, history
  <2>1. \A q \in Questions : questions'[q] = questions[q]
    <3>1. ASSUME NEW c \in Calls, InsertQuestion(c), NEW p \in Questions
          PROVE  questions'[p] = questions[p]
      <4> DEFINE q == Head(drafts[c].left)
      <4>1. /\ drafts[c] # Null /\ drafts[c].left # <<>>
            /\ questions' = [questions EXCEPT ![q.question] = q.required]
        BY <3>1 DEF InsertQuestion
      <4>2. /\ drafts[c].draft \in Drafts
            /\ drafts[c].left \in Seq(QuestionSnapshot)
        BY <1>1, <4>1, DraftTurn DEF DraftCall
      <4>3. q \in Asked(drafts[c].draft)
        <5>1. 1 \in 1..Len(drafts[c].left) /\ q = drafts[c].left[1]
          BY <4>1, <4>2
        <5> QED
          BY <1>1, <4>1, <5>1 DEF DraftInv, InFlight
      <4>4. Inserted(q)
        BY <1>1, <4>2, <4>3 DEF DraftInv
      <4> HIDE DEF q
      <4>5. questions[q.question] = q.required
        BY <1>1, <4>2, <4>3, <4>4, StoredAsAsked
      <4> QED
        BY <1>1, <4>1, <4>5 DEF TypeOK
    <3>2. CASE questions' = questions
      BY <3>2
    <3> QED
      BY <1>1, <3>1, <3>2
      DEF Next, vars, BeginDraft, FinishDraft, CutDraft, BeginAnswers, SaveAnswer,
          EndAnswers, SaveBuyerInitialMessage, AttachFile
  <2>2. \A q \in Questions : answers[q] # Null => answers'[q] # Null
    BY <1>1, AnswersKept
  <2> QED
    BY <1>1, <2>1, <2>2 DEF RequirementsCompleted
<1>2. TypeOK /\ DraftInv /\ [Next]_vars =>
        [DraftsAgree /\ drafted = Drafts /\ RequirementsCompleted
           => RequirementsCompleted']_vars
  BY <1>1
<1> QED
  BY <1>2, TypeCorrect, DraftInvariant, PTL DEF Spec, CompletionStable

-----------------------------------------------------------------------------
(***************************************************************************)
(* Whatever the drafts say, and agree on or not: what can make a completed *)
(* order wait for its buyer again, and what an answer is an answer to.     *)
(***************************************************************************)

(* A call is about to insert a required question that nobody answered. *)
Reopens(c) ==
  /\ InsertQuestion(c)
  /\ Head(drafts[c].left).required = TRUE
  /\ answers[Head(drafts[c].left).question] = Null

(* The one step that takes "requirements completed" back is a draft that   *)
(* inserts a required question with no answer: no answer, message, file,   *)
(* failure or call that ends early does.                                   *)
THEOREM OnlyDraftsReopen ==
  Spec => [][RequirementsCompleted /\ ~RequirementsCompleted'
               => \E c \in Calls : Reopens(c)]_vars
<1>1. ASSUME TypeOK, [Next]_vars, RequirementsCompleted, ~RequirementsCompleted'
      PROVE  \E c \in Calls : Reopens(c)
  <2> USE DEF tables, history
  <2>1. PICK q \in Questions : questions'[q] = TRUE /\ answers'[q] = Null
    BY <1>1 DEF RequirementsCompleted
  <2>2. answers[q] = Null
    BY <1>1, <2>1, AnswersKept
  <2>3. questions[q] # TRUE
    BY <1>1, <2>2 DEF RequirementsCompleted
  <2>4. PICK c \in Calls : InsertQuestion(c)
    <3>1. CASE questions' = questions
      BY <3>1, <2>1, <2>3
    <3> QED
      BY <1>1, <3>1
      DEF Next, vars, BeginDraft, FinishDraft, CutDraft, BeginAnswers, SaveAnswer,
          EndAnswers, SaveBuyerInitialMessage, AttachFile
  <2>5. /\ Head(drafts[c].left) \in QuestionSnapshot
        /\ questions' = [questions EXCEPT ![Head(drafts[c].left).question]
                                             = Head(drafts[c].left).required]
    BY <1>1, <2>4, DraftTurn DEF InsertQuestion
  <2>6. Head(drafts[c].left).question = q /\ Head(drafts[c].left).required = TRUE
    BY <1>1, <2>1, <2>3, <2>5 DEF TypeOK, QuestionSnapshot
  <2> QED
    BY <2>2, <2>4, <2>6 DEF Reopens
<1>2. TypeOK /\ [Next]_vars =>
        [RequirementsCompleted /\ ~RequirementsCompleted'
           => \E c \in Calls : Reopens(c)]_vars
  BY <1>1
<1> QED
  BY <1>2, TypeCorrect, PTL DEF Spec

AnswersAsked == \A q \in Questions : answers[q] # Null => questions[q] # Null

(* Answers come one by one, from calls that overlap the drafts or come     *)
(* before them: each that is saved is one to a question of the order.      *)
THEOREM AnswersAreAsked == Spec => []AnswersAsked
<1>1. ASSUME TypeOK, AnswersAsked, [Next]_vars
      PROVE  AnswersAsked'
  <2> USE DEF tables, history
  <2>1. ASSUME NEW c \in Calls, InsertQuestion(c)
        PROVE  AnswersAsked'
    <3> DEFINE s == Head(drafts[c].left)
    <3>1. /\ s \in QuestionSnapshot
          /\ questions' = [questions EXCEPT ![s.question] = s.required]
          /\ answers' = answers
      BY <1>1, <2>1, DraftTurn DEF InsertQuestion
    <3>2. s.required # Null
      BY <3>1, NullAssumption DEF QuestionSnapshot
    <3> HIDE DEF s
    <3> QED
      BY <1>1, <3>1, <3>2 DEF TypeOK, AnswersAsked
  <2>2. ASSUME NEW c \in Calls, SaveAnswer(c)
        PROVE  AnswersAsked'
    <3> DEFINE a == Head(batches[c].left)
    <3>1. /\ questions[a.question] # Null
          /\ answers' = [answers EXCEPT ![a.question] = a.value]
          /\ questions' = questions
      BY <2>2 DEF SaveAnswer
    <3> HIDE DEF a
    <3> QED
      BY <1>1, <3>1 DEF TypeOK, AnswersAsked
  <2>3. CASE UNCHANGED <<questions, answers>>
    BY <1>1, <2>3 DEF AnswersAsked
  <2> QED
    BY <1>1, <2>1, <2>2, <2>3
    DEF Next, vars, BeginDraft, FinishDraft, CutDraft, BeginAnswers,
        EndAnswers, SaveBuyerInitialMessage, AttachFile
<1>2. Init => AnswersAsked
  BY DEF Init, AnswersAsked
<1> QED
  BY <1>1, <1>2, TypeCorrect, PTL DEF Spec

=============================================================================
