SPECIFICATION Spec
CONSTANTS
  q1 = q1
  q2 = q2
  v1 = v1
  v2 = v2
  blank = blank
  text = text
  Null = Null
  Questions = {q1, q2}
  Values = {v1, v2}
  Messages = {blank, text}
  Blank = {blank}
  Attachments = {a1}
  Files = {f1}
  Calls = {c1, c2}
  Drafts <- MCDrafts
  Batches <- MCBatches
INVARIANTS
  TypeOK
  CompletedMeansAnswered
  RefusedAskNothing
PROPERTIES
  CompletionStable
SYMMETRY MCSymmetry
