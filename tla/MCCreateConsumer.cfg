\* Two messages, one new process, one rebalance, two failing steps of the
\* loops and one failing call of the database.
CONSTANTS
  e1 = e1
  again = again
  e2 = e2
  bad = bad
  garbled = garbled
  o1 = o1
  o2 = o2
  k1 = k1
  k2 = k2
  Null = Null
  Events <- MCEvents
  Poison = {bad}
  Garbled = {garbled}
  Replicas = {a, b}
  Orders = {o1, o2}
  Keys = {k1, k2}
  OrderOf <- MCOrderOf
  KeyOf <- MCKeyOf
  Before <- MCBefore
  MaxAttempts = 2
  MaxPublished = 2
  MaxRestarts = 1
  MaxRebalances = 1
  MaxFaults = 2
  MaxFailures = 1

SPECIFICATION Spec

SYMMETRY Symmetry

CHECK_DEADLOCK FALSE

INVARIANTS
  TypeOK
  SuccessIsTrue
  RefusalIsTrue
  AnswersAgree
  NoCommandUnanswered
