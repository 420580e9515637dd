SPECIFICATION FairSpec
CONSTANTS
  Writers = {w1, w2}
  Readers = {r1}
  Consumers = {c1}
  Preview = TRUE
  MaxVersion = 2
  MaxSame = 1
  MaxFaults = 1
  Null = Null
INVARIANTS
  TypeOK
  CopiesWellFormed
PROPERTIES
  ImplementsReadModel
  Converges
CHECK_DEADLOCK FALSE
