SPECIFICATION FairSpec
CONSTANTS
  Savers = {s1, s2}
  Readers = {r1}
  Consumers = {c1, c2}
  MaxSaves = 2
  MaxFaults = 1
  Null = Null
INVARIANTS
  TypeOK
  MessageHasItsFiles
PROPERTIES
  ImplementsReadModel
  Converges
CHECK_DEADLOCK FALSE
