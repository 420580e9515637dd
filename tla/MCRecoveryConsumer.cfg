SPECIFICATION FairSpec
CONSTANTS
  Commands = {c1, bad}
  Broken = {bad}
  Members = {m1, m2}
  Partitions = {p1}
  MaxPublished = 3
  MaxRebalances = 2
  MaxFaults = 2
  Null = Null
INVARIANTS
  TypeOK
  ClaimsExplained
  NoSilentLoss
PROPERTIES
  ImplementsLedger
  Consumed
CHECK_DEADLOCK FALSE
