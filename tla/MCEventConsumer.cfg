SPECIFICATION FairSpec
CONSTANTS
  Events = {e1, e2, bad}
  Poison = {bad}
  Replicas = {a, b}
  MaxAttempts = 2
  MaxPublished = 2
  MaxRestarts = 1
  MaxRebalances = 1
  MaxFaults = 2
INVARIANTS
  TypeOK
  ClaimsExplained
  NoSilentLoss
PROPERTIES
  ImplementsLedger
  Settles
CHECK_DEADLOCK FALSE
