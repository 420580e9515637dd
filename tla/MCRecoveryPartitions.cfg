SPECIFICATION FairSpec
CONSTANTS
  Commands = {c1, bad}
  Broken = {bad}
  Members = {m1}
  Partitions = {p1, p2}
  MaxPublished = 3
  MaxRebalances = 0
  MaxFaults = 0
  Null = Null
PROPERTY Consumed
CHECK_DEADLOCK FALSE
