SPECIFICATION FairSpec
CONSTANTS
  Writers = {w1, w2}
  Readers = {r1}
  Consumers = {c1}
  Preview = FALSE
  MaxVersion = 3
  MaxSame = 1
  MaxFaults = 2
  Null = Null
PROPERTY Converges
CHECK_DEADLOCK FALSE
