SPECIFICATION Spec
CONSTANTS
  o1 = o1
  o2 = o2
  ann = ann
  bob = bob
  k1 = k1
  g1 = g1
  g2 = g2
  Null = Null
  OrderIds = {o1, o2}
  Users = {ann, bob}
  Keys = {k1}
  Gigs = {g1, g2}
  Intents = {i1}
  Releases = {r1}
  Reasons = {x1}
  Files = {f1}
  Calls = {c1}
  MaxRevisions = 2
  Creates <- MCCreates
PROPERTIES
  SnapshotImmutable
