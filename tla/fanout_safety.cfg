SPECIFICATION Spec
CONSTANTS
  a = a  b = b  c = c
  p1 = p1  p2 = p2  r1 = r1
  i1 = i1  i2 = i2
  NoPost = NoPost  NoEvent = NoEvent
  Users = {a, b}
  Posts = {p1, p2}
  Author <- MCAuthor
  Parent <- MCParent
  Thread <- MCThread
  Instances = {i1, i2}
  BatchSize = 2
  MaxAttempts = 2
  FaultKinds = {"work", "settle", "stop"}
  MaxFaults = 2
SYMMETRY MCSymmetry
INVARIANTS TypeOK ExclusiveClaim RetryBudget DoneMeansDelivered StrandedBound
PROPERTIES SettledForever ImplementsHomeFeed
CHECK_DEADLOCK FALSE
