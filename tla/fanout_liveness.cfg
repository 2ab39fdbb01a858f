SPECIFICATION FairSpec
CONSTANTS
  a = a  b = b  c = c
  p1 = p1  p2 = p2  r1 = r1
  i1 = i1  i2 = i2
  NoPost = NoPost  NoEvent = NoEvent
  Users = {a, b}
  Posts = {p1, r1}
  Author <- MCAuthor
  Parent <- MCParent
  Thread <- MCThread
  Instances = {i1, i2}
  BatchSize = 2
  MaxAttempts = 2
  FaultKinds = {"work"}
  MaxFaults = 2
PROPERTIES EventSettles LoyalFollowersReached
CHECK_DEADLOCK FALSE
