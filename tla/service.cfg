SPECIFICATION ServiceSpec
CONSTANTS
  a = a  b = b
  q = q  r1 = r1
  x1 = x1  x2 = x2
  i1 = i1
  NoPost = NoPost  Nobody = Nobody  NoEvent = NoEvent
  Users = {a, b}
  Posts = {q, r1}
  Author <- MCAuthor
  Parent <- MCParent
  Thread <- MCThread
  Questions = {}
  Mentions <- MCMentions
  Admins = {b}
  Requests = {x1, x2}
  Ops = {"create", "delete", "follow", "unfollow"}
  Instances = {i1}
  BatchSize = 2
  MaxAttempts = 2
  FaultKinds = {"work", "stop"}
  MaxFaults = 1
SYMMETRY MCSymmetry
PROPERTIES ImplementsFanout
