SPECIFICATION Spec
CONSTANTS
  a = a  b = b  c = c
  q = q  r1 = r1  r2 = r2
  x1 = x1  x2 = x2  x3 = x3
  NoPost = NoPost  Nobody = Nobody
  Users = {a, b}
  Posts = {q, r1, r2}
  Author <- MCAuthor
  Parent <- MCParent
  Thread <- MCThread
  Questions = {q}
  Mentions <- MCMentions
  Admins = {b}
  Requests = {x1, x2, x3}
  Ops = {"create", "delete", "answered", "follow", "unfollow"}
SYMMETRY MCSymmetry
INVARIANTS TypeOK CountersExact OneEventPerChange OneNotificationEach OnlyFollowsDeadlock
PROPERTIES ImplementsBoard
