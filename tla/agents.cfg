SPECIFICATION Spec
CONSTANTS
  i1 = i1  i2 = i2  a = a  b = b  q = q
  Session = Session  Nowhere = Nowhere
  Instances = {i1, i2}
  Embedded <- MCEmbedded
  Users = {a, b}
  Agents = {a}
  Notes = {1, 2, 3}
  To <- MCTo
  Subject <- MCSubject
  Tokens = {1, 2}
  TokensAt = 1
  InboxAt = 2
  PageSize = 1
  MaxFaults = 1
INVARIANTS TypeOK SchemaReady AppliedOnce RevokedStaysOut
PROPERTIES ImplementsInbox InboxDrains EveryStartServes
CHECK_DEADLOCK FALSE
