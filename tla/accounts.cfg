SPECIFICATION Spec
CONSTANTS

  Nobody = Nobody
  Requests = {r1, r2}
  Persons <- MCPersons
  MaxTokens = 4
  MaxFaults = 1
INVARIANTS TypeOK UniqueAccounts RotationBound
PROPERTIES BanHolds SessionsIndependent RequestsFinish
CHECK_DEADLOCK FALSE
