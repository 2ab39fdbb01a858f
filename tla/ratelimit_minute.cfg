SPECIFICATION Spec
CONSTANTS
  k1 = k1  k2 = k2
  Clients = {k1, k2}
  Limit = 2
  Window = 3
  Burst = 3
INVARIANT LimitPerMinute
