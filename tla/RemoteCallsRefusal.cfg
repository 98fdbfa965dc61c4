SPECIFICATION Spec
CONSTANTS
  Requests = {r1, r2}
  p1 = p1
  p2 = p2
  Order <- TwoProviders
  Local = local
  Limit = 1
  None = None
INVARIANT RefusalIsAsDocumented
CHECK_DEADLOCK FALSE
