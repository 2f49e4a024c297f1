CONSTANTS
  m1 = m1  m2 = m2  h1 = h1  h2 = h2
  Monitors = {m1, m2}
  HomeOf <- TwoHomes
  Fibers = {w1, w2}
  Roles = {r1}
  Users = {u1, u2}
  TTL = 0
  MaxVersion = 1
  Ops = {"create", "load", "unload", "flush"}
  InOrder = FALSE
  Faults = {"monitor_crash", "query_error", "result_lost"}
  None = None
SPECIFICATION Spec
INVARIANT OwnersAgree
PROPERTY OwnerStays
SYMMETRY Symmetry
CHECK_DEADLOCK FALSE
