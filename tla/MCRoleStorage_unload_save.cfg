CONSTANTS
  m1 = m1  m2 = m2  h1 = h1  h2 = h2
  Monitors = {m1}
  HomeOf <- OneHome
  Fibers = {w1}
  Roles = {r1}
  Users = {u1}
  TTL = 4
  MaxVersion = 2
  Ops = {"create", "load", "unload", "save"}
  InOrder = TRUE
  Faults = {}
  None = None
SPECIFICATION Spec
PROPERTY DeletedSafely

CHECK_DEADLOCK FALSE
