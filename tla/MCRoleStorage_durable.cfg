CONSTANTS
  m1 = m1  m2 = m2  h1 = h1  h2 = h2
  Monitors = {m1}
  HomeOf <- OneHome
  Fibers = {w1, w2}
  Roles = {r1}
  Users = {u1}
  TTL = 4
  MaxVersion = 1
  Ops = {"create", "load", "flush", "save"}
  InOrder = TRUE
  Faults = {}
  None = None
SPECIFICATION FairSpec
INVARIANTS TypeOK NothingLost Tracked
PROPERTY SavesReachMySQL
CHECK_DEADLOCK FALSE
