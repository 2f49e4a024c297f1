\* One role, two logins, one logout and the save timer, one writer at a time.
CONSTANTS
  Roles = {r1}
  Objects = {o1, o2}
  Agents = {a1}
  Logins = {i1, i2}
  Logouts = {q1}
  Saver = saver
  Acts = {"logout", "disconnect", "save", "agent_down", "query_error"}
  MaxVersion = 1
  InOrder = TRUE
  None = None
SPECIFICATION FairSpec
INVARIANTS TypeOK InIsOnline OutIsLeaving
PROPERTIES HydratesLatest ImplementsOnlineRoles ChangesReachRedis OrphansLeave
CHECK_DEADLOCK FALSE
