CONSTANTS
  Agents = {a1, a2}
  Logics = {l1, l2}
  Users = {u1}
  Roles = {r1}
  Sessions = {1, 2}
  MaxRoles = 2
  MaxRequests = 0
  Acts = {"check_role", "agent_crash"}
  None = None
SPECIFICATION FairSpec
PROPERTIES ConflictEnds RolesSettle
CHECK_DEADLOCK FALSE
