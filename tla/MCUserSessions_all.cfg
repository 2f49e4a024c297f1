CONSTANTS
  Agents = {a1, a2}
  Logics = {l1, l2}
  Users = {u1, u2}
  Roles = {r1}
  Sessions = {1, 2}
  MaxRoles = 2
  MaxRequests = 1
  Acts = {"ping_timeout", "lost", "reorder", "check_role", "agent_crash"}
  None = None
SPECIFICATION Spec
INVARIANTS TypeOK AdmittedIsConnected OwnRolesOnly
SYMMETRY Symmetry
CHECK_DEADLOCK FALSE
