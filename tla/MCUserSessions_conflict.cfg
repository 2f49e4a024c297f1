CONSTANTS
  Agents = {a1, a2}
  Logics = {l1, l2}
  Users = {u1}
  Roles = {r1}
  Sessions = {1, 2}
  MaxRoles = 2
  MaxRequests = 1
  Acts = {}
  None = None
SPECIFICATION Spec
PROPERTY ContendsIfConnected
CHECK_DEADLOCK FALSE
