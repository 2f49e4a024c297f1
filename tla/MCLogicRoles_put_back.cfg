CONSTANTS
  Roles = {r1}
  Objects = {o1, o2}
  Agents = {a1, a2}
  Logins = {i1, i2}
  Logouts = {q1}
  Saver = saver
  Acts = {"save", "logout", "overlap"}
  MaxVersion = 2
  InOrder = TRUE
  None = None
SPECIFICATION Spec
PROPERTY ComesOnlineOnce
SYMMETRY Symmetry
CHECK_DEADLOCK FALSE
