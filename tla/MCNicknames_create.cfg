\* Two users race for two nicknames, retry, fail and are cut off.  Three serials
\* let one of the nicknames be released; one thing goes wrong, at any point.
CONSTANTS
  Agents = {a1}
  Users = {u1, u2}
  Nicknames = {n1, n2}
  Sessions = {1, 2}
  MaxSerial = 3
  MaxRoles = 1
  MaxFaults = 1
  None = None
SPECIFICATION FairSpec
INVARIANTS TypeOK RolesAsAcquired NoRoidConflict OneRolePerNickname LimitKept
PROPERTY RetriesSucceed
CHECK_DEADLOCK FALSE
