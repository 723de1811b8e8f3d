SPECIFICATION FairSpec
CONSTANTS
  r1 = r1
  r2 = r2
  r3 = r3
  t1 = t1
  t2 = t2
  u1 = u1
  u2 = u2
  Blank = Blank
  Unset = Unset
  DefaultUser = DefaultUser
  Requests = {r1, r2, r3}
  Tokens = {t1, t2}
  Users = {u1, u2}
  BackendNames = {"mem0", "in_memory", "redis"}
  Settings <- MCSettings
INVARIANTS TypeOK ToolsRunAsTokenOwner FailClosed
PROPERTIES ShutdownEnds
