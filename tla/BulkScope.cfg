SPECIFICATION Spec
CONSTANTS
  u1 = u1
  u2 = u2
  c1 = c1
  c2 = c2
  c3 = c3
  x = x
  y = y
  wild = wild
  AllowedKeys <- MCAllowedKeys
  NestedKeys = {"AND"}
  LongKeys = {}
  MaxScopeKeys = 10
  Wildcards = {wild}
  LongValues = {}
  Objects = {}
  Contents = {x}
  BadContents = {}
  BadId = BadId
  Null = Null
  Calls = {c1, c2}
  Users = {u1, u2}
  Tools = {"delete_all_memories"}
  ScopeArgs <- MCWildScopes
  Statuses = {429, 500}
  InitMems <- MCOneEach
  MaxMem = 4
  MaxFacts = 1
INVARIANTS BulkIsScoped
