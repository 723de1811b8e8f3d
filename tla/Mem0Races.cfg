SPECIFICATION Spec
CONSTANTS
  u1 = u1
  u2 = u2
  c1 = c1
  c2 = c2
  c3 = c3
  x = x
  y = y
  wild = wild
  AllowedKeys <- MCAllowedKeys
  NestedKeys = {"AND"}
  LongKeys = {}
  MaxScopeKeys = 10
  Wildcards = {wild}
  LongValues = {}
  Objects = {}
  Contents = {x}
  BadContents = {}
  BadId = BadId
  Null = Null
  Calls = {c1, c2, c3}
  Users = {u1, u2}
  Tools = {"delete_memory", "update_memory"}
  ScopeArgs <- MCNoScopes
  Statuses = {429}
  InitMems <- MCOneEachNoScope
  MaxMem = 2
  MaxFacts = 1
SYMMETRY MCCallSymmetry
INVARIANTS SuccessIsApplied NotFoundIsTrue FinalErrorMeansNoEffect
PROPERTIES TenantIsolation
