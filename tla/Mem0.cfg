SPECIFICATION Spec
CONSTANTS
  u1 = u1
  u2 = u2
  c1 = c1
  c2 = c2
  c3 = c3
  x = x
  y = y
  wild = wild
  AllowedKeys <- MCAllowedKeys
  NestedKeys = {"AND"}
  LongKeys = {}
  MaxScopeKeys = 10
  Wildcards = {wild}
  LongValues = {}
  Objects = {}
  Contents = {x, y}
  BadContents = {}
  BadId = BadId
  Null = Null
  Calls = {c1, c2}
  Users = {u1, u2}
  Tools = {"add_memory", "search_memory", "delete_memory", "delete_all_memories", "get_memory", "update_memory", "list_memories", "export_memories", "memory_history", "memory_entities"}
  ScopeArgs <- MCAllScopes
  Statuses = {429, 500}
  InitMems <- MCOneEach
  MaxMem = 4
  MaxFacts = 2
SYMMETRY MCCallSymmetry
INVARIANTS TypeOK IsolationInv NoLeak SuccessIsApplied NotFoundIsTrue FinalErrorMeansNoEffect AnswersInv
PROPERTIES TenantIsolation ImplementsTenantStore
