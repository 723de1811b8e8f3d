SPECIFICATION Spec
CONSTANTS
  u1 = u1
  u2 = u2
  c1 = c1
  c2 = c2
  blank = blank
  m0 = m0
  m1 = m1
  a1 = a1
  wild = wild
  junk = junk
  object = object
  q1 = q1
  AllowedKeys <- MCAllowedKeys
  NestedKeys <- MCNestedKeys
  LongKeys = {}
  MaxScopeKeys = 10
  Wildcards = {wild}
  LongValues = {}
  Objects = {object}
  Contents = {c1, c2}
  BadContents = {}
  BadId = BadId
  Null = Null
  Users = {u1, u2}
  ScopeArgs <- MCTwoScopes
  Metas = {m0}
  NoMeta = m0
  Times = {1, 2}
  Queries = {}
  Score <- MCScore
  Thresholds = {0}
  Limits = {4}
  Cursors = {0}
  JunkCursor = junk
  MaxLimit = 3
  MaxExport = 2
  MaxIds = 2
  MaxHistory = 3
SYMMETRY MCUserSymmetry
VIEW StoreView
INVARIANTS TypeOK HistoryMatchesStore
PROPERTIES TenantIsolation ImplementsTenantStore
