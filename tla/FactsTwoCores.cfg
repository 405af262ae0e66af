SPECIFICATION HistorySpec
CONSTANTS
  t1 = t1  t2 = t2  k1 = k1  k2 = k2  c1 = c1  c2 = c2  u1 = u1  s1 = s1  s2 = s2
  Handlers = {t1, t2}
  CoreOf <- TwoCore
  Claims = {k1, k2}
  Subjects = {u1}
  Schemas = {s1}
  Multiple = {}
  Allows <- NoDispute
  Enabled = {s1}
  Shape <- Located
  MaxDepth = 2
  MaxNodes = 3
  MaxProperties = 2
  MaxItems = 2
  MaxLength = 2
  MaxEnum = 2
  Requests <- TwoClaims
  Hashes = {1, 2, 3}
  Times = {0, 1}
  MaxMutations = 1
  Limit = 1
INVARIANTS
  ProjectionConsistent
  RevisionsAreChain
  OneActiveClaim
  ReadingIsComplete
PROPERTY ImplementsGovernedClaims
SYMMETRY CoreSymmetry
CHECK_DEADLOCK FALSE
