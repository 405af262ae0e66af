SPECIFICATION Spec
CONSTANTS
  t1 = t1  t2 = t2  k1 = k1  k2 = k2  c1 = c1  c2 = c2  u1 = u1  s1 = s1  s2 = s2
  Handlers = {t1}
  CoreOf <- OneCore
  Claims = {k1}
  Subjects = {u1}
  Schemas = {s1}
  Multiple = {}
  Allows <- AllowAll
  Enabled = {s1}
  Shape <- Located
  MaxDepth = 2
  MaxNodes = 3
  MaxProperties = 2
  MaxItems = 2
  MaxLength = 2
  MaxEnum = 2
  Requests <- Once
  Hashes = {1, 2, 3}
  Times = {0, 1}
  MaxMutations = 1
INVARIANT DocumentTellsClaim
CHECK_DEADLOCK FALSE
