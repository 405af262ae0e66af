SPECIFICATION Spec
CONSTANTS
  t1 = t1  t2 = t2  c1 = c1  c2 = c2  a1 = a1  p = p  x = x  y = y
  Handlers = {t1, t2}
  CoreOf <- TwoCore
  Apps = {a1}
  Ids = {p, x, y}
  MaxRecords = 2
  MaxLag = 1
  MaxSpan = 3
  MaxInterval = 2
  MaxCount = 2
  Requests <- PlanningRequests
SYMMETRY CoreSymmetry
INVARIANTS
  DependenciesAcyclic
  TablesReplayLog
PROPERTY ImplementsPlanningCommunity
CHECK_DEADLOCK FALSE
