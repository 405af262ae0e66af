SPECIFICATION FairSpec
CONSTANTS
  c1 = c1  c2 = c2
  t1 = t1  t2 = t2
  d1 = d1  d2 = d2
  Cores = {c1}
  Handlers = {t1, t2}
  CoreOf <- OneCorePair
  Docs = {d1, d2}
  Requests <- OneCoreRequests
  NoRequest = NoRequest
  MaxSequence = 1
  MaxCalls = 3
  MaxStops = 1
INVARIANTS
  NoConflictOnOneCore
  LogIsChain
PROPERTIES
  EveryCallEnds
  ImplementsDurableWrites
CHECK_DEADLOCK FALSE
