SPECIFICATION Spec
CONSTANTS
  c1 = c1  c2 = c2
  t1 = t1  t2 = t2
  d1 = d1  d2 = d2
  Cores = {c1}
  Handlers = {t1, t2}
  CoreOf <- OneCorePair
  Docs = {d1, d2}
  Requests <- ReuseRequests
  NoRequest = NoRequest
  MaxSequence = 3
  MaxCalls = 2
  MaxStops = 0
INVARIANT ReusedKeyIsReported
CHECK_DEADLOCK FALSE
