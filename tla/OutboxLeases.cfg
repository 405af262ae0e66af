SPECIFICATION FairSpec
CONSTANTS
  w1 = w1  w2 = w2  w3 = w3  t1 = t1  t2 = t2
  o1 = o1  o2 = o2
  Operations = {o1, o2}
  Transports = {t1, t2}
  Workers = {w1, w2, w3}
  TransportOf <- TwoTransports
  Size <- BigFirst
  Statuses = {"APPLIED", "REJECTED"}
  LeaseTime = 1
  MaxLimit = 2
  Limits = {2}
  Budgets = {2}
  MaxAttempts = 2
  MaxSetbacks = 1
INVARIANTS OneHolderPerLease AcksAreFinal RepliesAreOldestRuns
PROPERTY EveryOperationSettles
CHECK_DEADLOCK FALSE
