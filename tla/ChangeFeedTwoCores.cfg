SPECIFICATION FeedSpec
CONSTANTS
  c1 = c1  c2 = c2
  t1 = t1  t2 = t2
  d1 = d1  d2 = d2  d3 = d3
  Cores = {c1, c2}
  Handlers = {t1, t2}
  CoreOf <- TwoCore
  Docs = {d1, d2, d3}
  Requests <- ThreeDocuments
  NoRequest = NoRequest
  MaxSequence = 1
  MaxCalls = 3
  MaxStops = 1
  Scope = {d1, d2, d3}
  Rank <- Ascending
  Limit = 1
INVARIANTS
  LogIsChain
  OneOperationPerKey
  AnswersAreDurable
  ShowsItsHistory
  ListingIsComplete
PROPERTIES
  FeedTellsAll
SYMMETRY CorePairs
CHECK_DEADLOCK FALSE
