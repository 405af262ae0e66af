SPECIFICATION FairSpec
CONSTANTS
  t1 = t1  t2 = t2  t3 = t3  profile = profile  a = a  c = c
  l1 = l1  l2 = l2  l3 = l3  l4 = l4
  Handlers = {t1, t2, t3}
  Keys = {profile, a, c}
  Plans <- OneOrTwo
  Locks = {l1, l2, l3, l4}
  Cap = 2
INVARIANTS OneHolderPerKey
PROPERTIES GrowsOnlyInUse EveryHandlerEnds
