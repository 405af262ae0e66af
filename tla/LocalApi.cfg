CONSTANTS
  s1 = s1
  s2 = s2
  c1 = c1
  c2 = c2
  c3 = c3
  Servers = {s1, s2}
  Clients = {c1, c2, c3}
  Nobody = Nobody
  Kinds <- MCKinds
  Permits = 2
  Limit = 2
SPECIFICATION Spec
INVARIANTS
  TypeOK
  SocketReachesServer
  OutcomeIsKnown
PROPERTIES
  EveryConnectionEnds
  ShutdownEnds
