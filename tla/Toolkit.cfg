SPECIFICATION Spec
CONSTANTS
  t1 = t1  t2 = t2  yes = yes  no = no  tool = tool
  Handlers = {t1, t2}
  Definitions <- Vocabulary
  Values = {yes, no}
  Yes = yes
  Requests <- ToolkitRequests
  Elsewhere <- OtherRequests
SYMMETRY HandlerSymmetry
INVARIANTS
  OneVerifiedValue
  ExactMatchesAreAttested
  EffectiveIsAggregate
  VocabularyResolves
PROPERTY ImplementsToolkitLedger
CHECK_DEADLOCK FALSE
