CONSTANTS
  a = a
  b = b
  c = c
  p1 = p1
  p2 = p2
  Dirs = {a, b, c}
  Home = a
  Procs = {p1, p2}
  Devices <- MCDevices
  Commands <- MCCommands
  MaxRuns = 4
  MaxLength = 1
  MaxMishaps = 1
SPECIFICATION Spec
SYMMETRY Interchangeable
INVARIANTS
  TypeOK
  ServedIsWhole
  KeysOutliveDatabase
  FinishedBackupSurvives
  RegisteredTokenIsDurable
CHECK_DEADLOCK FALSE
