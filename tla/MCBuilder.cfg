SPECIFICATION BuildSpec
CONSTANTS
  Servers = {A, B}
  Providers = {p}
  MaxCalls = 2
  Objects <- MCObjects
  NoType <- MCNoType
  NoServer = NoServer
  EtcdPaths = {"/registry"}
  FlagFns <- MCFlagFns
  CommandFlags = {}
  MaxBuilds = 2
  MaxFlagFns = 2
INVARIANTS
  BuildTypeOK
  SchemeIsDocumented
  CommandVersionsPrioritised
  PanicExplained
PROPERTIES
  OthersKept
SYMMETRY ServerSymmetry
CHECK_DEADLOCK FALSE
