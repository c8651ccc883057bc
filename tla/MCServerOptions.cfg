SPECIFICATION Spec
CONSTANTS
  Servers = {A, B}
  Providers <- MCBad
  MaxCalls = 1
  Objects <- MCOne
  NoType <- MCNoType
  NoServer = NoServer
  NilProvider <- MCNilProvider
  EtcdPaths = {}
  FlagFns <- MCFlagFns
  CommandFlags <- MCCommandFlags
  MaxBuilds = 1
  MaxFlagFns = 1
  OptionsFns <- MCOptionsFns
  ConfigFns <- MCConfigFns
  ServerFns <- MCServerFns
  OpenAPI <- MCOpenAPI
  BuiltIn <- MCBuiltIn
  MaxFns = 2
INVARIANT StartPanicExplained
PROPERTIES
  FnsInEffect
  OpenAPIResolves
SYMMETRY ServerSymmetry
CHECK_DEADLOCK FALSE
