SPECIFICATION Spec
CONSTANTS
  Servers = {A}
  Providers <- MCBad
  MaxCalls = 1
  Objects <- MCOne
  NoType <- MCNoType
  NoServer = NoServer
  NilProvider <- MCNilProvider
  EtcdPaths = {}
  FlagFns = {}
  CommandFlags = {}
  MaxBuilds = 1
  MaxFlagFns = 0
  OptionsFns <- MCOptionsFns
  ConfigFns <- MCConfigFns
  ServerFns <- MCServerFns
  OpenAPI <- MCOpenAPI
  BuiltIn <- MCBuiltIn
  MaxFns = 2
PROPERTY OptionsCustomized
CHECK_DEADLOCK FALSE
