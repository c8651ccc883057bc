SPECIFICATION Spec
CONSTANTS
  Servers = {A}
  Providers <- MCProviders
  MaxCalls = 2
  Objects <- MCObjects
  NoType <- MCNoType
  NoServer = NoServer
  NilProvider <- MCNilProvider
  EtcdPaths = {}
  FlagFns = {}
  CommandFlags = {}
  MaxBuilds = 1
  MaxFlagFns = 0
  OptionsFns = {}
  ConfigFns = {}
  ServerFns = {}
  OpenAPI = {}
  BuiltIn <- MCNone
  MaxFns = 0
INVARIANT VersionsShareStorage
CHECK_DEADLOCK FALSE
