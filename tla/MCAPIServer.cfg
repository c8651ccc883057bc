SPECIFICATION Spec
CONSTANTS
  Servers = {A, B}
  Providers <- MCProviders
  MaxCalls = 2
  Objects <- MCObjects
  NoType <- MCNoType
  NoServer = NoServer
  NilProvider <- MCNilProvider
  EtcdPaths = {}
  FlagFns = {}
  CommandFlags = {}
  MaxBuilds = 1
  MaxFlagFns = 0
  OptionsFns = {}
  ConfigFns = {}
  ServerFns = {}
  OpenAPI <- MCLogDefs
  BuiltIn <- MCNone
  MaxFns = 1
INVARIANTS
  RegTypeOK
  OrderedIsExternal
  APIsBacked
  RegistriesAgree
  RunTypeOK
PROPERTIES
  SingletonKept
  GroupInfosComplete
  ServesBuiltVersions
  RejectionExplained
SYMMETRY ServerSymmetry
CHECK_DEADLOCK FALSE
