SPECIFICATION Spec
CONSTANTS
  Fields = {"metadata.name", "metadata.namespace", "spec.other"}
  Operators = {"=", "!="}
  Strings = {"", "a", "b"}
  MaxRequirements = 2
INVARIANTS
  TypeOK
  NoMatchDropped
  NamespaceConfined
  RejectedExactly
  NilFilterExactly
CHECK_DEADLOCK FALSE
