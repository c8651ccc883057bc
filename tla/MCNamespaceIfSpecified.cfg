SPECIFICATION Spec
CONSTANTS
  Fields = {"metadata.name", "metadata.namespace", "spec.other"}
  Operators = {"=", "!="}
  Strings = {"", "a", "b"}
  MaxRequirements = 2
INVARIANT NamespaceIfSpecified
CHECK_DEADLOCK FALSE
