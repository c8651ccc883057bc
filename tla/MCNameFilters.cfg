SPECIFICATION Spec
CONSTANTS
  Fields = {"metadata.name", "metadata.namespace", "spec.other"}
  Operators = {"=", "!="}
  Strings = {"", "a", "b"}
  MaxRequirements = 2
INVARIANT NameFilters
CHECK_DEADLOCK FALSE
