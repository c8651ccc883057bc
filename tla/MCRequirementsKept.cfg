SPECIFICATION Spec
CONSTANTS
  Fields = {"metadata.name", "metadata.namespace", "spec.other"}
  Operators = {"=", "!="}
  Strings = {"", "a", "b"}
  MaxRequirements = 2
INVARIANT RequirementsKept
CHECK_DEADLOCK FALSE
