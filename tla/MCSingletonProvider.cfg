SPECIFICATION Spec
CONSTANTS
  Procs = {g1, g2, g3}
  NoProc = NoProc
  Storages = {s1, s2}
  NilStorage = NilStorage
INVARIANTS
  TypeOK
  AtMostOneCall
  AnswersAreTheOutcome
PROPERTIES
  FieldsFrozen
  GetReturns
  ImplementsSharedInit
CHECK_DEADLOCK FALSE
CONSTANTS
  Raised = Raised
  NoAnswer = NoAnswer
