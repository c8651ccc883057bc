SPECIFICATION Spec
CONSTANTS
  Writers = {w1, w2}
  Types <- MCTypes
  WithMeta <- MCWithMeta
  Methods <- MCMethods
  NoMethod = NoMethod
  Unset = Unset
  First = First
  MaxInt = 1
  Start = 0
  MaxWrites = 3
INVARIANTS
  TypeOK
  VersionsIdentify
  RejectedUntouched
  CopyPanicExplained
PROPERTY WritesAreSerial
SYMMETRY WriterSymmetry
CHECK_DEADLOCK FALSE
