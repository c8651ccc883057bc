SPECIFICATION Spec
CONSTANTS
  Procs = {g1, g2, g3}
  NoProc = NoProc
  Words = {"itab", "data"}
  Args = {c1, c2}
  Nil = Nil
INVARIANTS
  TypeOK
  SetOnce
  SettersGetIt
  NeverMixed
PROPERTY SetReturns
CHECK_DEADLOCK FALSE
