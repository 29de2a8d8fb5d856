SPECIFICATION Spec

CONSTANTS
  c1 = c1
  c2 = c2
  t1 = t1
  t2 = t2
  t3 = t3
  Cards <- MCCards
  Threads <- MCThreads3
  Handled = {c1, c2}
  Guarded = {}
  Ops <- FinalOps
  InitInst <- BothInst
  InitMinted = 2
  Persist = TRUE
  SaveMayFail = FALSE
  MaxInst = 2
  MaxCrashes = 2

SYMMETRY ThreadPerms

INVARIANTS
  AtMostOnce
  FileCurrent
