SPECIFICATION Spec

CONSTANTS
  c1 = c1
  c2 = c2
  t1 = t1
  t2 = t2
  t3 = t3
  Cards <- MCCards
  Threads <- OneThread
  Handled = {c1}
  Guarded = {c2}
  Ops <- NonBlockingOps
  InitInst <- NoInst
  InitMinted = 0
  Persist = TRUE
  SaveMayFail = TRUE
  MaxInst = 3
  MaxCrashes = 0

INVARIANTS
  AtMostOnce
  RanNeverBlocking
  NothingEaten
