SPECIFICATION FairSpec

CONSTANTS
  c1 = c1
  c2 = c2
  t1 = t1
  t2 = t2
  t3 = t3
  Cards <- OneCard
  Threads <- MCThreads2
  Handled = {c1}
  Guarded = {}
  Ops <- BlockingOps
  InitInst <- FirstInst
  InitMinted = 1
  Persist = FALSE
  SaveMayFail = FALSE
  MaxInst = 2
  MaxCrashes = 0

INVARIANTS
  IInv
PROPERTIES
  KeepsContract
  AcceptedRuns
