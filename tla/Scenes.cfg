SPECIFICATION Spec

CONSTANTS
  s1 = s1
  s2 = s2
  failed = failed
  Signals <- MCSignals
  Kinds <- MCKinds
  KindOf <- MCKindOf
  Ticks = {"maintenance", "drive"}
  Nobody = Nobody
  Budget = 1
  StagingMax = 1
  GateMax = 1
  Cooldown = 1
  MaxDay = 1
  MaxRejects = 1
  MaxCrashes = 1

INVARIANTS
  GateHolds
  OneRun
  ProductKept
PROPERTIES
  NoResidue
