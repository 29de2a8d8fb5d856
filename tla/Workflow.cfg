SPECIFICATION Spec

CONSTANTS
  review = review
  notes = notes
  ship = ship
  fix = fix
  announce = announce
  one = one
  two = two
  Steps <- MCSteps
  DependsOn <- MCDependsOn
  Inputs <- MCInputs
  When <- MCWhen
  OnFail <- MCOnFail
  MaxRetries = 1
  MaxParallel = 2
  Execs <- MCExecs
  MaxFaults = 1

SYMMETRY MCSymmetry

CHECK_DEADLOCK FALSE

INVARIANTS
  Stoppable
  BranchesTaken
PROPERTIES
  StopIsFinal
  PaidOnce
