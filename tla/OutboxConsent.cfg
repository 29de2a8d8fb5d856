SPECIFICATION Spec

CONSTANTS
  n1 = n1
  n2 = n2
  n3 = n3
  k1 = k1
  k2 = k2
  Notes <- MCNotes3
  Keys <- MCKeys
  KeyOf <- MCKeyOf
  MaxAttempts = 2
  BatchLimit = 2
  Failures = {"lost", "unclear", "limited", "permanent"}
  MaxCrashes = 1

INVARIANTS
  ConsentBeforeSend
PROPERTIES
  KeepsPromise
SYMMETRY MCSymmetry
