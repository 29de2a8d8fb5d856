SPECIFICATION FairSpec

CONSTANTS
  n1 = n1
  n2 = n2
  n3 = n3
  k1 = k1
  k2 = k2
  Notes <- MCNotes2
  Keys <- MCKeys
  KeyOf <- OwnKeys
  MaxAttempts = 3
  BatchLimit = 2
  Failures = {"lost"}
  MaxCrashes = 2

INVARIANTS
  ResendsCostACrash
  RowTellsEnd
  AttemptsBounded
PROPERTIES
  Settles
