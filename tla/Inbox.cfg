SPECIFICATION PipeFairSpec

CONSTANTS
  m1 = m1
  m2 = m2
  m3 = m3
  Mails <- MCMails
  ThreadOf <- MCThreadOf
  MaxCards = 1
  BacklogCap = 1
  SeenCap = 2
  MaxCopies = 1
  MaxFaults = 2

INVARIANTS
  AskedOnce
  BacklogSurvives
PROPERTIES
  EveryMailJudged
