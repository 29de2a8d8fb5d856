SPECIFICATION Spec
CONSTANTS
  Cards = {k1, k2}
  DailyMax = 1
  MinN = 2
  BatchN = 1
  TTL = 1
  Cooldown = 1
  MaxDay = 2
  MaxFaults = 2
INVARIANTS DailyCap
PROPERTIES EarnedOffers TakenWithConsent Settles
CHECK_DEADLOCK FALSE
