SPECIFICATION FairSpec

CONSTANTS
  goal = goal
  Pursuits <- MCPursuits
  Threads = {"handler"}
  Loop = "loop"
  MaxAdvances = 2
  MaxFailures = 2
  MaxHuman = 2
  MaxFaults = 1

INVARIANTS
  BudgetHolds
  FileTellsStatus
  
PROPERTIES
  AsksOrEnds
