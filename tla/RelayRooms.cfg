SPECIFICATION FairSpec

CONSTANTS
  c1 = c1
  c2 = c2
  c3 = c3
  k1 = k1
  k2 = k2
  r1 = r1
  r2 = r2
  Consoles <- MCConsoles
  Clients <- MCClients
  Rids <- MCRids
  RidOf <- MCRidOf
  MaxRooms = 1

INVARIANTS
  NoLeakedRoom
  OneClient
  NoGhost
PROPERTIES
  NotStranded
