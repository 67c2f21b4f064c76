SPECIFICATION Spec
CONSTANTS
  r1 = r1  r2 = r2  p1 = p1  p2 = p2  g1 = g1  g2 = g2  i1 = i1  i2 = i2  c1 = c1  c2 = c2
  None = None
  Repo <- MCRepos
  Place <- MCPlaces
  Clone <- MCClones
  RemoteOf <- MCRemote
  Item <- MCItems
  Caller <- MCCallers
  MaxDirs = 2
  MaxCalls = 4
  MaxMoves = 2
  MaxFaults = 1
  MaxCrashes = 1
INVARIANTS RegistryTypeOK  SetupNotStuck
PROPERTIES UnsavedKept
SYMMETRY MCSymmetry
CHECK_DEADLOCK FALSE
