SPECIFICATION Spec
CONSTANTS
  item = item  child = child  e1 = e1  e2 = e2  c1 = c1  w1 = w1  w2 = w2
  None = None
  Item <- MCItems
  Exec <- MCOneExec
  ItemOf <- MCChildOne
  Canceller <- MCOneCall
  Trees <- MCTrees
  Word <- MCTwoWords
  MaxWorkers = 2
  MaxStops = 1
  MaxCrashes = 1
  MaxFaults = 1
INVARIANTS AmendmentsReachAgent CancelReachesRun NoOrphanRow LateWordsRide
