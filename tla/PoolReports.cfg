SPECIFICATION FairSpec
CONSTANTS
  item = item  child = child  e1 = e1  e2 = e2  c1 = c1  w1 = w1  w2 = w2
  None = None
  Item <- MCOneItem
  Exec <- MCTwoExecs
  ItemOf <- MCSharedTwo
  Canceller <- MCOneCall
  Trees <- MCOneTree
  Word <- MCNone
  MaxWorkers = 2
  MaxStops = 0
  MaxCrashes = 0
  MaxFaults = 0
INVARIANTS OneWriter
PROPERTIES EveryExecutionReported
