SPECIFICATION FairSpec
CONSTANTS
  primary = primary  manager = manager  stray = stray  g1 = g1  g2 = g2  g3 = g3
  None = None
  Mailbox <- MCMailbox
  Handled <- MCHandled
  Gor <- MCOneGor
  Tasks <- MCNoTasks
  Lanes <- MCOneLane
  MaxTurns = 1
  BatchSize = 2
  MaxHops = 1
  WakeCap = 1
  MaxOutside = 1
  MaxEffects = 1
  MaxFails = 1
  MaxStops = 0
  MaxFaults = 0
INVARIANTS HopsWithinBudget
PROPERTIES EveryMessageHandled ComesToRest
