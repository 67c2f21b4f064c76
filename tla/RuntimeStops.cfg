SPECIFICATION Spec
CONSTANTS
  primary = primary  manager = manager  stray = stray  g1 = g1  g2 = g2  g3 = g3
  None = None
  Mailbox <- MCStrayMailbox
  Handled <- MCStrayHandled
  Gor <- MCGor
  Tasks <- MCNoTasks
  Lanes <- MCBothLanes
  MaxTurns = 2
  BatchSize = 1
  MaxHops = 0
  WakeCap = 1
  MaxOutside = 2
  MaxEffects = 0
  MaxFails = 0
  MaxStops = 1
  MaxFaults = 1
INVARIANTS NoMessageSkipped BatchInv
PROPERTIES CursorsOnlyAdvance DeliverySpec
SYMMETRY MCGorSymmetry
