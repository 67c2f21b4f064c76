SPECIFICATION Spec
CONSTANTS
  primary = primary  manager = manager  stray = stray  g1 = g1  g2 = g2  g3 = g3
  None = None
  Mailbox <- MCThreeMailbox
  Handled <- MCThreeMailbox
  Gor <- MCThreeGor
  Tasks <- MCTasks
  Lanes <- MCOneLane
  MaxTurns = 2
  BatchSize = 2
  MaxHops = 0
  WakeCap = 1
  MaxOutside = 3
  MaxEffects = 0
  MaxFails = 0
  MaxStops = 0
  MaxFaults = 0
INVARIANTS TypeOK OneTurnPerMailbox TurnsWithinLimit NoMessageRepeated NoLostWakeup
SYMMETRY MCSymmetry
