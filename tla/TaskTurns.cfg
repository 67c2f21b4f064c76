SPECIFICATION Spec
CONSTANTS
  top = top  part = part  other = other  spare = spare  m1 = m1  m2 = m2  c1 = c1  c2 = c2
  None = None  Primary = Primary
  Item <- MCThree
  Tree <- MCOnePart
  Message <- MCOneMessage
  Caller <- MCOneCall
  Kinds <- MCAllKinds
  MaxHops = 2
  MaxRuns = 1
  MaxWork = 4
  MaxCalls = 3
  MaxFaults = 1
INVARIANTS TurnsTypeOK MovedOnce SettledIsHeard HeardOnce ResultBeforeSettled  
CHECK_DEADLOCK FALSE
