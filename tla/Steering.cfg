SPECIFICATION Spec
CONSTANTS
  w1 = w1  w2 = w2  p = p
  Word <- MCWords
  Prompt = p
  Within <- MCWithin
  MaxStops = 1
INVARIANTS RunsTypeOK UnguardedFails
PROPERTIES  RunEnds
CHECK_DEADLOCK FALSE
