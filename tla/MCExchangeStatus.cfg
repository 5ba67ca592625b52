SPECIFICATION Spec
CONSTANTS
  RpiConn = {r1}
  ConsumerConn = {k1, k2}
  EarlyConn = {}
  RpiText <- MCStates
  ConsumerText <- MCStartCar
  MortalConn = {}
  MaxTexts = 1
  MaxRpiSucks = 1
  MaxConsumerSucks = 0
CHECK_DEADLOCK FALSE
SYMMETRY MCSymmetry
INVARIANTS CaughtUpMeansCurrent StatusInv
