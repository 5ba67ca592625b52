SPECIFICATION Spec
CONSTANTS
  RpiConn = {r1, r2}
  ConsumerConn = {k1}
  EarlyConn = {}
  RpiText <- MCOneState
  ConsumerText <- MCStartCar
  MortalConn = {}
  MaxTexts = 1
  MaxRpiSucks = 1
  MaxConsumerSucks = 0
CHECK_DEADLOCK FALSE
SYMMETRY MCSymmetry
INVARIANTS TypeOK CommandToOneConnection
