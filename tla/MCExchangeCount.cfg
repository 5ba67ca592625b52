SPECIFICATION Spec
CONSTANTS
  RpiConn = {r1}
  ConsumerConn = {}
  EarlyConn = {}
  RpiText <- MCOneState
  ConsumerText <- MCStartCar
  MortalConn = {r1}
  MaxTexts = 1
  MaxRpiSucks = 2
  MaxConsumerSucks = 0
CHECK_DEADLOCK FALSE
INVARIANT CountsMatch
