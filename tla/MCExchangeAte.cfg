SPECIFICATION Spec
CONSTANTS
  RpiConn = {r1}
  ConsumerConn = {k1, k2}
  EarlyConn = {}
  RpiText <- MCOneState
  ConsumerText <- MCStartCar
  MortalConn = {k1, k2}
  MaxTexts = 1
  MaxRpiSucks = 0
  MaxConsumerSucks = 1
CHECK_DEADLOCK FALSE
PROPERTY EverybodyAte
