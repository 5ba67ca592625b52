SPECIFICATION FairSpec
CONSTANTS
  RpiConn = {r1}
  ConsumerConn = {k1}
  EarlyConn = {k1}
  MortalConn = {k1}
  RpiText <- MCOneState
  ConsumerText <- MCCommands
  MaxTexts = 1
  MaxRpiSucks = 0
  MaxConsumerSucks = 2
CHECK_DEADLOCK FALSE
INVARIANTS NoGhostRows NeverOvercounted UndercountBounded IndInv StatusInv
PROPERTIES DeadPeerReaped CommandHandedOut
