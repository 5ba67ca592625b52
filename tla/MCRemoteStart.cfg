SPECIFICATION FairSpec
CONSTANTS
  MaxConn = 2
  MaxCommands = 2
  MaxRemovals = 1
CHECK_DEADLOCK FALSE
INVARIANTS NoneVanishes IndInv
PROPERTIES DeliveredToCar EveryCommandEnds StartPresses CommandsForgotten
