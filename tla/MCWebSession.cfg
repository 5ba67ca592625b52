SPECIFICATION FairSpec
CONSTANTS
  Tab = {t1}
  Callback = {k1, k2}
  HungConn = {2}
  MaxLoads = 2
  MaxClicks = 1
  MaxQueue = 1
  MaxWire = 1
  MaxJoin = 1
INVARIANTS TypeOK StartsAsked StaleOnlyIfJoined IndInv
PROPERTIES  StagedIsSent
