SPECIFICATION FairSpec
CONSTANTS
  Tab = {t1}
  Callback = {k1}
  HungConn = {}
  MaxLoads = 1
  MaxClicks = 1
  MaxQueue = 2
  MaxWire = 1
  MaxJoin = 1
PROPERTY SentArrives
