SPECIFICATION Spec
CONSTANTS
  Tab = {t1}
  Callback = {k1}
  HungConn = {}
  MaxLoads = 1
  MaxClicks = 0
  MaxQueue = 2
  MaxWire = 2
  MaxJoin = 2
INVARIANT PageCurrent
