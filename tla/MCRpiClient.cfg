SPECIFICATION FairSpec
CONSTANTS
  ServiceTime = 4
  PingTime = 2
  PressTime = 2
  CarUpTime = 6
  HangUpTime = 1
  OffTime = 1
  ModemBootTime = 4
  DialTime = 3
  BootTime = 6
  KeepAlive = 4
  MaxAge = 8
  MaxUnread = 2
INVARIANTS TypeOK ButtonTimed PowerCutOffline PressBounded IndInv
PROPERTIES PressHeld SilentBeforeConnect BackInService PressEnds
