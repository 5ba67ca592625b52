SPECIFICATION Spec
CONSTANTS
  Message = {m1}
  ClientID <- MCClientID
  MaxClients = 2
  MaxMessages = 3
INVARIANTS TypeOK RpiMessageKept IndInv
PROPERTY DeliverySpec
