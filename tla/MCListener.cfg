SPECIFICATION FairSpec
CONSTANTS
  Client = {c1, c2, c3}
  NoClient = none
  Backlog = 1
  MaxUnread = 1
CHECK_DEADLOCK FALSE
INVARIANTS TypeOK ServedAfterEOF IndInv
PROPERTY WaitersServed
