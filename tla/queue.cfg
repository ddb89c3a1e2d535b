SPECIFICATION FairSpec
CONSTANTS
  c1 = c1  c2 = c2  c3 = c3  c4 = c4
  NoRequest = NoRequest
  Clients <- MCFour
  Slots = 2
  Faults <- MCAllFaults
CHECK_DEADLOCK FALSE
INVARIANTS TypeOK QueueInv NoOverrun ServedOnce
PROPERTIES
  ImplementsConnectionQueue
  EverySendReturns
  EverySentIsServed
  StopGetsMutex
