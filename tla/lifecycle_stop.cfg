SPECIFICATION FairSpec
CONSTANTS
  s1 = s1  s2 = s2  c1 = c1  c2 = c2
  Servers <- MCOneServer
  Clients <- MCClients
  Slots = 2
  PageSlots = 1
  MaxObjects = 1
  Faults <- MCStop
CHECK_DEADLOCK FALSE
PROPERTY StopFrees
