SPECIFICATION Spec
CONSTANTS
  s1 = s1  s2 = s2  c1 = c1  c2 = c2
  Servers <- MCServers
  Clients <- MCClients
  Slots = 2
  PageSlots = 1
  MaxObjects = 2
  Faults <- MCAllFaults
SYMMETRY MCSymmetry
CHECK_DEADLOCK FALSE
INVARIANTS TypeOK OneServer OnlyEarlyCrash ServesSent
