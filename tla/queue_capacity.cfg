SPECIFICATION Spec
CONSTANTS
  c1 = c1  c2 = c2  c3 = c3  c4 = c4
  NoRequest = NoRequest
  Clients <- MCThree
  Slots = 2
  Faults <- MCNoFault
CHECK_DEADLOCK FALSE
INVARIANT CapacityKept
