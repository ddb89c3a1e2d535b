SPECIFICATION Spec
CONSTANTS
  c1 = c1
  c2 = c2
  Clients <- MCTwo
  MaxCommands = 1
  Pids <- MCPids
  Faults <- MCNoFault
PROPERTY SuccessIsDelivery
CHECK_DEADLOCK FALSE
