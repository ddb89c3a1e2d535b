SPECIFICATION FairSpec
CONSTANTS
  c1 = c1  c2 = c2
  Clients <- MCOne
  MaxCommands = 1
  Pids <- MCPids
  Faults <- MCInterrupt
PROPERTY InterruptEnds
CHECK_DEADLOCK FALSE
