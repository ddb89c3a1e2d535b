SPECIFICATION FairSpec
CONSTANTS
  c1 = c1  c2 = c2  c3 = c3 
  Null = Null
  Clients <- MCClients
  Faults <- MCAllFaults
CHECK_DEADLOCK FALSE
INVARIANTS TypeOK ListWellFormed RequestLive RemoveFinds EveryoneSignalled
PROPERTIES
  ImplementsClientRegistry
  RemoveCompletes
  StopOutsideEnds
