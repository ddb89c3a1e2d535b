SPECIFICATION FairSpec
CONSTANTS
  c1 = c1  c2 = c2
  Clients <- MCOne
  MaxCommands = 2
  Pids <- MCPids
  Faults <- MCAllFaults
CHECK_DEADLOCK FALSE
INVARIANTS TypeOK AnswersCurrent ChildrenAwaited
PROPERTIES
  ImplementsRemoteCall
  SuccessIsDelivery
  SendReturns
  CommandReturns
  InterruptReturns
  SentIsExecuted
  ThreadsProgress
