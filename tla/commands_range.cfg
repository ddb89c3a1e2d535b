SPECIFICATION Spec
CONSTANTS
  a = a  b = b
  Procs = {1, 2}
  Names = {a, b}
  Contents <- MCContents
  MaxLength = 4
  Requests <- MCRequests
  Faults <- MCFaults
CHECK_DEADLOCK FALSE
INVARIANT RangeCopied
