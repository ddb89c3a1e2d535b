SPECIFICATION FairSpec
CONSTANTS
  slots = slots  daemon = daemon  response_limit = response_limit
  abc = abc  abcdef = abcdef
  Keys <- MCKeys
  Written = {5, 21}
  Strings <- MCStrings
  Wide <- MCWide
  MapSize = 2
  Hash <- MCHash
  IntBound = 8
  Defaulted <- MCDefaulted
  PerThread <- MCPerThread
  MaxEntries = 3
  Faults <- MCFaults
CHECK_DEADLOCK FALSE
INVARIANTS TypeOK OptionsAreBound FreesAll
PROPERTIES ImplementsDictionary FreeReturns
