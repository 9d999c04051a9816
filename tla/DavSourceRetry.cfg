SPECIFICATION Spec
CONSTANTS
  MaxSize = 3
  MaxRead = 2
  MaxRetries = 3
INVARIANT
  RetriesReachServer
