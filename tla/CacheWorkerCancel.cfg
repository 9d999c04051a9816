SPECIFICATION Spec
CONSTANTS
  MaxCaches = 1
  MaxFiles = 1
  Background = {}
INVARIANT StopCancelsRequest
