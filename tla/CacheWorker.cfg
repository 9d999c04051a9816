SPECIFICATION FairSpec
CONSTANTS
  MaxCaches = 2
  MaxFiles = 2
  Background = {"list", "thumb"}
INVARIANTS NoUseAfterFree PlayingIsServed GateHasFiller
PROPERTIES CloseReturns PauseReturns
