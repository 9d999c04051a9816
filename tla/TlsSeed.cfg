SPECIFICATION Spec
CONSTANTS
  MaxSeeds = 4
  MaxResets = 3
  MaxFaults = 2
INVARIANTS
  SeedNeverLost
PROPERTIES
  SeedNeverReused
