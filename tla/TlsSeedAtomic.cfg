SPECIFICATION Spec
CONSTANTS
  MaxSeeds = 2
  MaxResets = 1
  MaxFaults = 0
INVARIANTS
  SeedAtomic
