SPECIFICATION FairSpec
CONSTANTS
  Leases = {l1, l2}
  MaxWorkers = 2
  MaxForgets = 1
INVARIANTS WorkerIsTheHandle AnnouncedIsComplete StragglersAreKnown
PROPERTIES BootGateReturns CancelReturns
