CONSTANTS
  Run = {r1, r2}
  Timeout = 2
  Nobody = Nobody
  Ended = Ended
  Overlap = FALSE
  LateRelease = FALSE
  Overrun = FALSE
  N = 2
  Planned = {}
  MaxRev = 2
  Quality <- QualityDoubtful
  SyncOnly = {r2}
  MaxFaults = 1
SPECIFICATION FairSpec
INVARIANTS Exclusion
PROPERTIES ImplementsLease EventuallyPublished
