CONSTANTS
  Run = {r1, r2, r3}
  Timeout = 2
  Nobody = Nobody
  Ended = Ended
  Overlap = TRUE
  LateRelease = TRUE
  Overrun = TRUE
SPECIFICATION FairLeaseSpec
INVARIANTS LeaseTypeOK NoRenewal
PROPERTIES LateRunsNeverVerify NeverLockedOut
