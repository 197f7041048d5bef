CONSTANTS
  Run = {r1, r2, r3}
  Timeout = 2
  Nobody = Nobody
  Ended = Ended
  Overlap = TRUE
  LateRelease = FALSE
  Overrun = FALSE
SPECIFICATION LeaseSpec
INVARIANT ActiveExclusion
SYMMETRY RunSymmetry
