CONSTANTS
  Run = {r1}
  Timeout = 1
  Nobody = Nobody
  Ended = Ended
  Overlap = FALSE
  LateRelease = FALSE
  Overrun = TRUE
  N = 3
  Planned = {3}
  MaxRev = 2
  Quality <- QualityMixed
  SyncOnly = {}
  MaxFaults = 2
SPECIFICATION Spec
INVARIANTS TypeOK ProcessedRowsWhole RankingFollowsState
PROPERTIES PublishedViewIsState FailedSyncKeepsView
