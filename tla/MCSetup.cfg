SPECIFICATION Spec
CONSTANTS
  Specs <- MCSpecs
  Longer <- MCLonger
  Legacy <- MCLegacy
  MaxSetups = 4
  MaxRuns = 2
  MaxFaults = 3
INVARIANTS
  ProcessedSessionsKept
  RunSeesItsSessions
  SameSpecAccepted
PROPERTIES
  OneWorkbook
CHECK_DEADLOCK FALSE
