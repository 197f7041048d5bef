SPECIFICATION Spec
CONSTANTS
  Person <- MCPerson
  Late <- MCLate
  N = 6
  Start = 5
  Speakers <- MCSpeakers
  Untracked <- MCUntracked
  MaxNotes = 1
  MaxLeaves = 1
  MaxJobs = 4
  MaxFaults = 1
INVARIANTS
  NotesStayWithPeople
  NeverReportedTwice
  SpeakingNeverHurts
  SinceMarksTheChange
  ReplacedSheetShowsView
CHECK_DEADLOCK FALSE
