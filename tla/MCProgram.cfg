CONSTANTS
  N = 3
  Minimum = 2
  Exhaustive = FALSE
  Session = {1, 2, 3}
  Name <- SomeNames
  Lettered <- WithLetters
  Loose <- NoAccents
  External <- Outsiders
  NoMail = 0
  Participant <- Ids
  Modes = {"auto", "import", "official"}
  Roster <- SmallRoster
  Bounds <- SomeBounds
  Versions <- Group
  Attendance <- Tables
  AppendTimes = {1}
  MaxFaults = 2
  MaxChanges = 1
SPECIFICATION Spec
INVARIANTS TypeOK OneParticipantPerName PointsFollowEvidence RankingFollowsEvidence RanksCountTheBetter AlertsAreExact AttendanceCountsPairs
