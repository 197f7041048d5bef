CONSTANTS
  NoKey = NoKey
  Participant <- ThreeParticipants
  Score = {1, 2}
  MaxAttempts = 2
  LostAnswers = {"update", "move"}
  MaxFaults = 2
  MaxChanges = 4
  MaxBlanks = 1
SPECIFICATION FairSpec
INVARIANTS CleanRunsVerify NoDuplicates
PROPERTIES Converges
