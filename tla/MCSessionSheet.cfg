CONSTANTS
  NoKey = NoKey
  Session = {1, 2}
  Participant <- TwoParticipants
  Value = {v1, v2}
  None = None
  MaxAttempts = 2
  LostAnswers = {"update"}
  MaxFaults = 2
  MaxChanges = 3
SPECIFICATION FairSpec
INVARIANTS NoDuplicates
PROPERTIES OtherSessionsUntouched SuccessIsComplete ImplementsTable Converges
