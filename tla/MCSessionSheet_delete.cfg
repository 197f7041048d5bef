CONSTANTS
  NoKey = NoKey
  Session = {1, 2}
  Participant <- TwoParticipants
  Value = {v1}
  None = None
  MaxAttempts = 3
  LostAnswers = {"delete"}
  MaxFaults = 1
  MaxChanges = 3
SPECIFICATION Spec
PROPERTIES OtherSessionsUntouched
