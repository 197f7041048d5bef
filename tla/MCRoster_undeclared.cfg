CONSTANTS
  Person = {1, 2}
  NamesOf <- Names
  EmailsOf <- Emails
  IdOf <- Ids
  None = None
  Earlier <- EmptyOrOne
  AppendTimes = {1}
  MaxChanges = 3
  MaxFaults = 1
SPECIFICATION Spec
PROPERTY UndeclaredFieldsKept
