SPECIFICATION Spec
CONSTANTS
  Path = {a, b}
  Text <- MCText
  Parsable <- MCParsable
  Valid <- MCValid
  None = None
  First = a
  Start <- MCStart
  Unreadable = Unreadable
  MaxChanges = 3
  MaxChecks = 3
CHECK_DEADLOCK FALSE
INVARIANTS
  SpansFollowTheText
  LensesAreOfTheVersion
PROPERTIES
  ImplementsLastGood
