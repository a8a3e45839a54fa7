SPECIFICATION SuiteSpec
CONSTANTS
  Nothing = Nothing
  ErraticArgument <- MCErraticArgument
  MaxLines = 2
  MaxClock = 2
CHECK_DEADLOCK FALSE
INVARIANTS
  SuitePasses
  CreditedToItsCase
  ReportIsComplete
PROPERTIES
  RunEnds
