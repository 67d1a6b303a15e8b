SPECIFICATION BudgetSpec
CONSTANTS
  MonthLengths <- ShortMonths
  StepDays <- ShortSteps
  ReadyDaysBefore = 1
  MaxInstallments = 2
  MaxSteps = 3
  None = None
  MonthlikeDays = 4
  FirstDay = 11
  LastDay = 16
  Plans <- SomePlans
  Amounts = {3}
  MaxEntries = 1
  BackDays = 1
  OpenDays = 2
  DueDays = {2, 5}
  EditDays = {1, 7, 12}
  Digits = {0, 4, 5, 9}
  Exponents = {0, 2, 3}
  Rates <- SomeRates
  MaxWhole = 2
PROPERTY BillKeepsItsMonth
CHECK_DEADLOCK FALSE
