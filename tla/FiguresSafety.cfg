SPECIFICATION Spec
CONSTANTS
  Lines <- MCLines
  Charges <- MCCharges
  Filed = {"credit"}
  Window = 2
  MonthDays = 3
  MaxRows = 4
  Movements <- MCMovements
  Lengths <- MCLengths
  Horizon = 5
  Span = 5
  Step = 50
  None = None
  MaxHistory = 6
INVARIANTS
  BillIsNotSpending PlanIsTotals TableIsStatements
  PaydayIsNext TwoForecastsAgree RisesAgree OneReview BudgetIsEnough DuplicatesLeaveOne
PROPERTIES
  ReloadKeepsMoney
