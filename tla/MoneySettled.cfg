SPECIFICATION MoneySpec
CONSTANTS
  Lines <- MCLines
  Charges <- MCCharges
  Filed = {"credit"}
  Window = 2
  MonthDays = 3
  MaxRows = 4
INVARIANTS SettledIsItemised
