SPECIFICATION Spec
CONSTANTS
  Cells <- MCCells
  MaxCells = 3
  Width = 3
  Spans = {1, 2, 3}
  MaxRows = 3
  Strings <- MCStrings
  MaxTokens = 9
  BankKey <- MCBankKey
  CardKeys <- MCCardKeys
  Merchant = {"merchant"}
  Headings <- MCHeadings
  Charges <- MCCharges
  Layouts <- MCLayouts
  Days = {1, 2, 3}
  Amounts <- MCAmounts
  HeadRows = 2
  None = None
  MaxSheets = 2
  MaxBook = 4
  MaxLedger = 4
INVARIANTS
  CsvKeepsCells TableKeepsColumns StringsSurvive
  ClosingBalanceFirst CorrectionsFindMisreadings
CHECK_DEADLOCK FALSE
