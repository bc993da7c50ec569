SPECIFICATION Spec
CONSTANTS
  Months = {1, 2}
  NoMonth = NoMonth
  All = All
  DefaultRules <- MCRules
  DefaultCats <- MCCats
  Backups <- MCBackups
  RuleIds = {"r1"}
  CatIds = {"c1"}
  Wanted = {"c1"}
  Texts = {"a"}
  Long = "long"
  GoalLimit = 0
  MaxRules = 3
  None = None
  Pages = {p1, p2}
  Asked = {"none"}
  Fails = {TRUE, FALSE}
  Capacity = 2
  Retention = 2
  MaxDay = 3
  MaxRecords = 4
INVARIANTS
  TypeOK
  MonthsAgree HashReturns RenderKeepsScreen
  DrawerIsCurrent
  DatesLineUp ArchiveInOrder FewCopies
PROPERTIES
  ReloadKeepsCategories
