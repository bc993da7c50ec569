SPECIFICATION SettingsSpec
CONSTANTS
  DefaultRules <- MCRules
  DefaultCats <- MCCats
  Backups <- MCBackups
  RuleIds = {"r1"}
  CatIds = {"c1"}
  Wanted = {"c1"}
  Texts = {"a"}
  Long = "long"
  GoalLimit = 0
  MaxRules = 3
  None = None
INVARIANTS SavedIsReadBack
