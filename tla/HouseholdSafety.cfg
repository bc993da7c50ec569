SPECIFICATION Spec
CONSTANTS
  c1 = c1
  c2 = c2
  r1 = r1
  NoRef = NoRef
  NoId = NoId
  Nothing = Nothing
  Charges <- MCCharges
  Refs <- MCRefs
  Files <- MCFiles
  Batches <- MCBatches
  Hands <- MCHands
  Backups <- MCBackups
  Imports = {i1}
  MaxRows = 2
  MaxFiles = 2
INVARIANTS TypeOK ShownIsSaved BankIdsOnce
PROPERTIES ImportKeepsSpending CategoryFollows
