CONSTANTS
  d1 = d1
  d2 = d2
  fav = fav
  fol = fol
  his = his
  pos = pos
  favEntry = favEntry
  folEntry = folEntry
  hisEntry = hisEntry
  NoMutation = NoMutation
  MutationIds <- MCMutationIds
  Devices = {d1, d2}
  RecordIds <- TwoRecords
  KindOf <- TwoKinds
  CellOf <- TwoCells
  Cells = {favEntry, folEntry}
  Progress = {2}
  Seeds <- SomeOld
  BatchLimit = 1
  PageLimit = 1
  MaxBatches = 4
  MaxCounter = 3
  MaxEdits = 1
  MaxFaults = 0
  MaxErasures = 0
SPECIFICATION Spec
SYMMETRY Symmetry
CHECK_DEADLOCK FALSE
INVARIANTS
  CursorCovers
  MigratedUploads
