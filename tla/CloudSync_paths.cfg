CONSTANTS
  d1 = d1
  d2 = d2
  fav = fav
  fol = fol
  his = his
  pos = pos
  favEntry = favEntry
  folEntry = folEntry
  hisEntry = hisEntry
  NoMutation = NoMutation
  MutationIds <- MCMutationIds
  Devices = {d1}
  RecordIds <- HistoryRecords
  KindOf <- HistoryKinds
  CellOf <- HistoryCell
  Cells = {hisEntry}
  Progress = {2}
  Seeds <- SomeOld
  BatchLimit = 1
  PageLimit = 1
  MaxBatches = 2
  MaxCounter = 4
  MaxEdits = 2
  MaxFaults = 1
  MaxErasures = 1
SPECIFICATION FairSpec
CHECK_DEADLOCK FALSE
INVARIANTS
  StateHolds
PROPERTIES
  Settles
