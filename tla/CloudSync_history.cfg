CONSTANTS
  d1 = d1
  d2 = d2
  fav = fav
  fol = fol
  his = his
  pos = pos
  favEntry = favEntry
  folEntry = folEntry
  hisEntry = hisEntry
  NoMutation = NoMutation
  MutationIds <- MCMutationIds
  Devices = {d1, d2}
  RecordIds <- HistoryRecords
  KindOf <- HistoryKinds
  CellOf <- HistoryCell
  Cells = {hisEntry}
  Progress = {2}
  Seeds <- SyncedHistory
  BatchLimit = 3
  PageLimit = 3
  MaxBatches = 2
  MaxCounter = 3
  MaxEdits = 3
  MaxFaults = 0
  MaxErasures = 0
SPECIFICATION NeverCleared
CHECK_DEADLOCK FALSE
INVARIANTS
  DevicesAgree
