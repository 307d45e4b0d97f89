CONSTANTS
  d1 = d1
  d2 = d2
  fav = fav
  fol = fol
  his = his
  pos = pos
  favEntry = favEntry
  folEntry = folEntry
  hisEntry = hisEntry
  NoMutation = NoMutation
  MutationIds <- MCMutationIds
  Devices = {d1, d2}
  RecordIds <- OneRecord
  KindOf <- OneKind
  CellOf <- OneCell
  Cells = {favEntry}
  Progress = {2}
  Seeds <- Empty
  BatchLimit = 1
  PageLimit = 1
  MaxBatches = 4
  MaxCounter = 4
  MaxEdits = 2
  MaxFaults = 1
  MaxErasures = 0
SPECIFICATION Spec
SYMMETRY Symmetry
CHECK_DEADLOCK FALSE
INVARIANTS
  IdsAreUnique
  DevicesAgree
PROPERTIES
  QueueKeepsChanges
