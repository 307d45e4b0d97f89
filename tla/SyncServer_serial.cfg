CONSTANTS
  fav = fav
  his = his
  pos = pos
  m1 = m1
  m2 = m2
  m3 = m3
  m4 = m4
  m5 = m5
  m6 = m6
  m7 = m7
  m8 = m8
  m9 = m9
  NoMutation = NoMutation
  NoHandler = NoHandler
  RecordIds <- MCRecordIds
  KindOf <- MCKindOf
  MutationIds <- MCMutationIds
  Handlers = {h1}
  Batches <- SerialBatches
SPECIFICATION Spec
PROPERTIES
  ServesStore
  PositionKeepsLatest
  RulesStand
