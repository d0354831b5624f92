CONSTANTS
  ModelIds <- MCModelIds
  AcModels <- MCAcModels
  Tables <- MovingTables
  MaxModels = 3
  Model160Enabled = TRUE
  None = None
SPECIFICATION LiveSpec
INVARIANT TypeOK
INVARIANT GarbageOnlyAfterMove
INVARIANT LegacyOnlyWithoutModels
PROPERTY EmptyIndexIsTemporary
PROPERTY ReadsEnd
PROPERTY ReadsAreBounded
