CONSTANTS
  ModelIds <- MCModelIds
  AcModels <- MCAcModels
  Tables <- TwoTables
  MaxModels = 3
  Model160Enabled = TRUE
  None = None
SPECIFICATION LiveSpec
PROPERTY MovedTableIsRescanned
