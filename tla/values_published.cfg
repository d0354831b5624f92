CONSTANTS
  BusyBridge = FALSE
  Configurations <- AllConfigurations
  Plants <- AllPlants
SPECIFICATION Spec
INVARIANT TypeOK
INVARIANT ShownAsMeasured
INVARIANT SnapshotShown
INVARIANT PartsAddUp
INVARIANT SyntheticIsPhysical
