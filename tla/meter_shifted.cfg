CONSTANTS
  BusyBridge = TRUE
  Configurations <- DefaultOnly
  Plants <- BusyPlants
SPECIFICATION Spec
INVARIANT ShownAsMeasured
