CONSTANTS
  Enabled = {"em540", "victron"}
  SyntheticPv = FALSE
  DataTimeout = 1
  PollTime = 1
  MapOutcomes = {"built"}
  Never = Never
SPECIFICATION Spec
INVARIANT AllValuesRecent
