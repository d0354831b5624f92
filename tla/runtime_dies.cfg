CONSTANTS
  Enabled = {"em540", "victron"}
  SyntheticPv = FALSE
  DataTimeout = 1
  PollTime = 1
  MapOutcomes = {"raises"}
  Never = Never
SPECIFICATION LiveSpec
PROPERTY ResumesWhenDelivered
