CONSTANTS
  Enabled = {"em540", "fronius", "victron"}
  SyntheticPv = FALSE
  DataTimeout = 1
  PollTime = 1
  MapOutcomes = {"built", "raises"}
  Never = Never
SPECIFICATION LiveSpec
INVARIANT TypeOK
INVARIANT RequiredValuesRecent
INVARIANT Coherent
PROPERTY PublishesWhileDelivered
