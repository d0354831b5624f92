CONSTANTS
  Sources = {em540, victron}
  Threshold = 2
  Cooldown = 3
  Interval = 1
  PollTime = 2
  DataTimeout = 9
  MaxLost = 3
  NoSuccess = NoSuccess
SPECIFICATION LiveSpec
INVARIANT TypeOK
INVARIANT ServedInTime
INVARIANT AgeExplainedByLostCycles
PROPERTY ServiceResumes
PROPERTY ImplementsBreakers
