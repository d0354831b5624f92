CONSTANTS
  Callers = {c1, c2}
  Attempts = 2
  FailureThreshold = 2
  Cooldown = 2
SPECIFICATION PollingSpec
INVARIANT TypeOK
INVARIANT NoTrafficWhileCooling
INVARIANT NoClientLeaks
PROPERTY OpensOnlyOnTrouble
PROPERTY RecoversWithDevice
PROPERTY ImplementsCooldownBreaker
