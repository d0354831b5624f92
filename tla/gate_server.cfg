CONSTANTS
  Servers = {rtu, socket}
  DataTimeout = 2
  NumRegs = 3
  NoSuccess = NoSuccess
SPECIFICATION FairSpec
INVARIANT TypeOK
INVARIANT ServedWhileFresh
INVARIANT ReplyFromLastTwoPublications
INVARIANT FailureToleratedWhileFresh
PROPERTY ClosesOnlyOnCompletePublication
PROPERTY ClosesWhileHealthy
PROPERTY StopsServingStaleData
PROPERTY ImplementsFreshnessGate
