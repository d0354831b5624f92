CONSTANTS
  Servers = {rtu, socket}
  DataTimeout = 2
  NumRegs = 2
  NoSuccess = NoSuccess
SPECIFICATION Spec
INVARIANT FreshMeansClosed
