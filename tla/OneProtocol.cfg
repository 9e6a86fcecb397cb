\* One UDS protocol: everything but a refused local transmission.
SPECIFICATION LiveSpec
CONSTANTS
  NProtocols = 1
  RxPdus = {1, 2}
  ProtocolOf <- OneProtocolOf
  FunctionalPdus = {2}
  ParallelPdus = {1, 2}
  Priority <- OnePriority
  ObdProtocols = {}
  ExtraSessions = {"EXTENDED"}
  SecuritySessions = {"EXTENDED"}
  PendingServices = {"memory", "did"}
  AppResets = TRUE
  S3Server = 2
  P2Server = 2
  P2StarServer = 1
  PreemptTimeout = 1
  MaxNumRespPend = 1
  ForceRespPend = TRUE
  StartupProtocols = {}
  Refusals = {"transmit", "start", "stop"}
INVARIANTS
  TypeOK
  BufferHeldIffInUse
  RequestLocked
  ConfirmationNotMixed
  LocalResponseSent
PROPERTIES
  RequestImplemented
  EveryRequestEnds
