\* A protocol starts unlocked.
SPECIFICATION Spec
CONSTANTS
  NProtocols = 2
  RxPdus = {1, 2}
  ProtocolOf <- TwoProtocolOf
  FunctionalPdus = {}
  ParallelPdus = {}
  Priority <- TwoPriority
  ObdProtocols = {}
  ExtraSessions = {"EXTENDED"}
  SecuritySessions = {"EXTENDED"}
  PendingServices = {"memory", "did"}
  AppResets = TRUE
  S3Server = 1
  P2Server = 2
  P2StarServer = 1
  PreemptTimeout = 1
  MaxNumRespPend = 0
  ForceRespPend = FALSE
  StartupProtocols = {}
  Refusals = {}
PROPERTIES
  ProtocolStartLocks
