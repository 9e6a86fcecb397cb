\* A preemption decided in the default session closes another one.
SPECIFICATION Spec
CONSTANTS
  NProtocols = 2
  RxPdus = {1, 2}
  ProtocolOf <- TwoProtocolOf
  FunctionalPdus = {}
  ParallelPdus = {}
  Priority <- TwoPriority
  ObdProtocols = {}
  ExtraSessions = {"EXTENDED"}
  SecuritySessions = {}
  PendingServices = {}
  AppResets = FALSE
  S3Server = 1
  P2Server = 1
  P2StarServer = 1
  PreemptTimeout = 2
  MaxNumRespPend = 0
  ForceRespPend = FALSE
  StartupProtocols = {}
  Refusals = {}
PROPERTIES
  PriorityRespected
