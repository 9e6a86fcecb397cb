\* A preempted request loses its lock.
SPECIFICATION Spec
CONSTANTS
  NProtocols = 2
  RxPdus = {1, 2}
  ProtocolOf <- TwoProtocolOf
  FunctionalPdus = {}
  ParallelPdus = {}
  Priority <- TwoPriority
  ObdProtocols = {}
  ExtraSessions = {}
  SecuritySessions = {}
  PendingServices = {"memory", "did"}
  AppResets = FALSE
  S3Server = 0
  P2Server = 2
  P2StarServer = 1
  PreemptTimeout = 2
  MaxNumRespPend = 0
  ForceRespPend = FALSE
  StartupProtocols = {}
  Refusals = {}
INVARIANTS
  RequestLocked
