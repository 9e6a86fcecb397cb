\* Two UDS protocols in the default session preempt each other.
SPECIFICATION CyclicSpec
CONSTANTS
  NProtocols = 2
  RxPdus = {1, 2}
  ProtocolOf <- TwoProtocolOf
  FunctionalPdus = {}
  ParallelPdus = {}
  Priority <- TwoPriority
  ObdProtocols = {}
  ExtraSessions = {}
  SecuritySessions = {}
  PendingServices = {"memory"}
  AppResets = FALSE
  S3Server = 0
  P2Server = 1
  P2StarServer = 1
  PreemptTimeout = 2
  MaxNumRespPend = 0
  ForceRespPend = FALSE
  StartupProtocols = {}
  Refusals = {}
INVARIANTS
  DsdServesOneRow
  ActiveIsStarted
  PreemptingRowTracked
PROPERTIES
  EveryPreemptionEnds
