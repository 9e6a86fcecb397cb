\* Two protocols with an extended session, the second an OBD one that the first
\* outranks: its S3 timeout closes the protocol that is active. The main
\* function may stop at a NULL pointer: no deadlock check.
SPECIFICATION Spec
CONSTANTS
  NProtocols = 2
  RxPdus = {1, 2}
  ProtocolOf <- TwoProtocolOf
  FunctionalPdus = {}
  ParallelPdus = {}
  Priority <- FirstPriority
  ObdProtocols = {2}
  ExtraSessions = {"EXTENDED"}
  SecuritySessions = {}
  PendingServices = {}
  AppResets = FALSE
  S3Server = 0
  P2Server = 1
  P2StarServer = 1
  PreemptTimeout = 1
  MaxNumRespPend = 0
  ForceRespPend = FALSE
  StartupProtocols = {}
  Refusals = {}
PROPERTIES
  SessionFollowsRequester
CHECK_DEADLOCK FALSE
