\* One OBD protocol, which a warm start may start too.
\* The main function may stop at a NULL pointer: no deadlock check.
SPECIFICATION Spec
CONSTANTS
  NProtocols = 1
  RxPdus = {1, 2}
  ProtocolOf <- OneProtocolOf
  FunctionalPdus = {2}
  ParallelPdus = {}
  Priority <- OnePriority
  ObdProtocols = {1}
  ExtraSessions = {"EXTENDED", "PROGRAMMING"}
  SecuritySessions = {"OBD"}
  PendingServices = {"memory", "did"}
  AppResets = FALSE
  S3Server = 2
  P2Server = 2
  P2StarServer = 1
  PreemptTimeout = 1
  MaxNumRespPend = 1
  ForceRespPend = TRUE
  StartupProtocols = {1}
  Refusals = {"transmitLocal"}
INVARIANTS
  UnlockedInSecuritySession
  PendingChangeHasResponse
CHECK_DEADLOCK FALSE
