\* Three events and two testers; no read fails.
SPECIFICATION RoeSpec
CONSTANTS
  RoeDids = {"a", "b", "x"}
  ExternalDids = {"x"}
  RoePreconfig <- MCRoePreconfig
  RoeTesters = {"T1", "T2"}
  MaxRoeEvents = 3
  DidLength <- MCDidLength
  MaxAllocated = 5
  ReadsFail = FALSE
PROPERTIES
  EventReported
