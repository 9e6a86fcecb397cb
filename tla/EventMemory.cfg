\* Two events, one entry, displacement, reports before Dem_Init.
SPECIFICATION Spec
CONSTANTS
  NEvents = 2
  MemSize = 1
  Cycles = {"ACTIVE", "POWER"}
  Active = "ACTIVE"
  Priority <- TwoPriorities
  OperationCycle <- ActiveCycles
  FailureCycle <- ActiveCycles
  AgingCycle <- OwnAgingCycle
  FailureThreshold <- TwoThenOne
  AgingThreshold <- TwoThenOne
  CounterMax = 2
  AgingClear = "all"
  Displacement = TRUE
  TestFailedStorage = FALSE
  PreInitReports = {"before Dem_Init"}
INVARIANTS
  TypeOK
  ConfirmedStoredOrSignalled
  StoredAgrees
  StatusConsistent
  PendingCoversFailure
PROPERTIES
  FailingEntryKept
