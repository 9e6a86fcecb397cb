\* The same without displacement: an event confirmed before Dem_Init finds the
\* memory full.
SPECIFICATION Spec
CONSTANTS
  NEvents = 2
  MemSize = 1
  Cycles = {"ACTIVE", "POWER"}
  Active = "ACTIVE"
  Priority <- TwoPriorities
  OperationCycle <- ActiveCycles
  FailureCycle <- ActiveCycles
  AgingCycle <- OwnAgingCycle
  FailureThreshold <- TwoThenOne
  AgingThreshold <- TwoThenOne
  CounterMax = 2
  AgingClear = "all"
  Displacement = FALSE
  TestFailedStorage = FALSE
  PreInitReports = {"before Dem_Init"}
INVARIANTS
  ConfirmedIsStored
