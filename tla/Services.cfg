\* Every service module and the debouncing. The bounds end the requests of
\* the testers: no deadlock check.
SPECIFICATION ServicesSpec
CONSTANTS
  DspSessions = {"DEFAULT", "EXT", "PROG", "APP"}
  DspLevels = {"L1", "L2"}
  CounterModulus = 3
  TransferSizes = {2, 4}
  DownloadBlock = 1
  UploadBlock = 2
  MaxUnits = 5
  TransferResets = TRUE
  ReadRow <- MCReadRow
  DynamicDids = {"D1", "D2", "D3", "D4"}
  WriteRow <- MCWriteRow
  AddressRow <- MCAddressRow
  ServiceRow <- Everywhere
  Connections = {"R1"}
  Periods <- MCPeriods
  PdidLimit = 3
  DddLimit = 2
  SourceLimit = 3
  MaxPDidLength = 1
  DidLists <- MCDidLists
  SourceLists <- MCSourceLists
  PeriodicBudget = 3
  ControlRow <- MCControlRow
  SignalCount <- MCSignalCount
  ControlService <- Everywhere
  IoSlots = 2
  ControlResets = TRUE
  ChannelOf <- MCChannelOf
  BootOf <- MCBootOf
  ComService <- InExtended
  DtcService <- InExtended
  PendingFirst = {"P1"}
  SwitchRequests <- MCSwitchRequests
  MaxRespPend = 1
  TransmitRefusals = FALSE
  ResetPhases = {"idle", "received", "serving"}
  AttemptLimit <- MCAttemptLimit
  DelayTime <- MCDelayTime
  BootDelay <- MCBootDelay
  FirstLevel = "L1"
  PendingResets = TRUE
  DidSignals <- MCDidSignals
  DidRefs <- MCDidRefs
  DidReadRow <- MCDidReadRow
  ReadRequests <- MCReadRequests
  RoutineRow <- MCRoutineRow
  DidWriteRow <- MCDidWriteRow
  WriteSignals <- MCWriteSignals
  NvMBlocks = {"block1"}
  MemoryRanges <- MCMemoryRanges
  UseMemoryId = TRUE
  AddressModulus = 8
  MemoryLengths = {0, 1, 2}
  LastsOverTakeover = FALSE
  RoeDids = {"a", "b", "x"}
  ExternalDids = {"x"}
  RoePreconfig <- MCRoePreconfig
  RoeTesters = {"T1"}
  MaxRoeEvents = 2
  DidLength <- MCDidLength
  MaxAllocated = 2
  ReadsFail = TRUE
  DtcOrder <- MCDtcOrder
  EventsOf <- MCEventsOf
  EmissionDtcs = {"y"}
  EventStatuses <- MCEventStatuses
  FilterMasks <- MCFilterMasks
  ListRooms = {0, 2}
  CounterEvents <- MCCounterEvents
  TimerEvents <- MCTimerEvents
  MaxSteady = 4
INVARIANTS
  ServicesTypeOK
  DownloadComplete
  ScheduledIsReadable
  EachInTurn
  HeldIsListed
  EffectsOfAnswer
  LockoutHolds
  ReadGoesOn
  PendingIsServed
  StoredIsMarked
  WhatStaysIsListed
  FdcTellsVerdict
PROPERTIES
  RefusedTakesNothing
  OthersKeepControl
  JumpIsPrepared
  NotBeforeTheThreshold
CHECK_DEADLOCK FALSE
