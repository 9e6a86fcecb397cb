\* NvM_SetRamBlockStatus in use, and an NvM that may refuse.
SPECIFICATION LiveSpec
CONSTANTS
  h1 = h1
  NBlocks = 2
  Handles <- OneHandle
  HandleOf <- BothShared
  SetRamApi = TRUE
  Refuses = TRUE
INVARIANTS
  ChangeNotForgotten
  ImmediateStaysImmediate
PROPERTIES
  ImmediateIsStored
  WriteRequestServed
