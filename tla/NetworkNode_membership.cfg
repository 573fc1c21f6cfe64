\* The node calls its own server, and nothing fails.
CONSTANTS
  a = a
  x = x
  y = y
  Request = {i}
  Ids <- MCIds
  Foreign <- MCForeign
  Left <- MCLeft
  Noop = {noop}
  Command = x
  OwnThroughServer = {TRUE}
  CarefulTransfer = TRUE
  MaxSlot = 2
  BatchSize = 2
  PipelineLen = 2
  MaxPendingValues = 4
  MaxLogSlots = 3
  MaxTrackedValues = 5
  MaxCrashes = 0
  MaxErrors = 0
  MaxFloor = 1
  MaxEpoch = 1
SPECIFICATION FairSpec
PROPERTY InstallSucceeds
CHECK_DEADLOCK FALSE
