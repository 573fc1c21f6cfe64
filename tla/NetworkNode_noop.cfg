\* One value, a no-op and other nodes that win three slots.
CONSTANTS
  a = a
  x = x
  y = y
  Request = {i}
  Ids <- MCIds
  Foreign <- MCForeign
  Left <- MCLeft
  Noop = {noop}
  Command = x
  OwnThroughServer = {FALSE}
  CarefulTransfer = TRUE
  MaxSlot = 4
  BatchSize = 3
  PipelineLen = 2
  MaxPendingValues = 4
  MaxLogSlots = 4
  MaxTrackedValues = 5
  MaxCrashes = 0
  MaxErrors = 0
  MaxFloor = 0
  MaxEpoch = 0
SPECIFICATION Spec
INVARIANT NoValueLost
CHECK_DEADLOCK FALSE
