\* A submission and its retry; one error and one crash.
CONSTANTS
  a = a
  x = x
  y = y
  Request = {i, j}
  Ids <- MCIds
  Foreign <- TwoForeign
  Left <- MCLeft
  Noop = {noop}
  Command = x
  OwnThroughServer = {TRUE, FALSE}
  CarefulTransfer = TRUE
  MaxSlot = 2
  BatchSize = 2
  PipelineLen = 2
  MaxPendingValues = 4
  MaxLogSlots = 3
  MaxTrackedValues = 5
  MaxCrashes = 1
  MaxErrors = 1
  MaxFloor = 1
  MaxEpoch = 1
SPECIFICATION Spec
SYMMETRY Sym
INVARIANTS ExecutedInOrder NoValueLost SnapshotRestores NoLostWakeup DecidedOnce
PROPERTY ChangesWhenDrained
CHECK_DEADLOCK FALSE
