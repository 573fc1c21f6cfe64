\* Two slots, one value; one error and one crash.
CONSTANTS
  Member = {r1, r2}
  Foreign <- MCForeign
  x = x
  Value = {a}
  Noop = {noop}
  MaxSlot = 2
  BatchSize = 2
  PipelineLen = 2
  MaxPendingValues = 4
  MaxLogSlots = 3
  MaxTrackedValues = 5
  CarefulTransfer = TRUE
  MaxCrashes = 1
  MaxErrors = 1
SPECIFICATION FairSpec
INVARIANTS ExecutedInOrder NoValueLost SnapshotRestores PrunedKnown
PROPERTY KnownExecuted
