\* Two replicas from a ranked epoch through a membership change; the statistics
\* of the last six epochs are retained.
CONSTANTS
  Replica = {1, 2}
  OldMembers <- MCOldMembers
  NewMembers <- MCNewMembers
  Barrier = 14
  EpochSize = 2
  PipelineLen = 2
  RetainedStatEpochs = 6
  ReexploreEpochs = 2
  Steps <- MCSteps
  Start = 9
  MaxSlot = 16
SPECIFICATION Spec
INVARIANTS ScheduleAvailable SnapshotRestores
\* The log ends.
CHECK_DEADLOCK FALSE
