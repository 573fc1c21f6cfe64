\* Two replicas that decide a slot of the last warm-up epoch by themselves.
CONSTANTS
  Replica = {1, 2}
  OldMembers <- MCOldMembers
  NewMembers <- MCNewMembers
  Barrier = 14
  EpochSize = 2
  PipelineLen = 2
  RetainedStatEpochs = 6
  ReexploreEpochs = 2
  Steps <- MCSteps
  Start = 7
  MaxSlot = 16
SPECIFICATION Spec
INVARIANT SchedulesAgree
\* The log ends.
CHECK_DEADLOCK FALSE
