\* Two slots, one of which can be active or decided at a time.
CONSTANTS
  Epochs <- MCEpochs
  CommandOf <- MCCommandOf
  MaxSlot = 2
  MaxStep = 6
  MaxActiveSlots = 1
  MaxDecisions = 1
  Requests <- MCRequests
  Decided <- MCDecided
  Announcements <- MCAnnouncements
  MaxAcked = 2
SPECIFICATION Spec
INVARIANTS TypeOK AcknowledgedIsDurable OneLeaderPerSlot SnapshotsRestore EpochsDoNotOverlap
PROPERTY PrunedSlotsAreSilent
\* A recorder whose file names a removed replica cannot be restarted.
CHECK_DEADLOCK FALSE
