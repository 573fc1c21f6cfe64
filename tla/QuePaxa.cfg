\* Divergent schedules, a retry with another batch and adopted decisions,
\* through the first phase of round two.
CONSTANTS
  Recorder = {r1, r2, r3}
  Proposer = {1, 2, 3}
  Value = {0, 1, 2, 3}
  Batch <- MCBatch
  Leader <- ThreeDiverges
  Quorum <- MCQuorum
  MaxPriority = 2
  MaxStep = 8
  MaxAttempts <- ThreeRetries
  MaxInformed = 1
SPECIFICATION Spec
SYMMETRY MCSymmetry
VIEW MCView
INVARIANTS Agreement DecisionsAreProposed DecisionIsCarried GatherSeesPrior
INVARIANTS ReservedPriorityIsUnique
PROPERTY ImplementsConsensus
CHECK_DEADLOCK FALSE
