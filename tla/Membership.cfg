\* Every stable -> joint -> stable -> joint chain of epochs over four replicas.
CONSTANTS
  Replica = {1, 2, 3, 4}
  MaxFaults = 1
  MaxEpoch = 3
SPECIFICATION ClusterSpec
INVARIANTS QuorumsIntersect QuorumSurvivesFaults QuorumSizeIsExact SuccessorsAreTheBuiltOnes
PROPERTY SuccessiveQuorumsIntersect
\* The last epoch number is reached: no further epoch can be built.
CHECK_DEADLOCK FALSE
