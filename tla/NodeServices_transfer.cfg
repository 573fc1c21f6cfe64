SPECIFICATION Spec
CONSTANTS
  q1 = q1
  m1 = m1
  m2 = m2
  a = a
  b = b
  None = None
  Call = {}
  Request = {q1}
  For <- MCFor
  Outcome <- MCOutcome
  Member = {m1, m2, m3}
  Founders = {m1, m2}
  Home = m1
  Value = {a, b}
  Wanted <- MCWanted
  Batch <- Singles
  Quorum <- MCQuorum
  Threshold = 2
  MaxSlot = 2
  MaxCrashes = 0
  MaxErrors = 0
INVARIANT TransfersMatch
CHECK_DEADLOCK FALSE
