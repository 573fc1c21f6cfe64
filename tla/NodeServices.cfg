SPECIFICATION Spec
CONSTANTS
  q1 = q1
  m1 = m1
  m2 = m2
  a = a
  b = b
  None = None
  Call = {c1, c2}
  Request = {q1}
  For <- MCFor
  Outcome <- MCOutcome
  Member = {m1, m2, m3}
  Founders = {m1, m2}
  Home = m1
  Value = {a, b}
  Wanted <- MCWanted
  Batch <- Pair
  Quorum <- MCQuorum
  Threshold = 2
  MaxSlot = 2
  MaxCrashes = 1
  MaxErrors = 1
SYMMETRY Sym
INVARIANTS SameOutcome OneInnerCall AppliedOnce PayloadsAvailable PublishedSurvives
CHECK_DEADLOCK FALSE
