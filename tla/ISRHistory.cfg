\* Every sequence of five calls at three steps.
CONSTANTS
  CallProposal <- MCProposal
  MaxCallStep = 6
  MaxCalls = 5
SPECIFICATION RegisterSpec
INVARIANTS SummaryIsOfHistory DuplicatesAreHarmless
PROPERTY OnlyForward
\* The sequence ends when the bound on the calls is reached.
CHECK_DEADLOCK FALSE
