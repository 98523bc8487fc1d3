SPECIFICATION TrialSpec
CONSTANTS
  Requests = {q1, q2}
  Threshold = 1
  MaxOutcomes = 2
INVARIANT OneTrial
CHECK_DEADLOCK FALSE
