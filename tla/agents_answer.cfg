CONSTANTS
  w1 = w1
  w2 = w2
  None = None
  Workflows = {w1}
  RetryLimit = 2
  PlansOf <- MCPlansOf
SPECIFICATION Spec
CHECK_DEADLOCK FALSE
INVARIANTS
  EndedCallerHears
