CONSTANTS
  w1 = w1
  w2 = w2
  None = None
  Workflows = {w1, w2}
  RetryLimit = 1
  PlansOf <- MCPlansOf
SPECIFICATION Spec
CHECK_DEADLOCK FALSE
INVARIANTS
  PipelineOrder
  ResultsAreTheirRoles
  WaitCanBeAnswered
  CallerHearsTheTruth
PROPERTIES
  WorkBound
  EveryOrchestrationEnds
  ImplementsPipeline
