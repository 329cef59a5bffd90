CONSTANTS
  gate = gate
  next = next
  r1 = r1
  r2 = r2
  back = back
  code = code
  test = test
  None = None
  Jobs = {gate, next, r1, r2, back}
  Phases = {code, test}
  Role <- MCRole
  Phase <- MCPhase
  Good = {gate, next}
  MaxTries = 2
  MaxFaults = 2
SPECIFICATION Spec
CHECK_DEADLOCK FALSE
INVARIANTS
  SeqsAreDense
  PointerNamesRecord
  WrittenOnce
  RollbackNotBehind
PROPERTIES
  EveryJobEnds
  ImplementsLedger
