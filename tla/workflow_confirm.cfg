CONSTANTS
  c = c
  d = d
  skill = skill
  cond = cond
  end = end
  rm = rm
  start = start
  None = None
  Workflows = {c, d}
  Direct = {d}
  Nodes = {skill, cond, end, rm, start}
  Entry <- MCEntry
  Kind <- MCKind
  Edge <- MCEdge
  Branches <- MCBranches
  Jumps <- MCJumps
  MaxRetries = 2
  MaxRecoveries = 2
  MaxSteps = 5
  Hitl = {TRUE, FALSE}
SPECIFICATION Spec
CHECK_DEADLOCK FALSE
INVARIANTS
  ConfirmedNodeRuns
