CONSTANTS
  c1 = c1
  c2 = c2
  t1 = t1
  t2 = t2
  t3 = t3
  u1 = u1
  discard = discard
  cancel = cancel
  status = status
  h1 = h1
  h2 = h2
  None = None
  Chats = {c1, c2}
  Tasks = {t1, t2}
  Commands = {}
  ChatOf <- MCChatOf
  TextOf <- MCTextOf
  KindOf <- MCKindOf
  Handlers = {h1, h2}
  MaxPerChat = 0
  Reject = FALSE
  Notify = {FALSE}
  CliChats = {}
  Stops = {"restart", "exit"}
  MaxStops = 1
SPECIFICATION Spec
CHECK_DEADLOCK FALSE
INVARIANTS
  PlannedStopKeepsAccepted
