CONSTANTS
  c1 = c1
  c2 = c2
  t1 = t1
  t2 = t2
  t3 = t3
  u1 = u1
  discard = discard
  cancel = cancel
  status = status
  h1 = h1
  h2 = h2
  None = None
  Chats = {c1, c2}
  Tasks = {t1, t2, u1}
  Commands = {discard}
  ChatOf <- MCChatOf
  TextOf <- MCTextOf
  KindOf <- MCKindOf
  Handlers = {h1, h2}
  MaxPerChat = 2
  Reject = TRUE
  Notify = {TRUE, FALSE}
  CliChats = {c2}
  Stops = {"crash", "restart", "exit"}
  MaxStops = 1
SPECIFICATION Spec
SYMMETRY HandlerSymmetry
CHECK_DEADLOCK FALSE
INVARIANTS
  DrainGoesOn
  NothingFinishedOnFile
  OnFileOnce
PROPERTIES
  RunsOnceAlone
