CONSTANTS
  Chats = {c1, c2}
  Tasks = {t1}
  None = None
  Ttl = 1
  InProgressTtl = 1
  MaxPerChat = 2
  MaxTotal = 3
  Modes = {"drop_oldest", "reject"}
  MaxTime = 2
  MaxLen = 3
  MaxUnsaved = 1
SPECIFICATION Spec
SYMMETRY ChatSymmetry
INVARIANTS
  TypeOK
  PerChatCapHolds
  TotalCapHolds
  FileRebuildsMemory
PROPERTIES
  OldestLeaveFirst
