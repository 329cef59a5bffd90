CONSTANTS
  g1 = g1
  g2 = g2
  d1 = d1
  s1 = s1
  a = a
  b = b
  Topics = {a, b}
  TopicOf <- MCTopicOf
  ClassOf <- MCClassOf
  Events = {g1, g2, d1, s1}
  ClearOnBoot = TRUE
  MaxCrashes = 1
SPECIFICATION FairSpec
CHECK_DEADLOCK FALSE
INVARIANTS
  OnePlace
  OnlyGrantedOnFile
PROPERTIES
  ImplementsMailbox
  LettersReachSubscribers
