SPECIFICATION FairSpec
CONSTANTS
  s1 = s1
  s2 = s2
  w1 = w1
  Subjects = {s1, s2}
  Order <- Both
  Helpers = {}
  Workers = {w1}
  Messages = {1, 2}
  SubjectOf <- First
  PendingMessages = 1
INVARIANTS
  NoOrphanConsumer
  ReadyMeansReceiving
  ExitTellsFailure
PROPERTIES
  ShutdownCompletes
  ReceivedIsHandled
CHECK_DEADLOCK FALSE
