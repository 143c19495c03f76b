SPECIFICATION FairSpec
CONSTANTS
  c1 = c1
  e1 = e1
  p1 = p1
  p2 = p2
  Messages = {c1, e1}
  Kind <- KindOf
  Replicas = {p1, p2}
  OutboxBatch = 1
INVARIANTS
  TypeOK
  PublishedWasSent
PROPERTIES
  TerminalRowsStay
  CommandKeepsRetrying
  ImplementsRelay
