SPECIFICATION FairSpec
CONSTANTS
  c1 = c1
  e1 = e1
  p1 = p1
  p2 = p2
  Messages = {e1}
  Kind <- KindOf
  Replicas = {p1, p2}
  OutboxBatch = 2
PROPERTY RepeatIsSent
