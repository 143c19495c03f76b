SPECIFICATION Spec
CONSTANTS
  p1 = p1
  p2 = p2
  u1 = u1
  u2 = u2
  s1 = s1
  s2 = s2
  o1 = o1
  o2 = o2
  b1 = b1
  x1 = x1
  x2 = x2
  t1 = t1
  t2 = t2
  i1 = i1
  i2 = i2
  InviteCommands <- OneInvite
  Users = {u1}
  SessionIDs = {s1}
  Ops = {o1, o2}
  Txs = {x1}
  Copies = {1}
  Pollers = {p1}
  ReconcileBatch = 1
SYMMETRY OpsAlike
INVARIANTS
  TypeOK
  DialogFollowsAttempt
  ActiveThroughOneAttempt
  NoAnsweredCommandOpen
PROPERTIES
  EndedAttemptsStay
CHECK_DEADLOCK FALSE
