SPECIFICATION Spec
CONSTANTS
  a1 = a1
  a2 = a2
  a3 = a3
  r1 = r1
  r2 = r2
  s1 = s1
  s2 = s2
  b1 = b1
  b2 = b2
  w1 = w1
  w2 = w2
  u1 = u1
  u2 = u2
  x1 = x1
  x2 = x2
  Commands <- RenewThenReuse
  AnswerIDs = {a1, a2, a3}
  Replicas = {r1}
  TopupTTL = 1
  ResultTTL = 9
  Skew = 1
  ReconcileBatch = 1
  MaxTime = 0
INVARIANT TransactionActivatesOnce
CHECK_DEADLOCK FALSE
