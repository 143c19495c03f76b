SPECIFICATION ActivationSpec
CONSTANTS
  u1 = u1
  u2 = u2
  s1 = s1
  s2 = s2
  s3 = s3
  o1 = o1
  o2 = o2
  o3 = o3
  b1 = b1
  b2 = b2
  Users = {u1, u2}
  Balances = {b1, b2}
  SessionIDs = {s1, s2, s3}
  Ops = {o1, o2, o3}
SYMMETRY Alike
INVARIANTS
  ShownIsHeld
  EndingsAgree
  VerdictApplies
CHECK_DEADLOCK FALSE
