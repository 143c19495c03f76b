SPECIFICATION FairSpec
CONSTANTS
  p1 = p1
  p2 = p2
  MaxUpdate = 4
  Kind <- KindOf
  Pollers = {p1, p2}
  PollLimit = 2
INVARIANTS
  HandledAtMostOnce
  WorkIsExclusive
  NothingForgottenUnseen
PROPERTY EveryMessageRegistered
