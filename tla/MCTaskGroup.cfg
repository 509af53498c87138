CONSTANTS
  c1 = c1
  c2 = c2
  c3 = c3
  w1 = w1
  w2 = w2
  NoChild = NoChild
  Children <- MCChildren
  Waiters <- MCWaiters
SPECIFICATION GroupFairSpec
INVARIANTS WaitReturnsDrained ErrorNotSwallowed
PROPERTY WaitEnds
CHECK_DEADLOCK FALSE
