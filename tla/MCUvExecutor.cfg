CONSTANTS
  j1 = j1
  far = far
  near = near
  Jobs = {j1}
  Timed = {far, near}
  OnLoop = {near}
SPECIFICATION FairSpec
INVARIANT CalledOnce
PROPERTY CalledEventually
CHECK_DEADLOCK FALSE
