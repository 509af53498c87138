CONSTANTS
  t1 = t1
  t2 = t2
  t3 = t3
  Tasks <- MCTasks
  RemoteCancel = {t1}
  Destroyable = {t3}
  InitialPermits = 1
  SizeMax = 2
  MaxRelease = 2
SPECIFICATION FairSpec
INVARIANTS PermitConservation NoLostWakeup
PROPERTIES CanceledWaiterLeaves ImplementsPermitPool
CHECK_DEADLOCK FALSE
