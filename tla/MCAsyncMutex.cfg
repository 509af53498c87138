CONSTANTS
  t1 = t1
  t2 = t2
  t3 = t3
  Tasks <- MCTasks
  RemoteCancel = {t1}
  Destroyable = {t3}
SPECIFICATION FairSpec
INVARIANT MutualExclusion
PROPERTIES LockIsServed ImplementsPermitPool
CHECK_DEADLOCK FALSE
