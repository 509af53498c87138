CONSTANTS
  t1 = t1
  t2 = t2
  t3 = t3
  Tasks <- MCTasks
  RemoteCancel = {t1}
  Destroyable = {}
SPECIFICATION Spec
INVARIANT FreeWhenUnused
CHECK_DEADLOCK FALSE
