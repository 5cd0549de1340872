\* Three threads of two processes claim two ids; the write lock is always given
\* up; one process dies.
CONSTANTS
  p1 = p1
  p2 = p2
  t1 = t1
  t2 = t2
  t3 = t3
  Ids = {"id-1", "id-2"}
  Processes = {p1, p2}
  Threads = {t1, t2, t3}
  ProcessOf <- TwoProcesses
  MaxCrashes = 1
  NoThread = NoThread
  NoId = NoId
SPECIFICATION FairSpec
INVARIANT StoreInv
PROPERTIES RowsAreKept ImplementsSingleUseStore LockIsReleased
