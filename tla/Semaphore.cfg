SPECIFICATION FairSpec
CONSTANTS
  t1 = t1  t2 = t2  t3 = t3  t4 = t4
  Threads = {t1, t2, t3}
  Privileged = {t3}
  InitCounts = {0, 1}
  MaxCount = 2
INVARIANTS WaitersCounted RefsBalanced
PROPERTIES ImplementsCountingSemaphore DestroyedIsFreed WaitersServed
\* Nothing can happen any more once the semaphore has been freed.
CHECK_DEADLOCK FALSE
