SPECIFICATION FairSpec
CONSTANTS
  t1 = t1  t2 = t2  t3 = t3  t4 = t4
  Threads = {t1, t2, t3, t4}
  Aborted = {t1}
  WaitersModulus = 8
  MaxWaiters = 7
INVARIANTS MutualExclusion NoLostWakeup
PROPERTIES FreeMutexIsTaken
