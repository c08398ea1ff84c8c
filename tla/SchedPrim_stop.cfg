SPECIFICATION FairSpec
CONSTANTS
  t1 = t1  t2 = t2  t3 = t3
  w1 = w1  w2 = w2  w3 = w3
  b1 = b1  b2 = b2  e1 = e1  e2 = e2
  Threads = {t1, t2, t3}
  Cpus = {p1, p2, p3}
  Callers = {}
  Events = {e1}
  WakeEvent <- MCWakeEvent
  Buckets = {b1, b2}
  BucketOf <- MCBucketOf
  Sleepers = {t1}
  TimedSleepers = {}
  Privileged = {}
  Stoppers = {t2, t3}
  StopTargets = {t1}
  AbortTargets = {}
  ClearTargets = {}
  ClearModes = {TRUE}
  WaitModes = {"int"}
  Yielders = {}
  Continuations = {FALSE}
  StackMisses = {FALSE}
  MaxRefs = 0
  NoThread = NoThread  Idle = Idle  NoEvent = NoEvent
  NoBucket = NoBucket  NoCaller = NoCaller
INVARIANTS StopIsExclusive WakeActiveCovered
PROPERTIES StopWaitReturns
