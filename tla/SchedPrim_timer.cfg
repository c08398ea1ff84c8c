SPECIFICATION FairSpec
CONSTANTS
  t1 = t1  t2 = t2  t3 = t3
  w1 = w1  w2 = w2  w3 = w3
  b1 = b1  b2 = b2  e1 = e1  e2 = e2
  Threads = {t1, t2}
  Cpus = {p1, p2}
  Callers = {c1, c2}
  Events = {e1}
  WakeEvent <- MCWakeEvent
  Buckets = {b1, b2}
  BucketOf <- MCBucketOf
  Sleepers = {t1, t2}
  TimedSleepers = {t1}
  Privileged = {}
  Stoppers = {}
  StopTargets = {}
  AbortTargets = {}
  ClearTargets = {}
  ClearModes = {TRUE}
  WaitModes = {"int"}
  Yielders = {t2}
  Continuations = {FALSE}
  StackMisses = {FALSE}
  MaxRefs = 4
  NoThread = NoThread  Idle = Idle  NoEvent = NoEvent
  NoBucket = NoBucket  NoCaller = NoCaller
INVARIANTS TimerRefsCovered TimerNotSetTwice
PROPERTIES WokenRuns TimedWaitEnds
