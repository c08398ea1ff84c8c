SPECIFICATION Spec
CONSTANTS
  t1 = t1  t2 = t2  t3 = t3
  w1 = w1  w2 = w2  w3 = w3
  b1 = b1  b2 = b2  e1 = e1  e2 = e2
  Threads = {t1, t2, t3}
  Cpus = {p1, p2}
  Callers = {c1}
  Events = {e1, e2}
  WakeEvent <- MCWakeEvent
  Buckets = {b1, b2}
  BucketOf <- OneBucket
  Sleepers = {t1, t2}
  TimedSleepers = {}
  Privileged = {t2}
  Stoppers = {t1}
  StopTargets = {t2}
  AbortTargets = {t1}
  ClearTargets = {t1}
  ClearModes = {TRUE, FALSE}
  WaitModes = {"unint", "int"}
  Yielders = {t1, t2, t3}
  Continuations = {TRUE, FALSE}
  StackMisses = {TRUE, FALSE}
  MaxRefs = 0
  NoThread = NoThread  Idle = Idle  NoEvent = NoEvent
  NoBucket = NoBucket  NoCaller = NoCaller
SYMMETRY CpuSymmetry
INVARIANTS ThreadInOnePlace WaitStateConsistent WaitQueuesConsistent SelectedIsRunnable AbortNotLost
PROPERTIES EventWaitSpec
