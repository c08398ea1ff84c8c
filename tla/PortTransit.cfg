SPECIFICATION FairSpec
CONSTANTS
  t1 = t1  t2 = t2  t3 = t3  p1 = p1  p2 = p2  p3 = p3  None = None
  Threads = {t1, t2, t3}
  Ports = {p1, p2, p3}
  MaxMoves = 1
INVARIANTS NoCircle TouchesLive
PROPERTIES ChecksEnd
\* All ports may be dead in the end.
CHECK_DEADLOCK FALSE
