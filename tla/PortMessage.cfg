SPECIFICATION FairSpec
CONSTANTS
  s1 = s1  s2 = s2  s3 = s3  r1 = r1  r2 = r2  r3 = r3  o1 = o1
  p1 = p1  p2 = p2  ps = ps  None = None
  Senders = {s1, s2, s3}
  Receivers = {r1, r2}
  Owners = {o1}
  Ports = {p1}
  Sets = {ps}
  Serves <- MCServes
  Small = {r2}
  Timed = {s2, r2}
  Always = {s3}
  Big = {s3}
  DefaultLimit = 2
  Limits = {1}
  Wrap = 8
  MaxSends = 1
  MaxOps = 2
INVARIANTS SlotsAccounted NobodyMissed
PROPERTIES ImplementsPortQueue BlockedSenderServed
\* The threads may all be waiting, with nothing left to send.
CHECK_DEADLOCK FALSE
