SPECIFICATION Spec
CONSTANTS
  s1 = s1  s2 = s2  s3 = s3  r1 = r1  r2 = r2  r3 = r3  o1 = o1
  p1 = p1  p2 = p2  ps = ps  None = None
  Senders = {s1, s2}
  Receivers = {r1}
  Owners = {o1}
  Ports = {p1}
  Sets = {}
  Serves <- MCServes
  Small = {}
  Timed = {}
  Always = {}
  Big = {}
  DefaultLimit = 1
  Limits = {2}
  Wrap = 8
  MaxSends = 1
  MaxOps = 1
INVARIANTS SlotsAccounted
\* The threads may all be waiting, with nothing left to send.
CHECK_DEADLOCK FALSE
