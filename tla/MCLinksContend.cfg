CONSTANTS
  Session = {s1, s2, s3}
  WebTransport = {s2, s3}
  Address = {a1}
  Passcode = {p1}
  Port = {1, 2}
  Family = {}
  TTL = 1
  MaxTime = 0
  MaxQueue = 2
SPECIFICATION Spec
SYMMETRY Symmetry
CHECK_DEADLOCK FALSE
INVARIANTS LeaseIsRouted OnlyOwnTraffic
