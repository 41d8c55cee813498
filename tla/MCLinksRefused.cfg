CONSTANTS
  Session = {s1, s2}
  WebTransport = {s2}
  Address = {a1}
  Passcode = {p1, p2}
  Port = {1}
  Family = {v4}
  TTL = 1
  MaxTime = 1
  MaxQueue = 1
SPECIFICATION Spec
CHECK_DEADLOCK FALSE
PROPERTY RefusalMeansAssignmentGone
