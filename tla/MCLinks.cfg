CONSTANTS
  Session = {s1, s2}
  WebTransport = {s2}
  Address = {a1}
  Passcode = {p1, p2}
  Port = {0, 1, 2}
  Family = {v4}
  TTL = 1
  MaxTime = 2
  MaxQueue = 1
SPECIFICATION FairSpec
CHECK_DEADLOCK FALSE
INVARIANTS TypeOK LeasesAreHandlers SessionsRegistered LinkHasItsTask RelayKeptForRetry
PROPERTIES  EndedReleases
