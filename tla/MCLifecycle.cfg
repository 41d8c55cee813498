CONSTANTS
  Session = {s1, s2}
  MaxServe = 3
SPECIFICATION FairSpec
CHECK_DEADLOCK FALSE
INVARIANTS TypeOK AllOrNothing OneListenerCutsNobody CertificatesAreShared
PROPERTIES EndsWithItsListeners
