CONSTANTS
  Header = 2
  ClientBytes = 6
  RemoteBytes = 3
SPECIFICATION FairSpec
CHECK_DEADLOCK FALSE
INVARIANTS TypeOK DoneMeansAllRead
PROPERTIES ImplementsPipe SessionOverStopsTask RemoteCloseReachesClient
