CONSTANTS
  Header = 2
  ClientBytes = 6
  RemoteBytes = 3
SPECIFICATION Spec
CHECK_DEADLOCK FALSE
PROPERTY AlreadyRelayedStaysQueued
