CONSTANTS
  Base = 2
  Magic <- MCMagic
  AddressLen = 3
  Mapped <- MCMapped
  Prefix <- MCPrefix
  LowLen = 2
  Reserved = 2
  Client = {c1, c2}
  BoundPort = {1, 2}
  MaxDatagram = 2
  MaxRaw = 12
SPECIFICATION Spec
CHECK_DEADLOCK FALSE
INVARIANTS TypeOK OnlyFramesAreAccepted EchoIsIdentity NetworkIsClosed
