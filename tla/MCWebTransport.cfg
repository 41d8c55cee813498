CONSTANTS
  Newline = Newline
  PING = PING
  BIND = BIND
  PROXY = PROXY
  MaxScript = 6
  MaxLine = 2
  MaxBuffer = 3
  MaxRelay = 2
SPECIFICATION FairSpec
CHECK_DEADLOCK FALSE
INVARIANTS TypeOK CutsDoNotMatter StreamIsResponsesThenData
PROPERTY AllIsWorkedOff
