CONSTANTS
  Octet = {4, 6}
  V4Len = 1
  V6Len = 2
  MaxRecords = 4
  MaxFound = 6
SPECIFICATION Spec
CHECK_DEADLOCK FALSE
INVARIANTS TypeOK ReplyIsTheBest
