CONSTANTS
  Address = {a1, a2, a3}
  Passcode = {p1, p2, p3}
  Relay = {r1, r2}
  Port = {0, 1, 2}
  TTL = 2
  MaxTime = 4
SPECIFICATION Spec
SYMMETRY Symmetry
INVARIANTS TypeOK TablesAgree RoutesMatchHandlers BindsCounted
PROPERTIES HolderKeepsAddress ImplementsAddressBook
