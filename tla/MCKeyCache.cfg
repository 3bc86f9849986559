SPECIFICATION Spec
CONSTANTS
  Caller = {c1, c2}
  Admin = {a1}
  Key = {k1}
  Bogus = {b1}
  TTL = 1
  TouchInterval = 2
  MaxEntries = 1
  MaxNow = 2
  NoToken = NoToken
  NoEntry = NoEntry
  NoChange = NoChange
SYMMETRY Symmetry
INVARIANTS AcceptBounded CacheBounded
CHECK_DEADLOCK TRUE
