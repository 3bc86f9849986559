SPECIFICATION Spec
CONSTANTS
  Ticket = {t1, t2}
  Sandbox = {box1, box2}
  Handshake = {h1, h2, h3}
  None = None
  TTL = 1
  MaxTime = 3
SYMMETRY TicketSymmetry
INVARIANT OnlyRecent
PROPERTY KeepsPromise
CHECK_DEADLOCK TRUE
