SPECIFICATION CreationFairSpec
CONSTANTS
  Parts = {"pulls"}
  Req = {r1, r2}
  Puller = {p1}
  Name = {n1, n2, n3, n4}
  Max = 1
  MaxPulled = 1
  NoReq = NoReq
  NoName = NoName
  U8 = 4
  U16 = 7
  U32 = 7
  I64 = 38
  Mib = 2
  Nanos = 3
  Asked <- Numbers
  Panel = {w1}
  Api = {a1}
  Digest = {1, 2}
INVARIANTS ReportsRegistry NoBoxLeft
PROPERTY PullAnswered
CHECK_DEADLOCK TRUE
