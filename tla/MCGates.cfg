SPECIFICATION GatesFairSpec
CONSTANTS
  Parts = {"api", "dashboard"}
  Caller = {c1, c2}
  Admin = {a1}
  Key = {k1}
  TTL = 1
  MaxNow = 2
  NoCaller = NoCaller
  NoKey = NoKey
  Visitor = {v1, v2}
  DashAdmin = {d1}
  DashTTL = 1
  Nobody = Nobody
  APIKey = FALSE
  Basic = FALSE
  MaxUsers = 1
  DashMaxNow = 1
INVARIANTS OpenBounded ClosedAtOnce DashGuarded
PROPERTY GatePasses
CHECK_DEADLOCK TRUE
