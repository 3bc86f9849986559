SPECIFICATION StoreSpec
CONSTANTS
  Parts = {"rows"}
  Client = {c1, c2}
  Name = {n1, n2}
  Cookie = {k1}
  MaxId = 2
  MaxPw = 2
  NoUser = NoUser
  NoName = NoName
  Process = {daemon, cli, old}
  old = old
  Embedded <- Versions
  Nobody = Nobody
  MaxFaults = 2
PROPERTY AdminRemains
CHECK_DEADLOCK TRUE
