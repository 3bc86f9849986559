SPECIFICATION StoreSpec
CONSTANTS
  Parts = {"rows", "schema"}
  Client = {c1, c2}
  Name = {n1, n2}
  Cookie = {k1, k2}
  MaxId = 3
  MaxPw = 3
  NoUser = NoUser
  NoName = NoName
  Process = {daemon, cli, old}
  old = old
  Embedded <- Versions
  Nobody = Nobody
  MaxFaults = 2
SYMMETRY Symmetry
INVARIANTS LoginSessionsOwn SchemaSound
PROPERTIES AdminLostInRaceOnly EvictedButForRaces
CHECK_DEADLOCK TRUE
