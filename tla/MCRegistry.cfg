SPECIFICATION StateFairSpec
CONSTANTS
  Parts = {"handle"}
  Caller = {c1, c2}
  NoCaller = NoCaller
  MaxBoots = 3
  Client = {r1, r2}
  Job = {j1, j2}
  Dir = {root}
  Root = root
  NoDir = NoDir
  NoJob = NoJob
INVARIANTS NoDeadHandle StuckOnlyByCreate
PROPERTY RequestsReturn
CHECK_DEADLOCK TRUE
