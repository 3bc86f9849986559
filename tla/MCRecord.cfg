SPECIFICATION StateFairSpec
CONSTANTS
  Parts = {"record"}
  Caller = {c1, c2}
  NoCaller = NoCaller
  MaxBoots = 3
  Client = {r1, r2}
  Job = {j1, j2}
  Dir = {root}
  Root = root
  NoDir = NoDir
  NoJob = NoJob
INVARIANT ResidueFromOverlap
PROPERTY JobsOfGoneEnd
CHECK_DEADLOCK TRUE
