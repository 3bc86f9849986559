SPECIFICATION CommandsSpec
CONSTANTS
  Parts = {"jobs", "panel", "buffer"}
  Job = {j1, j2}
  box = box
  Sandbox = {box}
  SandboxOf <- MCSandboxOf
  Caller = {c1, c2}
  NoJob = NoJob
  Click = {k1, k2}
  Rest = {a1}
  Byte = {a, b}
  RingCap = 3
  MaxWrite = 4
  MaxTotal = 9
SYMMETRY Symmetry
INVARIANTS ExclusiveHandle KillAfterCancel OutcomeRecorded NoOrphanStream CancelOutcome KillShown RingFaithful
PROPERTY LifecycleSpec
