SPECIFICATION CommandsFairSpec
CONSTANTS
  Parts = {"jobs", "panel"}
  Job = {j1}
  box = box
  Sandbox = {box}
  SandboxOf <- MCSandboxOf
  Caller = {c1, c2}
  NoJob = NoJob
  Click = {k1}
  Rest = {a1}
  Byte = {a}
  RingCap = 1
  MaxWrite = 2
  MaxTotal = 3
PROPERTIES CancelReleases CallsReturn ClickEndsStream
