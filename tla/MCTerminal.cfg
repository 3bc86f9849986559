SPECIFICATION ServiceFairSpec
CONSTANTS
  Parts = {"terminal", "process"}
  Code = {zero, one}
  Unknown = Unknown
  MaxOut = 3
  Cap = 1
  None = None
  Conn = {x1, x2, x3}
INVARIANTS ExitComesLast ServedToTheEnd
PROPERTIES CloseEndsPump TerminalEnds SignalEnds
CHECK_DEADLOCK TRUE
