\* Two windows: what the lock of the atomic database promises.
CONSTANTS
  Windows = {w1, w2}
  TicketNum = 2
  Main = Main
  NoThread = NoThread
SPECIFICATION Spec
INVARIANTS
  MutualExclusion
CHECK_DEADLOCK FALSE
