\* One client that is connected and has sent nothing yet.
CONSTANTS
  Conns = {11}
  FDs = {1}
  Departures = {"fin", "reset"}
  NoConn = 0
SPECIFICATION Spec
INVARIANTS
  ClosedForReason
CHECK_DEADLOCK FALSE
