\* Three connections, two events at a time; the server may answer, close or break
\* each one, SIGINT at any moment.  No symmetry: liveness.
CONSTANTS
  Conns = {1, 2, 3}
  WaitSize = 2
  NoConn = 0
SPECIFICATION FairClientSpec
INVARIANTS
  OneRequest
PROPERTIES
  RepliedOrCancelled
CHECK_DEADLOCK FALSE
