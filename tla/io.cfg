\* Two clients, two descriptor numbers, each of the three workers, SIGINT at any
\* moment; no symmetry: liveness.
CONSTANTS
  Conns = {11, 12}
  FDs = {1, 2}
  Departures = {"fin", "reset"}
  MaxEvents = 2
  Timeouts = {"refused", "short", "endless"}
  NoConn = 0
  NoJob = NoJob
SPECIFICATION FairSpec
INVARIANTS
  OwnDescriptor
  NoClientForgotten
PROPERTIES
  ImplementsService
  FinishedIsClosed
  ExitUnlessLocked
CHECK_DEADLOCK FALSE
