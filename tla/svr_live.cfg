\* Two clients compete for a single descriptor number: accept fails for want
\* of one, and the second client is served when the first is closed.  No
\* symmetry: liveness.
CONSTANTS
  Conns = {c1, c2}
  FDs = {1}
  Workers = {w1}
  MaxEvents = 1
  Departures = {"fin", "reset"}
  NoConn = NoConn
  NoTask = NoTask
SPECIFICATION FairSpec
PROPERTIES
  RequestAnswered
  StopReturns
CHECK_DEADLOCK FALSE
