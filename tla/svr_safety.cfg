\* Two clients, two workers, two descriptors.
CONSTANTS
  Conns = {c1, c2}
  FDs = {1, 2}
  Workers = {w1, w2}
  MaxEvents = 2
  Departures = {"fin", "reset"}
  NoConn = NoConn
  NoTask = NoTask
SPECIFICATION Spec
SYMMETRY Symmetry
INVARIANTS
  OneAttendant
  NoClientLost
  OwnDescriptor
  NoUseAfterDelete
  ReplyFollowsRequest
CHECK_DEADLOCK FALSE
