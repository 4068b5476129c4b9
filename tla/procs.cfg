\* tcpSvr: three clients and room for two children or, at times, fewer: fork
\* fails, two children exit behind one signal, and the handler that reaps one
\* child waits for another while the third client waits in the backlog.  At
\* times there is room for no child at all: after two failed forks both
\* descriptors of the parent are taken for good, and accept fails for the
\* third client.
\* tcpClient: four clients to start and room for three to five processes, so
\* that either fork may fail at any depth.  No symmetry: liveness.
CONSTANTS
  Conns = {c1, c2, c3}
  MaxProcs = 2
  OtherProcs = 2
  MaxFiles = 2
  NoConn = NoConn
  ClientCount = 4
  ForkLimit = 5
  Foreign = 2
SPECIFICATION DemoFairSpec
INVARIANTS
  NoZombieForgotten
  HandedOver
  ChildrenReaped
  ClientsCounted
PROPERTIES
  RequestAnswered
  BacklogMoves
  ProgramEnds
CHECK_DEADLOCK FALSE
