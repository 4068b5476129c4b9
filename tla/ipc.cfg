\* Two runs of msgSend with two children each on a queue of two messages; two
\* servers and two clients of the shared memory and of the FIFO; three runs of
\* the semaphore demo; three commands on the record file.  No symmetry: liveness.
CONSTANTS
  Runs = {r1, r2}
  Children = 2
  Messages = 2
  QMax = 2
  ShmServers = {s1, s2}
  ShmClients = {c1, c2}
  SemRuns = {r1, r2, r3}
  FifoServers = {s1, s2}
  FifoClients = {c1, c2}
  Cmds = {p1, p2, p3}
  SheetIndex = {1, 2}
SPECIFICATION FairSpec
INVARIANTS
  ExitIsLast
  ArrivedIsWritten
  RecordsKept
PROPERTIES
  MessagesEnd
  SemRunEnds
  NobodyWaitsForTheDead
CHECK_DEADLOCK FALSE
