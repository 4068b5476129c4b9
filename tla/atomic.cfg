\* Three windows and two tickets: addTicket may enter over a window that
\* queries, and release the lock of one that buys while another one waits.
CONSTANTS
  Windows = {w1, w2, w3}
  TicketNum = 2
  Main = Main
  NoThread = NoThread
SPECIFICATION Spec
SYMMETRY Symmetry
INVARIANTS
  ExclusiveUnlessIntruded
  FlagNotLeaked
  NoTicketLost
CHECK_DEADLOCK FALSE
