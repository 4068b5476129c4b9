\* Three windows and three tickets: two may sleep when the tickets come, and
\* the tickets may be gone before the last window wakes.
CONSTANTS
  Windows = {w1, w2, w3}
  TicketNum = 3
  Main = Main
  NoThread = NoThread
SPECIFICATION FairSpec
INVARIANTS
  TicketsConserved
  ReleaseSeen
PROPERTIES
  SaleEnds
CHECK_DEADLOCK FALSE
