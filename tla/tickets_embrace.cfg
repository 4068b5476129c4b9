\* One window and the main thread: the two locks are taken in opposite orders.
CONSTANTS
  Windows = {w1}
  TicketNum = 2
  Main = Main
  NoThread = NoThread
SPECIFICATION FairSpec
PROPERTIES
  AddTicketCompletes
CHECK_DEADLOCK FALSE
