---------------------------- MODULE TicketOffice ----------------------------
(***************************************************************************)
(* 4/threadDemo: the ticket database, the TicketWindow threads that sell   *)
(* from it and the main thread that puts the tickets in and ends the sale. *)
(* The lock of the database is an exclusive one, as in MutexTicketDB and   *)
(* SpinTicketDB; RWLockTicketDB behaves the same here, because queryTicket *)
(* is only called with m_mutexCond held and so never has two readers.      *)
(* AtomicTicketDB, whose lock may fail, is not covered.                    *)
(***************************************************************************)
EXTENDS Integers, FiniteSets, Functions

CONSTANTS
  Windows,    \* the TicketWindow threads
  TicketNum,  \* what main passes to addTicket
  Main,       \* the main thread
  NoThread    \* a free lock

ASSUME TicketNumAssumption == TicketNum \in Nat \ {0}
ASSUME WindowsAssumption ==
  IsFiniteSet(Windows) /\ Main \notin Windows /\ NoThread \notin Windows \union {Main}

VARIABLES
  m_ticketCount,
  m_mutex,        \* the holder of the database's own lock
  m_mutexCond,    \* the holder of the lock of the condition variable
  m_cond,         \* the windows asleep on the condition variable
  m_askForExit,   \* the windows whose flag is set
  pc,             \* where each window stands in run
  seen,           \* the m_ticketCount each window read in buyTicket
  sold,           \* how many tickets each window sold
  mainPc          \* where main stands

locks == <<m_mutex, m_mutexCond, m_cond>>
sales == <<m_ticketCount, seen, sold>>
vars == <<locks, sales, m_askForExit, pc, mainPc>>

Init ==
  /\ m_ticketCount = 0
  /\ m_mutex = NoThread /\ m_mutexCond = NoThread /\ m_cond = {}
  /\ m_askForExit = {}
  /\ pc = [w \in Windows |-> "enter"]
  /\ seen = [w \in Windows |-> 0]
  /\ sold = [w \in Windows |-> 0]
  /\ mainPc = "countdown"

Goto(w, label) == pc' = [pc EXCEPT ![w] = label]

-----------------------------------------------------------------------------
(* Faulty variants: definitions of the sections below with one programming  *)
(* error each.  Spec uses none of them; PROJECT.json pairs each one with    *)
(* the property that rejects it.                                            *)

(* buyTicket without the lock of the database. *)
ReadCountUnlocked(w) ==
  /\ pc[w] = "buy"
  /\ seen' = [seen EXCEPT ![w] = m_ticketCount]
  /\ Goto(w, "update")
  /\ UNCHANGED <<locks, m_ticketCount, sold, m_askForExit, mainPc>>

(* pthread_cond_signal in place of pthread_cond_broadcast. *)
SignalOne ==
  \/ m_cond = {} /\ UNCHANGED m_cond
  \/ \E w \in m_cond : m_cond' = m_cond \ {w}

(* A window that does not look at its flag. *)
NeverLeave(w) ==
  /\ pc[w] = "loop"
  /\ Goto(w, "buy")
  /\ UNCHANGED <<locks, sales, m_askForExit, mainPc>>

-----------------------------------------------------------------------------
(* TicketWindow::run, first TicketDB::waitPutTicket.                        *)

EnterWait(w) ==
  /\ pc[w] = "enter"
  /\ m_mutexCond = NoThread
  /\ m_mutexCond' = w
  /\ Goto(w, "query")
  /\ UNCHANGED <<m_mutex, m_cond, sales, m_askForExit, mainPc>>

(* queryTicket takes and releases the lock of the database; with tickets    *)
(* there waitPutTicket returns and releases m_mutexCond.                    *)
QueryTicket(w) ==
  /\ pc[w] = "query"
  /\ m_mutex = NoThread
  /\ m_mutexCond' = IF m_ticketCount <= 0 THEN w ELSE NoThread
  /\ Goto(w, IF m_ticketCount <= 0 THEN "wait" ELSE "loop")
  /\ UNCHANGED <<m_mutex, m_cond, sales, m_askForExit, mainPc>>

(* pthread_cond_wait releases m_mutexCond and falls asleep in one step. *)
WaitCond(w) ==
  /\ pc[w] = "wait"
  /\ m_cond' = m_cond \union {w}
  /\ m_mutexCond' = NoThread
  /\ Goto(w, "asleep")
  /\ UNCHANGED <<m_mutex, sales, m_askForExit, mainPc>>

WakeSpuriously(w) ==
  /\ w \in m_cond
  /\ m_cond' = m_cond \ {w}
  /\ UNCHANGED <<m_mutex, m_mutexCond, sales, m_askForExit, pc, mainPc>>

(* It returns with m_mutexCond held, and the while condition is tested.     *)
WakeUp(w) ==
  /\ pc[w] = "asleep" /\ w \notin m_cond
  /\ m_mutexCond = NoThread
  /\ m_mutexCond' = w
  /\ Goto(w, "query")
  /\ UNCHANGED <<m_mutex, m_cond, sales, m_askForExit, mainPc>>

(* The selling loop: leave when asked to, else buy one ticket. *)
TestExit(w) ==
  /\ pc[w] = "loop"
  /\ Goto(w, IF w \in m_askForExit THEN "exited" ELSE "buy")
  /\ UNCHANGED <<locks, sales, m_askForExit, mainPc>>

(* buyTicket(windowID, 1) reads and writes m_ticketCount under the lock.    *)
ReadCount(w) ==
  /\ pc[w] = "buy"
  /\ m_mutex = NoThread
  /\ m_mutex' = w
  /\ seen' = [seen EXCEPT ![w] = m_ticketCount]
  /\ Goto(w, "update")
  /\ UNCHANGED <<m_mutexCond, m_cond, m_ticketCount, sold, m_askForExit, mainPc>>

UpdateCount(w) ==
  /\ pc[w] = "update"
  /\ IF 1 <= seen[w]
       THEN /\ m_ticketCount' = seen[w] - 1
            /\ sold' = [sold EXCEPT ![w] = @ + 1]
       ELSE UNCHANGED <<m_ticketCount, sold>>
  /\ m_mutex' = IF m_mutex = w THEN NoThread ELSE m_mutex
  /\ Goto(w, "loop")
  /\ UNCHANGED <<m_mutexCond, m_cond, seen, m_askForExit, mainPc>>

WindowStep(w) ==
  \/ EnterWait(w) \/ QueryTicket(w) \/ WaitCond(w) \/ WakeUp(w)
  \/ TestExit(w) \/ ReadCount(w) \/ UpdateCount(w)

-----------------------------------------------------------------------------
(* The main thread.                                                         *)

(* addTicket of the database: its own lock, and the tickets. *)
PutTickets ==
  /\ mainPc = "countdown"
  /\ m_mutex = NoThread
  /\ m_mutex' = Main
  /\ m_ticketCount' = m_ticketCount + TicketNum
  /\ mainPc' = "notify"
  /\ UNCHANGED <<m_mutexCond, m_cond, seen, sold, m_askForExit, pc>>

Broadcast == m_cond' = {}

(* TicketDB::addTicket, called with the lock of the database still held,    *)
(* takes m_mutexCond and wakes every window; then both are released.        *)
NotifyWindows ==
  /\ mainPc = "notify"
  /\ m_mutexCond = NoThread
  /\ Broadcast
  /\ m_mutex' = NoThread
  /\ mainPc' = "selling"
  /\ UNCHANGED <<m_mutexCond, sales, m_askForExit, pc>>

AskForExit(w) ==
  /\ mainPc = "selling"
  /\ w \notin m_askForExit
  /\ m_askForExit' = m_askForExit \union {w}
  /\ mainPc' = IF m_askForExit' = Windows THEN "joining" ELSE "selling"
  /\ UNCHANGED <<locks, sales, pc>>

JoinWindows ==
  /\ mainPc = "joining"
  /\ \A w \in Windows : pc[w] = "exited"
  /\ mainPc' = "done"
  /\ UNCHANGED <<locks, sales, m_askForExit, pc>>

MainStep == PutTickets \/ NotifyWindows \/ (\E w \in Windows : AskForExit(w)) \/ JoinWindows

Next ==
  \/ \E w \in Windows : WindowStep(w) \/ WakeSpuriously(w)
  \/ MainStep

Spec == Init /\ [][Next]_vars

(* Every thread that can run does; nobody has to wake spuriously. *)
FairSpec == Spec /\ WF_vars(MainStep) /\ \A w \in Windows : WF_vars(WindowStep(w))

-----------------------------------------------------------------------------
(* No ticket is lost and none is sold twice: what the windows sold and what *)
(* the database still counts add up to what main put in, at every moment,   *)
(* and what is not there is never sold.                                     *)
TicketsConserved ==
  /\ m_ticketCount >= 0
  /\ m_ticketCount + SumFunction(sold) = IF mainPc = "countdown" THEN 0 ELSE TicketNum

(* "Only after thread A has completed something does thread B go on": no    *)
(* window is past waitPutTicket before addTicket has put tickets in and     *)
(* woken the windows.                                                       *)
NoSaleBeforeRelease ==
  mainPc \in {"countdown", "notify"} =>
    \A w \in Windows : pc[w] \in {"enter", "query", "wait", "asleep"}

(* The one broadcast of the program is not lost: once it has happened, a    *)
(* window sleeps, or is about to, only when everything is sold.             *)
NoLostBroadcast ==
  /\ mainPc \notin {"countdown", "notify"}
  /\ m_cond # {} \/ \E w \in Windows : pc[w] = "wait"
  => m_ticketCount = 0

(* So the condition variable holds every window until the release and none  *)
(* behind it, although a window may come late, wake without a reason or     *)
(* stand between its test and its sleep when the broadcast goes out.        *)
ReleaseSeen == NoSaleBeforeRelease /\ NoLostBroadcast

(* The sale ends: main's joins return, unless a window came to              *)
(* waitPutTicket when everything was sold, where it waits for ever.         *)
SaleEnds ==
  mainPc = "joining" ~>
    \/ mainPc = "done"
    \/ m_ticketCount = 0 /\ \E w \in Windows : pc[w] \in {"enter", "query", "wait", "asleep"}

(* "Only after thread A has completed something does thread B go on": the   *)
(* completion itself always comes, once main has begun addTicket.           *)
AddTicketCompletes == mainPc = "notify" ~> mainPc = "selling"
=============================================================================
