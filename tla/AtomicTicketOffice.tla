------------------------- MODULE AtomicTicketOffice -------------------------
(***************************************************************************)
(* The ticket office of 4/threadDemo over AtomicTicketDB, whose lock is a  *)
(* std::atomic_bool driven by AtomicLocker.  Every compare_exchange_strong *)
(* is one step: it either stores the new value or overwrites the expected  *)
(* value of its locker, m_now, with what it found.                         *)
(*                                                                         *)
(* What the windows and main do is as in TicketOffice; only the lock of    *)
(* the database differs.  Windows give up when their one exchange fails,   *)
(* addTicket repeats it, and so does every destructor.                     *)
(***************************************************************************)
EXTENDS Integers, FiniteSets, Functions

CONSTANTS
  Windows,    \* the TicketWindow threads
  TicketNum,  \* what main passes to addTicket
  Main,       \* the main thread
  NoThread    \* m_mutexCond is free

ASSUME TicketNumAssumption == TicketNum \in Nat \ {0}
ASSUME WindowsAssumption ==
  IsFiniteSet(Windows) /\ Main \notin Windows /\ NoThread \notin Windows \union {Main}

VARIABLES
  m_atomic,       \* AtomicTicketDB::m_atomic
  m_ticketCount,
  m_mutexCond,    \* the holder of the lock of the condition variable
  m_cond,         \* the windows asleep on the condition variable
  m_askForExit,   \* the windows whose flag is set
  m_now,          \* the expected value of the AtomicLocker of each thread
  pc,             \* where each thread stands
  seen,           \* the m_ticketCount each window read last for a query or a sale
  sold,           \* how many tickets each window sold
  intruded        \* addTicket entered over a lock that was taken

Threads == Windows \union {Main}
condVars == <<m_mutexCond, m_cond>>
sales == <<m_ticketCount, seen, sold>>
vars == <<m_atomic, condVars, m_askForExit, m_now, pc, sales, intruded>>

Init ==
  /\ m_atomic = FALSE
  /\ m_ticketCount = 0
  /\ m_mutexCond = NoThread /\ m_cond = {}
  /\ m_askForExit = {}
  /\ m_now = [t \in Threads |-> FALSE]
  /\ pc = [t \in Threads |-> IF t = Main THEN "lock" ELSE "enter"]
  /\ seen = [w \in Windows |-> 0]
  /\ sold = [w \in Windows |-> 0]
  /\ intruded = FALSE

Goto(t, label) == pc' = [pc EXCEPT ![t] = label]

(* m_pAtomic->compare_exchange_strong(m_now, val) by the locker of t.       *)
Exchange(t, val, done, failed) ==
  IF m_atomic = m_now[t]
    THEN m_atomic' = val /\ Goto(t, done) /\ UNCHANGED m_now
    ELSE m_now' = [m_now EXCEPT ![t] = m_atomic] /\ Goto(t, failed) /\ UNCHANGED m_atomic

-----------------------------------------------------------------------------
(* Faulty variants: definitions of the sections below with one programming  *)
(* error each.  Spec uses none of them; PROJECT.json pairs each one with    *)
(* the property that rejects it.                                            *)

(* buyTicket that goes on when tryLock has failed. *)
BuyTryLockIgnored(w) ==
  /\ pc[w] = "buy"
  /\ Exchange(w, TRUE, "test", "test")
  /\ UNCHANGED <<condVars, m_askForExit, sales, intruded>>

(* tryLock that sets m_lockUp only in its spinning branch, so that the      *)
(* destructor in buyTicket leaves the flag set.                             *)
UnlockForgotten(w) ==
  /\ pc[w] = "unlock"
  /\ Goto(w, "loop")
  /\ UNCHANGED <<m_atomic, m_now, condVars, m_askForExit, sales, intruded>>

-----------------------------------------------------------------------------
(* TicketWindow::run, first TicketDB::waitPutTicket.                        *)

(* Start a query with m_mutexCond held: a new locker expects FALSE.         *)
Query(w) ==
  /\ m_mutexCond = NoThread
  /\ m_mutexCond' = w
  /\ m_now' = [m_now EXCEPT ![w] = FALSE]
  /\ Goto(w, "query")
  /\ UNCHANGED <<m_atomic, m_cond, m_askForExit, sales, intruded>>

EnterWait(w) == pc[w] = "enter" /\ Query(w)
WakeUp(w) == pc[w] = "asleep" /\ w \notin m_cond /\ Query(w)

(* queryTicket returns -1 when its one exchange fails. *)
QueryTryLock(w) ==
  /\ pc[w] = "query"
  /\ Exchange(w, TRUE, "count", "wait")
  /\ UNCHANGED <<condVars, m_askForExit, sales, intruded>>

QueryCount(w) ==
  /\ pc[w] = "count"
  /\ seen' = [seen EXCEPT ![w] = m_ticketCount]
  /\ m_now' = [m_now EXCEPT ![w] = ~ @]
  /\ Goto(w, "queryUnlock")
  /\ UNCHANGED <<m_atomic, condVars, m_askForExit, m_ticketCount, sold, intruded>>

(* The destructor of the locker, and back in waitPutTicket. *)
QueryUnlock(w) ==
  /\ pc[w] = "queryUnlock"
  /\ Exchange(w, FALSE, IF seen[w] <= 0 THEN "wait" ELSE "loop", "queryUnlock")
  /\ m_mutexCond' = IF pc'[w] = "loop" THEN NoThread ELSE m_mutexCond
  /\ UNCHANGED <<m_cond, m_askForExit, sales, intruded>>

WaitCond(w) ==
  /\ pc[w] = "wait"
  /\ m_cond' = m_cond \union {w}
  /\ m_mutexCond' = NoThread
  /\ Goto(w, "asleep")
  /\ UNCHANGED <<m_atomic, m_now, m_askForExit, sales, intruded>>

WakeSpuriously(w) ==
  /\ w \in m_cond
  /\ m_cond' = m_cond \ {w}
  /\ UNCHANGED <<m_atomic, m_now, m_mutexCond, m_askForExit, pc, sales, intruded>>

TestExit(w) ==
  /\ pc[w] = "loop"
  /\ m_now' = [m_now EXCEPT ![w] = FALSE]
  /\ Goto(w, IF w \in m_askForExit THEN "exited" ELSE "buy")
  /\ UNCHANGED <<m_atomic, condVars, m_askForExit, sales, intruded>>

(* buyTicket returns at once when its one exchange fails. *)
BuyTryLock(w) ==
  /\ pc[w] = "buy"
  /\ Exchange(w, TRUE, "test", "loop")
  /\ UNCHANGED <<condVars, m_askForExit, sales, intruded>>

(* The critical section of buyTicket reads the plain m_ticketCount for its  *)
(* test, reads it again to subtract, and writes it back.  A build that      *)
(* subtracts from the value of the test reads it again at once.             *)
TestCount(w) ==
  /\ pc[w] = "test"
  /\ IF 1 <= m_ticketCount
       THEN Goto(w, "load") /\ UNCHANGED m_now
       ELSE Goto(w, "unlock") /\ m_now' = [m_now EXCEPT ![w] = ~ @]
  /\ UNCHANGED <<m_atomic, condVars, m_askForExit, sales, intruded>>

LoadCount(w) ==
  /\ pc[w] = "load"
  /\ seen' = [seen EXCEPT ![w] = m_ticketCount]
  /\ Goto(w, "store")
  /\ UNCHANGED <<m_atomic, m_now, condVars, m_askForExit, m_ticketCount, sold, intruded>>

StoreCount(w) ==
  /\ pc[w] = "store"
  /\ m_ticketCount' = seen[w] - 1
  /\ sold' = [sold EXCEPT ![w] = @ + 1]
  /\ m_now' = [m_now EXCEPT ![w] = ~ @]
  /\ Goto(w, "unlock")
  /\ UNCHANGED <<m_atomic, condVars, m_askForExit, seen, intruded>>

BuyUnlock(w) ==
  /\ pc[w] = "unlock"
  /\ Exchange(w, FALSE, "loop", "unlock")
  /\ UNCHANGED <<condVars, m_askForExit, sales, intruded>>

WindowStep(w) ==
  \/ EnterWait(w) \/ WakeUp(w) \/ QueryTryLock(w) \/ QueryCount(w) \/ QueryUnlock(w)
  \/ WaitCond(w) \/ TestExit(w) \/ BuyTryLock(w) \/ TestCount(w) \/ LoadCount(w)
  \/ StoreCount(w) \/ BuyUnlock(w)

-----------------------------------------------------------------------------
(* The main thread.                                                         *)

(* addTicket spins.  A failed exchange has overwritten the expected value,  *)
(* so the next one may "succeed" on a flag that another thread has set.     *)
SpinLock ==
  /\ pc[Main] = "lock"
  /\ Exchange(Main, TRUE, "put", "lock")
  /\ intruded' = (intruded \/ (m_atomic /\ m_now[Main]))
  /\ UNCHANGED <<condVars, m_askForExit, sales>>

(* One step, although += reads and writes: before it there is no ticket, so *)
(* no window gets past its test to write the count.                         *)
PutTickets ==
  /\ pc[Main] = "put"
  /\ m_ticketCount' = m_ticketCount + TicketNum
  /\ Goto(Main, "notify")
  /\ UNCHANGED <<m_atomic, m_now, condVars, m_askForExit, seen, sold, intruded>>

(* TicketDB::addTicket; then the destructor of the locker begins. *)
NotifyWindows ==
  /\ pc[Main] = "notify"
  /\ m_mutexCond = NoThread
  /\ m_cond' = {}
  /\ m_now' = [m_now EXCEPT ![Main] = ~ @]
  /\ Goto(Main, "unlock")
  /\ UNCHANGED <<m_atomic, m_mutexCond, m_askForExit, sales, intruded>>

SpinUnlock ==
  /\ pc[Main] = "unlock"
  /\ Exchange(Main, FALSE, "selling", "unlock")
  /\ UNCHANGED <<condVars, m_askForExit, sales, intruded>>

AskForExit(w) ==
  /\ pc[Main] = "selling"
  /\ w \notin m_askForExit
  /\ m_askForExit' = m_askForExit \union {w}
  /\ Goto(Main, IF m_askForExit' = Windows THEN "joining" ELSE "selling")
  /\ UNCHANGED <<m_atomic, m_now, condVars, sales, intruded>>

JoinWindows ==
  /\ pc[Main] = "joining"
  /\ \A w \in Windows : pc[w] = "exited"
  /\ Goto(Main, "exited")
  /\ UNCHANGED <<m_atomic, m_now, condVars, m_askForExit, sales, intruded>>

MainStep ==
  \/ SpinLock \/ PutTickets \/ NotifyWindows \/ SpinUnlock
  \/ (\E w \in Windows : AskForExit(w)) \/ JoinWindows

Next ==
  \/ \E w \in Windows : WindowStep(w) \/ WakeSpuriously(w)
  \/ MainStep

Spec == Init /\ [][Next]_vars

-----------------------------------------------------------------------------
InSection(t) ==
  pc[t] \in {"count", "queryUnlock", "test", "load", "store", "unlock", "put", "notify"}

(* The atomic variable is a lock as long as addTicket has not entered over  *)
(* it: a thread gives up or waits while another is inside.                  *)
ExclusiveUnlessIntruded ==
  ~ intruded => \A t, u \in Threads : InSection(t) /\ InSection(u) => t = u

(* The flag does not stay set when everybody has left, however often the    *)
(* destructors released the lock of another thread.                         *)
FlagNotLeaked == m_atomic => \E t \in Threads : InSection(t)

(* An intrusion can sell a ticket twice, or one that is not there, which    *)
(* takes the count below zero, but it never loses one: at least as many are *)
(* sold as have left the database.  Without an intrusion just as many are,  *)
(* and no more than were put in.                                            *)
NoTicketLost ==
  LET put == IF pc[Main] \in {"lock", "put"} THEN 0 ELSE TicketNum
      gone == put - m_ticketCount
  IN  /\ 0 <= gone /\ gone <= SumFunction(sold)
      /\ ~ intruded => gone <= put /\ SumFunction(sold) = gone

(* "Atomic variable: the most primitive lock, and the principle of the      *)
(* mutex": two threads are never inside together.                           *)
MutualExclusion == \A t, u \in Threads : InSection(t) /\ InSection(u) => t = u
=============================================================================
