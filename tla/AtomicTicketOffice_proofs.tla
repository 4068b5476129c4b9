--------------------- MODULE AtomicTicketOffice_proofs ---------------------
(***************************************************************************)
(* Proofs about AtomicTicketOffice, for every set of windows: how far the  *)
(* atomic variable is a lock.  Every step of a thread moves it into the    *)
(* section, out of it or on one side of it, and one lemma each says what   *)
(* such a step does to the invariant.                                      *)
(***************************************************************************)
EXTENDS AtomicTicketOffice, DataLemmas

Section == {"count", "queryUnlock", "test", "load", "store", "unlock", "put", "notify"}
Releasing == {"queryUnlock", "unlock"}
Labels == Section \union
  {"enter", "asleep", "query", "wait", "loop", "buy", "exited", "lock", "selling", "joining"}

TypeOK ==
  /\ m_atomic \in BOOLEAN
  /\ m_now \in [Threads -> BOOLEAN]
  /\ pc \in [Threads -> Labels]
  /\ intruded \in BOOLEAN

(* A window that is about to try expects the flag to be clear: only main,   *)
(* which repeats a failed exchange, may expect it to be set.                *)
TryInv == \A w \in Windows : pc[w] \in {"query", "buy"} => ~ m_now[w]

(* Without an intrusion a thread inside has set the flag, and it expects    *)
(* just the value that the exchange of its locker will find.                *)
FlagInv ==
  ~ intruded =>
    \A t \in Threads : InSection(t) => m_atomic /\ (m_now[t] <=> pc[t] \in Releasing)

IInv == TypeOK /\ TryInv /\ FlagInv /\ ExclusiveUnlessIntruded /\ FlagNotLeaked

(* Thread t moves to label l, and no other thread and no other locker does. *)
Moves(t, l) ==
  /\ pc' = [pc EXCEPT ![t] = l]
  /\ m_now' \in [Threads -> BOOLEAN]
  /\ \A u \in Threads \ {t} : m_now'[u] = m_now[u]

-----------------------------------------------------------------------------
(* Entering the section: over a clear flag, or as an intrusion.             *)
LEMMA Entering ==
  ASSUME IInv, NEW t \in Threads, NEW l \in Section \ Releasing, Moves(t, l),
         m_atomic' = TRUE, m_now' = m_now, intruded' \in BOOLEAN,
         intruded => intruded', ~ intruded' => ~ m_atomic /\ ~ m_now[t]
  PROVE  IInv'
<1> USE DEF IInv, Moves
<1>1. \A u \in Threads : pc'[u] = IF u = t THEN l ELSE pc[u]
  BY DEF TypeOK
<1>2. InSection(t)'
  BY <1>1 DEF InSection, Section, Releasing
<1>3. TypeOK'
  BY DEF TypeOK, Labels
<1>4. TryInv'
  BY <1>1 DEF TryInv, Section, Releasing, Threads
<1>5. ~ intruded' => \A u \in Threads : ~ InSection(u)
  BY DEF FlagInv
<1>6. FlagInv'
  BY <1>1, <1>5 DEF FlagInv, InSection
<1>7. ExclusiveUnlessIntruded'
  BY <1>1, <1>5 DEF ExclusiveUnlessIntruded, InSection
<1>8. FlagNotLeaked'
  BY <1>2 DEF FlagNotLeaked
<1> QED BY <1>3, <1>4, <1>6, <1>7, <1>8

(* Leaving it clears the flag.                                              *)
LEMMA Leaving ==
  ASSUME IInv, NEW t \in Threads, InSection(t), NEW l \in {"wait", "loop", "selling"},
         Moves(t, l), m_atomic' = FALSE, m_now' = m_now, intruded' = intruded
  PROVE  IInv'
<1> USE DEF IInv, Moves
<1>1. \A u \in Threads : pc'[u] = IF u = t THEN l ELSE pc[u]
  BY DEF TypeOK
<1>2. TypeOK'
  BY DEF TypeOK, Labels
<1>3. TryInv'
  BY <1>1 DEF TryInv, Threads
<1>4. ~ intruded => \A u \in Threads : ~ InSection(u)'
  BY <1>1 DEF ExclusiveUnlessIntruded, InSection
<1>5. FlagInv' /\ ExclusiveUnlessIntruded'
  BY <1>4 DEF FlagInv, ExclusiveUnlessIntruded
<1>6. FlagNotLeaked'
  BY DEF FlagNotLeaked
<1> QED BY <1>2, <1>3, <1>5, <1>6

(* Staying inside or outside leaves the flag alone.                         *)
LEMMA Staying ==
  ASSUME IInv, NEW t \in Threads, NEW l \in Labels, Moves(t, l),
         InSection(t) <=> l \in Section,
         m_atomic' = m_atomic, intruded' = intruded,
         t \in Windows /\ l \in {"query", "buy"} => ~ m_now'[t],
         ~ intruded /\ l \in Section => (m_now'[t] <=> l \in Releasing)
  PROVE  IInv'
<1> USE DEF IInv, Moves
<1>1. \A u \in Threads : pc'[u] = IF u = t THEN l ELSE pc[u]
  BY DEF TypeOK
<1>2. \A u \in Threads : InSection(u)' <=> InSection(u)
  BY <1>1 DEF InSection, Section
<1>3. TypeOK'
  BY DEF TypeOK
<1>4. TryInv'
  BY <1>1 DEF TryInv, Threads
<1>5. FlagInv'
  <2> SUFFICES ASSUME ~ intruded, NEW u \in Threads, InSection(u)
               PROVE  m_atomic /\ (m_now'[u] <=> pc'[u] \in Releasing)
    BY <1>2 DEF FlagInv
  <2>1. m_atomic
    BY DEF FlagInv
  <2>2. CASE u = t
    BY <1>1, <2>1, <2>2
  <2>3. CASE u # t
    BY <1>1, <2>1, <2>3 DEF FlagInv
  <2> QED BY <2>2, <2>3
<1>6. ExclusiveUnlessIntruded' /\ FlagNotLeaked'
  BY <1>2 DEF ExclusiveUnlessIntruded, FlagNotLeaked
<1> QED BY <1>3, <1>4, <1>5, <1>6

-----------------------------------------------------------------------------
(* The two outcomes of compare_exchange_strong.                             *)
LEMMA Exchanged ==
  ASSUME IInv, NEW t \in Threads, NEW val \in BOOLEAN, NEW done, NEW failed,
         Exchange(t, val, done, failed)
  PROVE  \/ /\ m_atomic <=> m_now[t]
            /\ Moves(t, done) /\ m_now' = m_now /\ m_atomic' = val
         \/ /\ m_now[t] <=> ~ m_atomic
            /\ Moves(t, failed) /\ m_atomic' = m_atomic
            /\ m_now' = [m_now EXCEPT ![t] = m_atomic]
  BY DEF Exchange, Goto, Moves, IInv, TypeOK

(* queryTicket and buyTicket try once.                                      *)
LEMMA TryStep ==
  ASSUME IInv, NEW w \in Windows, QueryTryLock(w) \/ BuyTryLock(w) PROVE IInv'
<1>0. w \in Threads
  BY DEF Threads
<1>1. PICK done \in {"count", "test"}, failed \in {"wait", "loop"} :
        Exchange(w, TRUE, done, failed)
  BY DEF QueryTryLock, BuyTryLock
<1>2. pc[w] \in {"query", "buy"} /\ intruded' = intruded /\ ~ m_now[w]
  BY DEF QueryTryLock, BuyTryLock, IInv, TryInv
<1>3. CASE (m_atomic <=> m_now[w]) /\ Moves(w, done) /\ m_now' = m_now /\ m_atomic' = TRUE
  <2>1. done \in Section \ Releasing /\ intruded' \in BOOLEAN
    BY <1>2 DEF Section, Releasing, IInv, TypeOK
  <2>2. ~ m_atomic /\ ~ m_now[w]
    BY <1>2, <1>3
  <2> QED BY <1>0, <1>2, <1>3, <2>1, <2>2, Entering
<1>4. CASE Moves(w, failed) /\ m_atomic' = m_atomic
  <2>1. failed \in Labels /\ failed \notin Section /\ failed \notin {"query", "buy"}
    BY DEF Labels, Section
  <2>2. ~ InSection(w)
    BY <1>2 DEF InSection
  <2> QED BY <1>0, <1>2, <1>4, <2>1, <2>2, Staying
<1> QED BY <1>0, <1>1, <1>3, <1>4, Exchanged

(* The destructor repeats its exchange until it succeeds; a failure means   *)
(* that another thread has cleared the flag, behind an intrusion.           *)
LEMMA ReleaseStep ==
  ASSUME IInv, NEW t \in Threads, pc[t] \in Releasing,
         NEW done \in {"wait", "loop", "selling"},
         Exchange(t, FALSE, done, pc[t]), intruded' = intruded
  PROVE  IInv'
<1>1. InSection(t) /\ pc[t] \in Section /\ pc[t] \in Labels
  BY DEF InSection, Releasing, Section, Labels
<1>2. CASE Moves(t, done) /\ m_now' = m_now /\ m_atomic' = FALSE
  BY <1>1, <1>2, Leaving
<1>3. CASE (m_now[t] <=> ~ m_atomic) /\ Moves(t, pc[t]) /\ m_atomic' = m_atomic
  <2>1. intruded
    BY <1>1, <1>3 DEF IInv, FlagInv
  <2>2. pc[t] \notin {"query", "buy"}
    BY DEF Releasing
  <2> QED BY <1>1, <1>3, <2>1, <2>2, Staying
<1> QED BY <1>2, <1>3, Exchanged

(* The last statement of a section turns the expected value around.         *)
LEMMA FlipStep ==
  ASSUME IInv, NEW t \in Threads, pc[t] \in Section \ Releasing, NEW l \in Releasing,
         m_now' = [m_now EXCEPT ![t] = ~ @], Goto(t, l),
         m_atomic' = m_atomic, intruded' = intruded
  PROVE  IInv'
<1>1. Moves(t, l) /\ (m_now'[t] <=> ~ m_now[t])
  BY DEF Moves, Goto, IInv, TypeOK
<1>2. InSection(t) /\ l \in Section /\ l \in Labels /\ l \notin {"query", "buy"}
  BY DEF InSection, Section, Releasing, Labels
<1>3. ~ intruded => m_now'[t]
  BY <1>1, <1>2 DEF IInv, FlagInv
<1> QED BY <1>1, <1>2, <1>3, Staying

(* A step that leaves every locker alone and stays inside, or outside.      *)
LEMMA QuietStep ==
  ASSUME IInv, NEW t \in Threads, NEW l \in Labels \ {"query", "buy"}, Goto(t, l),
         \/ pc[t] \in Section \ Releasing /\ l \in Section \ Releasing
         \/ pc[t] \notin Section /\ l \notin Section,
         m_now' = m_now, m_atomic' = m_atomic, intruded' = intruded
  PROVE  IInv'
<1>1. Moves(t, l)
  BY DEF Moves, Goto, IInv, TypeOK
<1>2. InSection(t) <=> pc[t] \in Section
  BY DEF InSection, Section
<1>3. ~ intruded /\ l \in Section => (m_now'[t] <=> l \in Releasing)
  BY <1>2 DEF IInv, FlagInv
<1> QED BY <1>1, <1>2, <1>3, Staying

(* A window outside starts its next call, with a new locker.                *)
LEMMA NewLocker ==
  ASSUME IInv, NEW w \in Windows, Query(w) \/ TestExit(w), pc[w] \in {"enter", "asleep", "loop"}
  PROVE  IInv'
<1>1. PICK l \in {"query", "exited", "buy"} : Goto(w, l)
  BY DEF Query, TestExit
<1>2. /\ m_now' = [m_now EXCEPT ![w] = FALSE]
      /\ m_atomic' = m_atomic /\ intruded' = intruded
  BY DEF Query, TestExit
<1>3. w \in Threads /\ Moves(w, l) /\ ~ m_now'[w]
  BY <1>1, <1>2 DEF Moves, Goto, IInv, TypeOK, Threads
<1>4. ~ InSection(w) /\ l \in Labels /\ l \notin Section
  BY DEF InSection, Section, Labels
<1> QED BY <1>2, <1>3, <1>4, Staying

-----------------------------------------------------------------------------
(* Every step of a window keeps the invariant.                              *)
LEMMA WindowInv ==
  ASSUME IInv, NEW w \in Windows, WindowStep(w) \/ WakeSpuriously(w) PROVE IInv'
<1>0. w \in Threads
  BY DEF Threads
<1>1. CASE EnterWait(w) \/ WakeUp(w) \/ TestExit(w)
  BY <1>1, NewLocker DEF EnterWait, WakeUp, TestExit
<1>2. CASE QueryTryLock(w) \/ BuyTryLock(w)
  BY <1>2, TryStep
<1>3. ASSUME pc[w] \in {"count", "test", "store"}, NEW l \in Releasing, Goto(w, l),
             m_now' = [m_now EXCEPT ![w] = ~ @], m_atomic' = m_atomic, intruded' = intruded
      PROVE  IInv'
  <2>1. pc[w] \in Section \ Releasing
    BY <1>3 DEF Section, Releasing
  <2> QED BY <1>0, <1>3, <2>1, FlipStep
<1>4. CASE QueryUnlock(w) \/ BuyUnlock(w)
  <2>1. PICK done \in {"wait", "loop", "selling"} : Exchange(w, FALSE, done, pc[w])
    BY <1>4 DEF QueryUnlock, BuyUnlock
  <2>2. pc[w] \in Releasing /\ intruded' = intruded
    BY <1>4 DEF QueryUnlock, BuyUnlock, Releasing
  <2> QED BY <1>0, <2>1, <2>2, ReleaseStep
<1>5. ASSUME NEW l \in Labels, Goto(w, l),
             \/ pc[w] = "wait" /\ l = "asleep"
             \/ pc[w] = "test" /\ l = "load"
             \/ pc[w] = "load" /\ l = "store",
             m_now' = m_now, m_atomic' = m_atomic, intruded' = intruded
      PROVE  IInv'
  <2>1. /\ l \in Labels \ {"query", "buy"}
        /\ \/ pc[w] \in Section \ Releasing /\ l \in Section \ Releasing
           \/ pc[w] \notin Section /\ l \notin Section
    BY <1>5 DEF Section, Releasing
  <2> QED BY <1>0, <1>5, <2>1, QuietStep
<1>6. CASE QueryCount(w) \/ StoreCount(w)
  BY <1>3, <1>6 DEF QueryCount, StoreCount, Releasing
<1>7. CASE TestCount(w)
  <2>1. CASE 1 <= m_ticketCount
    BY <1>5, <1>7, <2>1 DEF TestCount, Labels, Section
  <2>2. CASE ~ (1 <= m_ticketCount)
    BY <1>3, <1>7, <2>2 DEF TestCount, Releasing
  <2> QED BY <2>1, <2>2
<1>8. CASE WaitCond(w) \/ LoadCount(w)
  BY <1>5, <1>8 DEF WaitCond, LoadCount, Labels, Section
<1>9. CASE WakeSpuriously(w)
  BY <1>9 DEF WakeSpuriously, IInv, TypeOK, TryInv, FlagInv, ExclusiveUnlessIntruded,
     FlagNotLeaked, InSection
<1> QED BY <1>1, <1>2, <1>4, <1>6, <1>7, <1>8, <1>9 DEF WindowStep

(* addTicket spins with the expected value that the last failure left.      *)
LEMMA SpinStep == ASSUME IInv, SpinLock PROVE IInv'
<1>0. Main \in Threads /\ pc[Main] = "lock" /\ Exchange(Main, TRUE, "put", "lock")
  BY DEF Threads, SpinLock
<1>1. intruded' = (intruded \/ (m_atomic /\ m_now[Main]))
  BY DEF SpinLock
<1>2. intruded' \in BOOLEAN
  BY <1>1
<1>3. CASE (m_atomic <=> m_now[Main]) /\ Moves(Main, "put") /\ m_now' = m_now /\ m_atomic' = TRUE
  <2>1. "put" \in Section \ Releasing
    BY DEF Section, Releasing
  <2>2. /\ intruded => intruded'
        /\ ~ intruded' => ~ m_atomic /\ ~ m_now[Main]
    BY <1>1, <1>3
  <2> QED BY <1>0, <1>2, <1>3, <2>1, <2>2, Entering
<1>4. CASE (m_now[Main] <=> ~ m_atomic) /\ Moves(Main, "lock") /\ m_atomic' = m_atomic
  <2>1. intruded' = intruded
    BY <1>1, <1>4 DEF IInv, TypeOK
  <2>2. ~ InSection(Main) /\ "lock" \in Labels /\ "lock" \notin Section
    BY <1>0 DEF InSection, Labels, Section
  <2> QED BY <1>0, <1>4, <2>1, <2>2, Staying
<1> QED BY <1>0, <1>3, <1>4, Exchanged

(* Every step of main keeps the invariant.                                  *)
LEMMA MainInv == ASSUME IInv, MainStep PROVE IInv'
<1>0. Main \in Threads
  BY DEF Threads
<1>1. CASE SpinLock
  BY <1>1, SpinStep
<1>2. CASE NotifyWindows
  <2>1. /\ pc[Main] \in Section \ Releasing /\ "unlock" \in Releasing /\ Goto(Main, "unlock")
        /\ m_now' = [m_now EXCEPT ![Main] = ~ @]
        /\ m_atomic' = m_atomic /\ intruded' = intruded
    BY <1>2 DEF NotifyWindows, Section, Releasing
  <2> QED BY <1>0, <2>1, FlipStep
<1>3. CASE SpinUnlock
  <2>1. pc[Main] \in Releasing /\ Exchange(Main, FALSE, "selling", pc[Main]) /\ intruded' = intruded
    BY <1>3 DEF SpinUnlock, Releasing
  <2> QED BY <1>0, <2>1, ReleaseStep
<1>4. CASE PutTickets \/ (\E w \in Windows : AskForExit(w)) \/ JoinWindows
  <2>1. PICK l \in {"notify", "selling", "joining", "exited"} :
          /\ Goto(Main, l)
          /\ \/ pc[Main] = "put" /\ l = "notify"
             \/ pc[Main] \in {"selling", "joining"} /\ l # "notify"
    BY <1>4 DEF PutTickets, AskForExit, JoinWindows
  <2>2. m_now' = m_now /\ m_atomic' = m_atomic /\ intruded' = intruded
    BY <1>4 DEF PutTickets, AskForExit, JoinWindows
  <2>3. /\ l \in Labels \ {"query", "buy"}
        /\ \/ pc[Main] \in Section \ Releasing /\ l \in Section \ Releasing
           \/ pc[Main] \notin Section /\ l \notin Section
    BY <2>1 DEF Labels, Section, Releasing
  <2> QED BY <1>0, <2>1, <2>2, <2>3, QuietStep
<1> QED BY <1>1, <1>2, <1>3, <1>4 DEF MainStep

-----------------------------------------------------------------------------
(* The invariant holds in every state of the office.                        *)
THEOREM AtomicInvariant == Spec => []IInv
<1>1. Init => IInv
  BY WindowsAssumption DEF Init, IInv, TypeOK, TryInv, FlagInv, ExclusiveUnlessIntruded,
     FlagNotLeaked, InSection, Labels, Section, Threads
<1>2. IInv /\ [Next]_vars => IInv'
  <2> SUFFICES ASSUME IInv, [Next]_vars PROVE IInv'
    OBVIOUS
  <2>1. CASE UNCHANGED vars
    BY <2>1 DEF vars, IInv, TypeOK, TryInv, FlagInv, ExclusiveUnlessIntruded,
       FlagNotLeaked, InSection
  <2> QED BY <2>1, WindowInv, MainInv DEF Next
<1> QED BY <1>1, <1>2, PTL DEF Spec

(* AtomicLocker: the flag is a lock as long as addTicket has not entered    *)
(* over it with an expected value a failed exchange had left there.         *)
THEOREM LockUnlessIntruded == Spec => []ExclusiveUnlessIntruded
<1>1. IInv => ExclusiveUnlessIntruded
  BY DEF IInv
<1> QED BY AtomicInvariant, <1>1, PTL

(* ~AtomicLocker: whatever the intrusions, the flag is clear when nobody is *)
(* inside.                                                                  *)
THEOREM FlagIsReleased == Spec => []FlagNotLeaked
<1>1. IInv => FlagNotLeaked
  BY DEF IInv
<1> QED BY AtomicInvariant, <1>1, PTL

-----------------------------------------------------------------------------
(* What the windows have in hand.  A window about to store has read a count *)
(* that every ticket sold since is beside; without an intrusion it is the   *)
(* count of this moment, and positive since the test.  Before the tickets   *)
(* are put in no window gets past its test.                                 *)
Sold == SumFunction(sold)
Put == IF pc[Main] \in {"lock", "put"} THEN 0 ELSE TicketNum

CountInv ==
  /\ m_ticketCount \in Int
  /\ m_ticketCount <= Put
  /\ Sold + m_ticketCount >= Put
  /\ ~ intruded => m_ticketCount >= 0 /\ Sold + m_ticketCount = Put

Buys(w) == pc[w] \in {"load", "store"}

BuyerInv ==
  \A w \in Windows :
    /\ Buys(w) => pc[Main] \notin {"lock", "put"} /\ (~ intruded => m_ticketCount >= 1)
    /\ pc[w] = "store" =>
         /\ seen[w] <= Put
         /\ Sold + seen[w] >= Put
         /\ ~ intruded => seen[w] = m_ticketCount

SalesInv ==
  /\ sold \in [Windows -> Int]
  /\ seen \in [Windows -> Int]
  /\ CountInv /\ BuyerInv
  /\ pc[Main] \in {"lock", "put"} => m_ticketCount = 0

(* The sum is an integer, and a sale adds one to it.                        *)
LEMMA SoldGrows ==
  ASSUME SalesInv
  PROVE  /\ Sold \in Int
         /\ \A w \in Windows : sold' = [sold EXCEPT ![w] = @ + 1] => Sold' = Sold + 1
<1>1. sold \in [Windows -> Int] /\ IsFiniteSet(Windows)
  BY WindowsAssumption DEF SalesInv
<1>2. Sold \in Int
  BY <1>1, SumPick DEF Sold, SumFunction
<1>3. ASSUME NEW w \in Windows, sold' = [sold EXCEPT ![w] = sold[w] + 1] PROVE Sold' = Sold + 1
  <2>1. /\ sold' \in [Windows -> Int] /\ sold[w] \in Int /\ sold'[w] = sold[w] + 1
        /\ \A v \in Windows \ {w} : sold'[v] = sold[v]
    BY <1>1, <1>3
  <2>2. SumFunction(sold') = SumFunction(sold) - sold[w] + sold'[w]
    BY <1>1, <2>1, SumFunctionChange
  <2> QED BY <1>2, <2>1, <2>2 DEF Sold
<1> QED BY <1>2, <1>3

(* A step that sells nothing and moves no window into the store; into the   *)
(* load only past the test.                                                 *)
LEMMA NoSale ==
  ASSUME SalesInv, sold' = sold, m_ticketCount' = m_ticketCount, seen' \in [Windows -> Int],
         pc'[Main] \in {"lock", "put"} <=> pc[Main] \in {"lock", "put"},
         intruded => intruded',
         \A w \in Windows :
           /\ pc'[w] = "store" => pc[w] = "store" /\ seen'[w] = seen[w]
           /\ pc'[w] = "load" => pc[w] = "load" \/ 1 <= m_ticketCount
  PROVE  SalesInv'
<1>1. Put' = Put /\ Sold' = Sold
  BY DEF Put, Sold
<1>2. CountInv'
  BY <1>1 DEF SalesInv, CountInv
<1>3. ASSUME NEW w \in Windows, Buys(w)'
      PROVE  pc'[Main] \notin {"lock", "put"} /\ (~ intruded' => m_ticketCount' >= 1)
  <2>1. CASE Buys(w)
    BY <2>1 DEF SalesInv, BuyerInv
  <2>2. CASE 1 <= m_ticketCount
    BY <2>2 DEF SalesInv, CountInv
  <2> QED BY <1>3, <2>1, <2>2 DEF Buys
<1>4. BuyerInv'
  BY <1>1, <1>3 DEF SalesInv, BuyerInv
<1> QED BY <1>2, <1>4 DEF SalesInv

(* The threads a window's step leaves where they are.                       *)
LEMMA OthersStay ==
  ASSUME IInv, NEW t \in Threads, NEW l, Goto(t, l)
  PROVE  \A u \in Threads : pc'[u] = IF u = t THEN l ELSE pc[u]
  BY DEF IInv, TypeOK, Goto

(* The sale itself.                                                         *)
LEMMA SaleByStore ==
  ASSUME IInv, SalesInv, NEW w \in Windows, StoreCount(w) PROVE SalesInv'
<1>0. w \in Threads /\ Windows \subseteq Threads /\ Main \in Threads /\ Main # w
  BY WindowsAssumption DEF Threads
<1>1. \A u \in Threads : pc'[u] = IF u = w THEN "unlock" ELSE pc[u]
  BY <1>0, OthersStay DEF StoreCount
<1>2. Put' = Put /\ pc'[Main] = pc[Main]
  BY <1>0, <1>1 DEF Put
<1>3. /\ pc[w] = "store" /\ seen' = seen /\ intruded' = intruded /\ seen[w] \in Int
      /\ m_ticketCount' = seen[w] - 1
  BY DEF StoreCount, SalesInv
<1>4. /\ pc[Main] \notin {"lock", "put"}
      /\ seen[w] <= Put /\ Sold + seen[w] >= Put
      /\ ~ intruded => seen[w] = m_ticketCount /\ m_ticketCount >= 1
  BY <1>3 DEF SalesInv, BuyerInv, Buys
<1>5. Sold \in Int /\ Put \in Int
  BY SoldGrows, TicketNumAssumption DEF Put
<1>6. Sold' = Sold + 1 /\ sold' \in [Windows -> Int]
  <2>1. sold' = [sold EXCEPT ![w] = @ + 1]
    BY DEF StoreCount
  <2>2. Sold' = Sold + 1
    BY <2>1, SoldGrows
  <2>3. sold \in [Windows -> Int] /\ sold[w] + 1 \in Int
    BY DEF SalesInv
  <2>4. sold' \in [Windows -> Int]
    BY <2>1, <2>3
  <2> QED BY <2>2, <2>4
<1>7. CountInv'
  <2>1. /\ m_ticketCount' \in Int /\ m_ticketCount' <= Put'
        /\ Sold' + m_ticketCount' >= Put'
    BY <1>2, <1>3, <1>4, <1>5, <1>6
  <2>2. ~ intruded => Sold + m_ticketCount = Put
    BY DEF SalesInv, CountInv
  <2>3. ~ intruded' => m_ticketCount' >= 0 /\ Sold' + m_ticketCount' = Put'
    BY <1>2, <1>3, <1>4, <1>5, <1>6, <2>2
  <2> QED BY <2>1, <2>3 DEF CountInv
<1>8. BuyerInv'
  <2> SUFFICES ASSUME NEW v \in Windows, Buys(v)'
               PROVE  /\ pc'[Main] \notin {"lock", "put"} /\ intruded'
                      /\ pc'[v] = "store" => seen'[v] <= Put' /\ Sold' + seen'[v] >= Put'
    BY DEF BuyerInv, Buys
  <2>1. v # w /\ pc'[v] = pc[v] /\ Buys(v)
    BY <1>0, <1>1 DEF Buys
  <2>2. intruded
    BY <1>0, <1>3, <2>1 DEF IInv, ExclusiveUnlessIntruded, InSection, Buys
  <2>3. seen[v] \in Int /\ (pc[v] = "store" => seen[v] <= Put /\ Sold + seen[v] >= Put)
    BY DEF SalesInv, BuyerInv
  <2> QED BY <1>2, <1>3, <1>4, <1>5, <1>6, <2>1, <2>2, <2>3
<1> QED BY <1>2, <1>3, <1>4, <1>6, <1>7, <1>8 DEF SalesInv

(* The second read of buyTicket.                                            *)
LEMMA SaleByLoad ==
  ASSUME IInv, SalesInv, NEW w \in Windows, LoadCount(w) PROVE SalesInv'
<1>0. w \in Threads /\ Windows \subseteq Threads /\ Main \in Threads /\ Main # w
  BY WindowsAssumption DEF Threads
<1>1. \A u \in Threads : pc'[u] = IF u = w THEN "store" ELSE pc[u]
  BY <1>0, OthersStay DEF LoadCount
<1>2. /\ pc[w] = "load" /\ seen' = [seen EXCEPT ![w] = m_ticketCount]
      /\ sold' = sold /\ m_ticketCount' = m_ticketCount /\ intruded' = intruded
  BY DEF LoadCount
<1>3. Put' = Put /\ Sold' = Sold /\ pc'[Main] = pc[Main]
  BY <1>0, <1>1, <1>2 DEF Put, Sold
<1>4. m_ticketCount \in Int /\ seen' \in [Windows -> Int]
  BY <1>2 DEF SalesInv, CountInv
<1>5. \A v \in Windows : seen'[v] = IF v = w THEN m_ticketCount ELSE seen[v]
  BY <1>2 DEF SalesInv
<1>6. CountInv'
  BY <1>2, <1>3 DEF SalesInv, CountInv
<1>7. BuyerInv'
  <2>1. ASSUME NEW v \in Windows, Buys(v)' PROVE Buys(v)
    BY <1>0, <1>1, <1>2, <2>1 DEF Buys
  <2>2. ASSUME NEW v \in Windows, pc'[v] = "store"
        PROVE  /\ seen'[v] <= Put /\ Sold + seen'[v] >= Put
               /\ ~ intruded => seen'[v] = m_ticketCount
    <3>1. CASE v = w
      BY <1>5, <3>1 DEF SalesInv, CountInv
    <3>2. CASE v # w
      BY <1>0, <1>1, <1>5, <2>2, <3>2 DEF SalesInv, BuyerInv
    <3> QED BY <3>1, <3>2
  <2> QED BY <1>2, <1>3, <2>1, <2>2 DEF SalesInv, BuyerInv
<1> QED BY <1>2, <1>3, <1>4, <1>6, <1>7 DEF SalesInv

LEMMA SaleByWindow ==
  ASSUME IInv, SalesInv, NEW w \in Windows, WindowStep(w) \/ WakeSpuriously(w)
  PROVE  SalesInv'
<1>0. w \in Threads /\ Windows \subseteq Threads /\ Main \in Threads /\ Main # w
  BY WindowsAssumption DEF Threads
<1>1. ASSUME NEW l \in Labels \ {"store"}, Goto(w, l) \/ pc' = pc,
             l = "load" => 1 <= m_ticketCount,
             sold' = sold, m_ticketCount' = m_ticketCount, intruded' = intruded,
             seen' = seen \/ (seen' = [seen EXCEPT ![w] = m_ticketCount] /\ pc' # pc)
      PROVE  SalesInv'
  <2>1. \A u \in Threads : pc'[u] = pc[u] \/ (u = w /\ pc'[u] = l)
    <3>1. Goto(w, l) => \A u \in Threads : pc'[u] = IF u = w THEN l ELSE pc[u]
      BY <1>0, OthersStay
    <3> QED BY <1>1, <3>1
  <2>2. pc' # pc => pc'[w] = l
    BY <1>0, <1>1, OthersStay
  <2>3. seen' \in [Windows -> Int]
    BY <1>1 DEF SalesInv, CountInv
  <2>4. \A v \in Windows \ {w} : seen'[v] = seen[v]
    BY <1>1 DEF SalesInv
  <2>5. \A v \in Windows :
          /\ pc'[v] = "store" => pc[v] = "store" /\ seen'[v] = seen[v]
          /\ pc'[v] = "load" => pc[v] = "load" \/ 1 <= m_ticketCount
    BY <1>0, <1>1, <2>1, <2>2, <2>4
  <2>6. pc'[Main] = pc[Main] /\ (intruded => intruded')
    BY <1>0, <1>1, <2>1
  <2> QED BY <1>1, <2>3, <2>5, <2>6, NoSale
<1>2. CASE StoreCount(w) \/ LoadCount(w)
  BY <1>2, SaleByStore, SaleByLoad
<1>3. CASE TestCount(w)
  <2>1. PICK l \in {"load", "unlock"} : Goto(w, l) /\ (l = "load" => 1 <= m_ticketCount)
    BY <1>3 DEF TestCount
  <2>2. l \in Labels \ {"store"}
    BY DEF Labels, Section
  <2> QED BY <1>1, <1>3, <2>1, <2>2 DEF TestCount, sales
<1>4. CASE QueryCount(w)
  <2>1. Goto(w, "queryUnlock") /\ pc[w] = "count"
    BY <1>4 DEF QueryCount
  <2>2. pc' # pc
    BY <1>0, <2>1, OthersStay
  <2>3. "queryUnlock" \in Labels \ {"store"}
    BY DEF Labels, Section
  <2> QED BY <1>1, <1>4, <2>1, <2>2, <2>3 DEF QueryCount
<1>5. CASE WakeSpuriously(w)
  BY <1>1, <1>5 DEF WakeSpuriously, sales, Labels
<1>6. CASE EnterWait(w) \/ WakeUp(w) \/ WaitCond(w) \/ TestExit(w) \/ QueryTryLock(w)
           \/ QueryUnlock(w) \/ BuyTryLock(w) \/ BuyUnlock(w)
  <2>1. PICK l \in Labels \ {"store", "load"} : Goto(w, l)
    BY <1>6 DEF EnterWait, WakeUp, Query, WaitCond, TestExit, QueryTryLock, QueryUnlock,
       BuyTryLock, BuyUnlock, Exchange, Labels, Section
  <2>2. sold' = sold /\ m_ticketCount' = m_ticketCount /\ intruded' = intruded /\ seen' = seen
    BY <1>6 DEF EnterWait, WakeUp, Query, WaitCond, TestExit, QueryTryLock, QueryUnlock,
       BuyTryLock, BuyUnlock, sales
  <2> QED BY <1>1, <2>1, <2>2
<1> QED BY <1>2, <1>3, <1>4, <1>5, <1>6 DEF WindowStep

LEMMA SaleByMain == ASSUME IInv, SalesInv, MainStep PROVE SalesInv'
<1>0. /\ Main \in Threads /\ Windows \subseteq Threads /\ Main \notin Windows
  BY WindowsAssumption DEF Threads
<1>1. CASE PutTickets
  <2>1. /\ pc[Main] = "put" /\ m_ticketCount' = m_ticketCount + TicketNum
        /\ sold' = sold /\ seen' = seen /\ intruded' = intruded
    BY <1>1 DEF PutTickets
  <2>2. \A u \in Threads : pc'[u] = IF u = Main THEN "notify" ELSE pc[u]
    BY <1>0, <1>1, OthersStay DEF PutTickets
  <2>3. Put = 0 /\ Put' = TicketNum /\ Sold \in Int /\ Sold' = Sold
    BY <1>0, <2>1, <2>2, SoldGrows DEF Put, Sold
  <2>4. m_ticketCount = 0 /\ m_ticketCount' = TicketNum
    BY <2>1, TicketNumAssumption DEF SalesInv
  <2>5. CountInv'
    BY <2>1, <2>3, <2>4, TicketNumAssumption DEF SalesInv, CountInv
  <2>6. ASSUME NEW v \in Windows PROVE ~ Buys(v)' /\ pc'[v] # "store"
    BY <1>0, <2>1, <2>2 DEF SalesInv, BuyerInv, Buys
  <2>7. BuyerInv'
    BY <2>6 DEF BuyerInv
  <2>8. pc'[Main] \notin {"lock", "put"}
    BY <1>0, <2>2
  <2> QED BY <2>1, <2>5, <2>7, <2>8 DEF SalesInv
<1>2. CASE MainStep /\ ~ PutTickets
  <2>1. PICK l \in {"lock", "put", "unlock", "selling", "joining", "exited"} :
          Goto(Main, l) /\ (l \in {"lock", "put"} <=> pc[Main] = "lock")
                       /\ pc[Main] # "put"
    BY <1>2 DEF MainStep, SpinLock, NotifyWindows, SpinUnlock, AskForExit, JoinWindows,
       Exchange
  <2>2. /\ sold' = sold /\ m_ticketCount' = m_ticketCount /\ seen' = seen
        /\ intruded' = intruded \/ intruded' = (intruded \/ (m_atomic /\ m_now[Main]))
    BY <1>2 DEF MainStep, SpinLock, NotifyWindows, SpinUnlock, AskForExit, JoinWindows,
       sales
  <2>3. \A u \in Threads : pc'[u] = IF u = Main THEN l ELSE pc[u]
    BY <1>0, <2>1, OthersStay
  <2>4. pc'[Main] \in {"lock", "put"} <=> pc[Main] \in {"lock", "put"}
    BY <1>0, <2>1, <2>3
  <2>5. /\ seen' \in [Windows -> Int]
        /\ \A w \in Windows : pc'[w] = pc[w] /\ seen'[w] = seen[w]
    BY <1>0, <2>2, <2>3 DEF SalesInv
  <2>6. intruded => intruded'
    BY <2>2
  <2> QED BY <2>2, <2>4, <2>5, <2>6, NoSale
<1> QED BY <1>1, <1>2

(* AtomicTicketDB: an intrusion of addTicket can sell a ticket twice or one *)
(* that is not there, and a stale count can even go back up, but no ticket  *)
(* is ever lost; without an intrusion those sold are those taken, and were  *)
(* there.                                                                   *)
THEOREM NoTicketIsLost == Spec => []NoTicketLost
<1>1. Init => SalesInv
  <2> SUFFICES ASSUME Init PROVE SalesInv
    OBVIOUS
  <2>1. /\ sold \in [Windows -> Int] /\ \A w \in Windows : sold[w] = 0
        /\ seen \in [Windows -> Int] /\ m_ticketCount = 0
        /\ pc[Main] = "lock" /\ \A w \in Windows : pc[w] = "enter"
    BY WindowsAssumption DEF Init, Threads
  <2>2. Sold = 0
    BY <2>1, WindowsAssumption, SumZero DEF Sold, SumFunction
  <2> QED BY <2>1, <2>2 DEF SalesInv, CountInv, BuyerInv, Buys, Put
<1>2. IInv /\ SalesInv /\ [Next]_vars => SalesInv'
  <2> SUFFICES ASSUME IInv, SalesInv, [Next]_vars PROVE SalesInv'
    OBVIOUS
  <2>1. CASE UNCHANGED vars
    BY <2>1, NoSale DEF vars, sales, SalesInv
  <2> QED BY <2>1, SaleByWindow, SaleByMain DEF Next
<1>3. SalesInv => NoTicketLost
  <2> SUFFICES ASSUME SalesInv PROVE NoTicketLost
    OBVIOUS
  <2>1. Sold \in Int /\ Put \in Int
    BY SoldGrows, TicketNumAssumption DEF Put
  <2> QED BY <2>1 DEF SalesInv, CountInv, NoTicketLost, Sold, Put
<1> QED BY <1>1, <1>2, <1>3, AtomicInvariant, PTL DEF Spec
=============================================================================
