------------------------ MODULE TicketOffice_proofs ------------------------
(***************************************************************************)
(* Proofs about TicketOffice, for every set of windows and every number of *)
(* tickets: the condition variable holds the windows until the tickets are *)
(* there and holds none of them behind it.                                 *)
(***************************************************************************)
EXTENDS TicketOffice, DataLemmas

WindowLabels == {"enter", "query", "wait", "asleep", "loop", "buy", "update", "exited"}
MainLabels == {"countdown", "notify", "selling", "joining", "done"}

TypeOK ==
  /\ m_ticketCount \in Nat
  /\ m_mutex \in Windows \union {Main, NoThread}
  /\ m_mutexCond \in Windows \union {NoThread}
  /\ m_cond \subseteq Windows /\ m_askForExit \subseteq Windows
  /\ pc \in [Windows -> WindowLabels]
  /\ seen \in [Windows -> Nat]
  /\ mainPc \in MainLabels

(* m_mutexCond is held from the test to the sleep, and by nobody else; so   *)
(* the broadcast finds no window between the two.                           *)
CondLock == \A w \in Windows : pc[w] \in {"query", "wait"} <=> m_mutexCond = w

(* The lock of the database: what a window read under it is still true when *)
(* it writes, and main holds it from the tickets to the broadcast.          *)
CountLock ==
  /\ \A w \in Windows : pc[w] = "update" => m_mutex = w /\ seen[w] = m_ticketCount
  /\ mainPc = "notify" => m_mutex = Main
  /\ mainPc = "countdown" => m_ticketCount = 0

IInv == TypeOK /\ CondLock /\ CountLock /\ ReleaseSeen

-----------------------------------------------------------------------------
(* The office as it opens. *)
LEMMA InvInit == Init => IInv
  BY WindowsAssumption DEF Init, IInv, TypeOK, CondLock, CountLock,
     ReleaseSeen,
     NoSaleBeforeRelease, NoLostBroadcast, WindowLabels, MainLabels

(* Taking m_mutexCond, on the way in and behind a sleep.                    *)
LEMMA TakeCond ==
  ASSUME IInv, NEW w \in Windows, EnterWait(w) \/ WakeUp(w) PROVE IInv'
<1> USE DEF IInv, sales
<1>1. /\ m_mutexCond = NoThread /\ m_mutexCond' = w
      /\ pc' = [pc EXCEPT ![w] = "query"] /\ pc[w] \in {"enter", "asleep"}
      /\ UNCHANGED <<m_mutex, m_cond, m_ticketCount, seen, m_askForExit, mainPc>>
  BY DEF EnterWait, WakeUp, Goto
<1>2. \A v \in Windows : pc'[v] = IF v = w THEN "query" ELSE pc[v]
  BY <1>1 DEF TypeOK
<1>3. TypeOK'
  BY <1>1 DEF TypeOK, WindowLabels
<1>4. CondLock'
  BY <1>1, <1>2, WindowsAssumption DEF CondLock
<1>5. CountLock'
  BY <1>1, <1>2 DEF CountLock
<1>6. ReleaseSeen'
  BY <1>1, <1>2 DEF ReleaseSeen, NoSaleBeforeRelease, NoLostBroadcast
<1> QED BY <1>3, <1>4, <1>5, <1>6

(* The test: before the release there is nothing in the database, and while *)
(* main stands between the tickets and the broadcast the lock keeps the     *)
(* window out.                                                              *)
LEMMA TestCount == ASSUME IInv, NEW w \in Windows, QueryTicket(w) PROVE IInv'
<1> USE DEF IInv, sales
<1>1. /\ m_mutex = NoThread /\ pc[w] = "query"
      /\ m_mutexCond' = IF m_ticketCount <= 0 THEN w ELSE NoThread
      /\ pc' = [pc EXCEPT ![w] = IF m_ticketCount <= 0 THEN "wait" ELSE "loop"]
      /\ UNCHANGED <<m_mutex, m_cond, m_ticketCount, seen, m_askForExit, mainPc>>
  BY DEF QueryTicket, Goto, TypeOK
<1>2. \A v \in Windows : pc'[v] = IF v = w THEN (IF m_ticketCount <= 0 THEN "wait" ELSE "loop") ELSE pc[v]
  BY <1>1 DEF TypeOK
<1>3. mainPc # "notify" /\ (mainPc = "countdown" => m_ticketCount <= 0)
  BY <1>1, WindowsAssumption DEF CountLock
<1>4. TypeOK'
  BY <1>1 DEF TypeOK, WindowLabels
<1>5. CondLock'
  BY <1>1, <1>2, WindowsAssumption DEF CondLock
<1>6. CountLock'
  BY <1>1, <1>2 DEF CountLock
<1>7. ReleaseSeen'
  BY <1>1, <1>2, <1>3 DEF TypeOK, ReleaseSeen, NoSaleBeforeRelease,
     NoLostBroadcast
<1> QED BY <1>4, <1>5, <1>6, <1>7

(* Falling asleep, and waking without a reason.                             *)
LEMMA SleepStep ==
  ASSUME IInv, NEW w \in Windows, WaitCond(w) \/ WakeSpuriously(w) PROVE IInv'
<1> USE DEF IInv, sales
<1>1. CASE WaitCond(w)
  <2>1. /\ pc[w] = "wait" /\ pc' = [pc EXCEPT ![w] = "asleep"]
        /\ m_mutexCond' = NoThread /\ m_cond' = m_cond \union {w}
        /\ UNCHANGED <<m_mutex, m_ticketCount, seen, m_askForExit, mainPc>>
    BY <1>1 DEF WaitCond, Goto
  <2>2. \A v \in Windows : pc'[v] = IF v = w THEN "asleep" ELSE pc[v]
    BY <2>1 DEF TypeOK
  <2>3. TypeOK'
    BY <2>1 DEF TypeOK, WindowLabels
  <2>4. CondLock' /\ CountLock'
    BY <2>1, <2>2, WindowsAssumption DEF CondLock, CountLock
  <2>5. ReleaseSeen'
    BY <2>1, <2>2 DEF ReleaseSeen, NoSaleBeforeRelease, NoLostBroadcast
  <2> QED BY <2>3, <2>4, <2>5
<1>2. CASE WakeSpuriously(w)
  BY <1>2 DEF WakeSpuriously, TypeOK, CondLock, CountLock, ReleaseSeen,
     NoSaleBeforeRelease, NoLostBroadcast
<1> QED BY <1>1, <1>2

(* The selling loop; only UpdateCount writes, and it takes one ticket of    *)
(* those that are there.                                                    *)
LEMMA SellStep ==
  ASSUME IInv, NEW w \in Windows, TestExit(w) \/ ReadCount(w) \/ UpdateCount(w)
  PROVE  IInv'
<1> USE DEF IInv, sales, locks
<1>1. CASE TestExit(w)
  <2>1. /\ pc[w] = "loop" /\ pc' = [pc EXCEPT ![w] = IF w \in m_askForExit THEN "exited" ELSE "buy"]
        /\ UNCHANGED <<m_mutex, m_mutexCond, m_cond, m_ticketCount, seen, m_askForExit, mainPc>>
    BY <1>1 DEF TestExit, Goto
  <2>2. \A v \in Windows : v # w => pc'[v] = pc[v]
    BY <2>1 DEF TypeOK
  <2>3. pc'[w] \in {"exited", "buy"}
    BY <2>1 DEF TypeOK
  <2>4. TypeOK'
    BY <2>1 DEF TypeOK, WindowLabels
  <2>5. CondLock' /\ CountLock'
    BY <2>1, <2>2, <2>3 DEF CondLock, CountLock
  <2>6. ReleaseSeen'
    BY <2>1, <2>2, <2>3 DEF ReleaseSeen, NoSaleBeforeRelease,
       NoLostBroadcast
  <2> QED BY <2>4, <2>5, <2>6
<1>2. CASE ReadCount(w)
  <2>1. /\ pc[w] = "buy" /\ pc' = [pc EXCEPT ![w] = "update"]
        /\ m_mutex = NoThread /\ m_mutex' = w
        /\ seen' = [seen EXCEPT ![w] = m_ticketCount]
        /\ UNCHANGED <<m_mutexCond, m_cond, m_ticketCount, m_askForExit, mainPc>>
    BY <1>2 DEF ReadCount, Goto
  <2>2. \A v \in Windows : /\ pc'[v] = IF v = w THEN "update" ELSE pc[v]
                           /\ seen'[v] = IF v = w THEN m_ticketCount ELSE seen[v]
    BY <2>1 DEF TypeOK
  <2>3. TypeOK'
    BY <2>1 DEF TypeOK, WindowLabels
  <2>4. CondLock'
    BY <2>1, <2>2 DEF CondLock
  <2>5. CountLock'
    BY <2>1, <2>2, WindowsAssumption DEF CountLock
  <2>6. ReleaseSeen'
    BY <2>1, <2>2 DEF ReleaseSeen, NoSaleBeforeRelease, NoLostBroadcast
  <2> QED BY <2>3, <2>4, <2>5, <2>6
<1>3. CASE UpdateCount(w)
  <2>1. /\ pc[w] = "update" /\ pc' = [pc EXCEPT ![w] = "loop"]
        /\ m_mutex = w /\ m_mutex' = NoThread /\ seen[w] = m_ticketCount
        /\ m_ticketCount' \in Nat
        /\ m_ticketCount = 0 => m_ticketCount' = 0
        /\ UNCHANGED <<m_mutexCond, m_cond, seen, m_askForExit, mainPc>>
    BY <1>3 DEF UpdateCount, Goto, CountLock, TypeOK
  <2>2. \A v \in Windows : pc'[v] = IF v = w THEN "loop" ELSE pc[v]
    BY <2>1 DEF TypeOK
  <2>3. TypeOK'
    BY <2>1 DEF TypeOK, WindowLabels
  <2>4. CondLock'
    BY <2>1, <2>2 DEF CondLock
  <2>5. mainPc \notin {"countdown", "notify"}
    BY <2>1 DEF ReleaseSeen, NoSaleBeforeRelease
  <2>6. CountLock'
    BY <2>1, <2>2, <2>5 DEF CountLock
  <2>7. ReleaseSeen'
    BY <2>1, <2>2, <2>5 DEF ReleaseSeen, NoSaleBeforeRelease,
       NoLostBroadcast
  <2> QED BY <2>3, <2>4, <2>6, <2>7
<1> QED BY <1>1, <1>2, <1>3

(* Main: the tickets go in under the lock of the database, and the          *)
(* broadcast goes out when no window stands between its test and its sleep. *)
LEMMA MainInv == ASSUME IInv, MainStep PROVE IInv'
<1> USE DEF IInv, sales, locks
<1>1. CASE PutTickets
  <2>1. /\ mainPc = "countdown" /\ mainPc' = "notify"
        /\ m_mutex = NoThread /\ m_mutex' = Main
        /\ m_ticketCount' \in Nat
        /\ UNCHANGED <<m_mutexCond, m_cond, seen, m_askForExit, pc>>
    BY <1>1, TicketNumAssumption DEF PutTickets, TypeOK
  <2>2. TypeOK' /\ CondLock'
    BY <2>1 DEF TypeOK, CondLock, MainLabels
  <2>3. CountLock'
    BY <2>1, WindowsAssumption DEF CountLock
  <2>4. ReleaseSeen'
    BY <2>1 DEF ReleaseSeen, NoSaleBeforeRelease, NoLostBroadcast
  <2> QED BY <2>2, <2>3, <2>4
<1>2. CASE NotifyWindows
  <2>1. /\ mainPc = "notify" /\ mainPc' = "selling"
        /\ m_mutexCond = NoThread /\ m_mutex' = NoThread /\ m_cond' = {}
        /\ UNCHANGED <<m_mutexCond, m_ticketCount, seen, m_askForExit, pc>>
    BY <1>2 DEF NotifyWindows, Broadcast
  <2>2. \A w \in Windows : pc[w] \notin {"query", "wait", "update"}
    BY <2>1, WindowsAssumption DEF CondLock, ReleaseSeen, NoSaleBeforeRelease
  <2>3. TypeOK' /\ CondLock'
    BY <2>1 DEF TypeOK, CondLock, MainLabels
  <2>4. CountLock' /\ ReleaseSeen'
    BY <2>1, <2>2 DEF CountLock, ReleaseSeen, NoSaleBeforeRelease,
       NoLostBroadcast
  <2> QED BY <2>3, <2>4
<1>3. CASE (\E w \in Windows : AskForExit(w)) \/ JoinWindows
  <2>1. /\ mainPc \in {"selling", "joining"} /\ mainPc' \in {"selling", "joining", "done"}
        /\ m_askForExit' \subseteq Windows
        /\ UNCHANGED <<m_mutex, m_mutexCond, m_cond, m_ticketCount, seen, pc>>
    BY <1>3 DEF AskForExit, JoinWindows, TypeOK
  <2>2. TypeOK' /\ CondLock'
    BY <2>1 DEF TypeOK, CondLock, MainLabels
  <2>3. CountLock' /\ ReleaseSeen'
    BY <2>1 DEF CountLock, ReleaseSeen, NoSaleBeforeRelease,
       NoLostBroadcast
  <2> QED BY <2>2, <2>3
<1> QED BY <1>1, <1>2, <1>3 DEF MainStep

-----------------------------------------------------------------------------
(* The invariant holds in every state of the office.                        *)
THEOREM OfficeInvariant == Spec => []IInv
<1>1. IInv /\ [Next]_vars => IInv'
  <2> SUFFICES ASSUME IInv, [Next]_vars PROVE IInv'
    OBVIOUS
  <2>1. ASSUME NEW w \in Windows, WindowStep(w) \/ WakeSpuriously(w) PROVE IInv'
    BY <2>1, TakeCond, TestCount, SleepStep, SellStep DEF WindowStep
  <2>2. CASE UNCHANGED vars
    BY <2>2 DEF vars, locks, sales, IInv, TypeOK, CondLock,
       CountLock, ReleaseSeen,
       NoSaleBeforeRelease, NoLostBroadcast
  <2> QED BY <2>1, <2>2, MainInv DEF Next
<1> QED BY InvInit, <1>1, PTL DEF Spec

(* TicketDB::waitPutTicket and addTicket: no window sells before the        *)
(* release, and the one broadcast of the program misses nobody.             *)
THEOREM ReleaseIsSeen == Spec => []ReleaseSeen
<1>1. IInv => ReleaseSeen
  BY DEF IInv
<1> QED BY OfficeInvariant, <1>1, PTL

-----------------------------------------------------------------------------
(* The sum over the windows, beside what the database counts. *)
SalesInv == sold \in [Windows -> Int] /\ TicketsConserved

(* The tickets go in once; from then on a ticket leaves the database only   *)
(* into the hands of the window that wrote the new count, because what that *)
(* window had read was still true when it wrote.                            *)
LEMMA SalesStep == ASSUME IInv, SalesInv, [Next]_vars PROVE SalesInv'
<1> USE DEF SalesInv, TicketsConserved
<1>1. ASSUME NEW w \in Windows, UpdateCount(w) PROVE SalesInv'
  <2>1. m_ticketCount \in Nat /\ seen[w] = m_ticketCount /\ mainPc' = mainPc
    BY <1>1 DEF UpdateCount, IInv, TypeOK, CountLock
  <2>2. CASE 1 <= m_ticketCount
    <3>1. m_ticketCount' = m_ticketCount - 1 /\ sold' = [sold EXCEPT ![w] = sold[w] + 1]
      BY <1>1, <2>1, <2>2 DEF UpdateCount
    <3>2. /\ sold \in [Windows -> Int] /\ sold' \in [Windows -> Int] /\ IsFiniteSet(Windows)
          /\ sold'[w] = sold[w] + 1 /\ \A v \in Windows \ {w} : sold'[v] = sold[v]
      BY <3>1, WindowsAssumption
    <3>3. /\ SumFunction(sold) \in Int
          /\ SumFunction(sold') = SumFunction(sold) - sold[w] + sold'[w]
      BY <3>2, SumFunctionChange
    <3> QED BY <2>1, <2>2, <3>1, <3>2, <3>3
  <2>3. CASE ~ (1 <= m_ticketCount)
    BY <1>1, <2>1, <2>3 DEF UpdateCount
  <2> QED BY <2>2, <2>3
<1>2. CASE PutTickets
  <2>1. /\ m_ticketCount = 0 /\ m_ticketCount' = TicketNum /\ sold' = sold
        /\ mainPc = "countdown" /\ mainPc' = "notify"
    BY <1>2, TicketNumAssumption DEF PutTickets, IInv, TypeOK, CountLock
  <2>2. SumFunction(sold) \in Int
    BY WindowsAssumption, SumPick DEF SumFunction
  <2> QED BY <2>1, <2>2, TicketNumAssumption
<1>3. ASSUME sold' = sold, m_ticketCount' = m_ticketCount,
             mainPc' = mainPc \/ {mainPc, mainPc'} \subseteq MainLabels \ {"countdown"}
      PROVE  SalesInv'
  BY <1>3
<1>4. ASSUME NEW w \in Windows, (WindowStep(w) /\ ~ UpdateCount(w)) \/ WakeSpuriously(w)
      PROVE  SalesInv'
  <2>1. sold' = sold /\ m_ticketCount' = m_ticketCount /\ mainPc' = mainPc
    BY <1>4 DEF WindowStep, WakeSpuriously, EnterWait,
       QueryTicket, WaitCond, WakeUp, TestExit,
       ReadCount, sales
  <2> QED BY <2>1, <1>3
<1>5. CASE NotifyWindows \/ (\E w \in Windows : AskForExit(w)) \/ JoinWindows
  <2>1. /\ sold' = sold /\ m_ticketCount' = m_ticketCount
        /\ {mainPc, mainPc'} \subseteq MainLabels \ {"countdown"}
    BY <1>5 DEF NotifyWindows, AskForExit, JoinWindows, sales,
       MainLabels
  <2> QED BY <2>1, <1>3
<1>6. CASE UNCHANGED vars
  BY <1>3, <1>6 DEF vars, sales
<1> QED BY <1>1, <1>2, <1>4, <1>5, <1>6 DEF Next, MainStep

(* TicketDB::buyTicket and addTicket: no ticket is lost, none is sold       *)
(* twice, and none is sold that is not there.                               *)
THEOREM TicketsAreConserved == Spec => []TicketsConserved
<1>1. Init => SalesInv
  <2> SUFFICES ASSUME Init PROVE SalesInv
    OBVIOUS
  <2>1. sold \in [Windows -> Int] /\ \A w \in Windows : sold[w] = 0
    BY DEF Init
  <2>2. SumFunction(sold) = 0
    BY <2>1, WindowsAssumption, SumZero DEF SumFunction
  <2> QED BY <2>1, <2>2 DEF Init, SalesInv, TicketsConserved
<1>2. IInv /\ SalesInv /\ [Next]_vars => SalesInv'
  BY SalesStep
<1>3. SalesInv => TicketsConserved
  BY DEF SalesInv
<1> QED BY <1>1, <1>2, <1>3, OfficeInvariant, PTL DEF Spec
=============================================================================
