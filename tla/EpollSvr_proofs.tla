-------------------------- MODULE EpollSvr_proofs ---------------------------
(***************************************************************************)
(* Proofs about the server of 9/superSvr, for any number of connections,   *)
(* descriptors and workers, any EPOLL_WAIT_MAX, and every interleaving of  *)
(* the two threads of EpollSvr with the pool.                              *)
(*                                                                         *)
(* StopInv: stopping the server deletes a ClientQuery only when no event,  *)
(* queued job or worker can reach it.                                      *)
(*                                                                         *)
(* IInv: every connection is in one place, and every descriptor number     *)
(* with its own client.                                                    *)
(* "One attendant" is not inductive: that an event finds no second one     *)
(* needs that the entry it came from was the only armed one, hence that a  *)
(* number has one entry, hence that it is not reused while anybody goes by *)
(* it.  PlaceInv therefore says both at once: a connection is at one place *)
(* at most, and while it is at one its number denotes its socket.  ListInv *)
(* says how the lists between the two threads are handed over, FdInv what  *)
(* a descriptor and an interest entry are worth, WorkInv that neither      *)
(* events, nor jobs, nor workers share a connection.                       *)
(*                                                                         *)
(* Two more properties rest on it.  ReplyInv follows the request: nobody   *)
(* is on the way to a second reply, or to one before the request.  FateInv *)
(* says why nobody is lost on the way: EPOLL_CTL_ADD finds the number      *)
(* without an entry and EPOLL_CTL_MOD finds one, so neither call fails.    *)
(* The code would only report the failure and go on.                       *)
(***************************************************************************)
EXTENDS EpollSvr, DataLemmas

(* The epoll thread deletes the queries last; by then it has waited for the *)
(* pool to go, and a pool that is gone holds no job and starts none.        *)
StopInv ==
  /\ freed # {} => epc = "done"
  /\ epc \in {"delete", "done"} => phase = "gone"
  /\ phase = "gone" => pending = <<>> /\ \A w \in Workers : running[w] = NoTask
  /\ epc # "dispatch" => batch = {}

(* The clients, the listening thread and stop() touch neither the pool nor  *)
(* the epoll thread.                                                        *)
LEMMA OutsideEpoll ==
  ASSUME StopInv,
         \/ \E c \in Conns : Connect(c) \/ Deliver(c) \/ Depart(c)
         \/ ListenStep
         \/ AskForExit \/ JoinThreads
  PROVE  StopInv'
<1>1. UNCHANGED <<freed, epc, phase, pending, running, batch>>
  BY DEF Connect, Deliver, Depart, ListenStep, ListenTest, Accept, AcceptFails, AddClientQuery,
     AskForExit, JoinThreads, epollVars, poolVars
<1> QED BY <1>1 DEF StopInv

(* The epoll thread while it serves: it deletes nothing, submits jobs to an *)
(* open pool only, and leaves its batch when it is empty.                   *)
LEMMA ServingStep ==
  ASSUME StopInv,
         EpollTest \/ CopyNewClients \/ ClearNewClients \/ InitQuery \/ InitDone \/ EpollWait
           \/ Dispatch \/ CloseEpoll
  PROVE  StopInv'
<1>1. CASE EpollTest \/ CopyNewClients \/ ClearNewClients \/ InitQuery \/ InitDone \/ CloseEpoll
  <2>1. /\ epc \notin {"dispatch", "delete", "done"} /\ epc' \notin {"dispatch", "delete", "done"}
        /\ UNCHANGED <<freed, phase, pending, running, batch>>
    BY <1>1 DEF EpollTest, CopyNewClients, ClearNewClients, InitQuery, InitDone, CloseEpoll, poolVars
  <2> QED BY <2>1 DEF StopInv
<1>2. CASE EpollWait
  <2>1. PICK some \in SUBSET ReadyFDs : /\ batch' = {JobFor(f) : f \in some}
                                         /\ epc' = IF some = {} THEN "test" ELSE "dispatch"
    BY <1>2 DEF EpollWait
  <2>2. epc = "wait" /\ UNCHANGED <<freed, phase, pending, running>>
    BY <1>2 DEF EpollWait, poolVars
  <2>3. epc' # "dispatch" => batch' = {}
    BY <2>1
  <2> QED BY <2>1, <2>2, <2>3 DEF StopInv
<1>3. CASE Dispatch
  <2>1. /\ epc = "dispatch" /\ epc' \in {"test", "dispatch"}
        /\ phase # "gone" /\ phase' = phase
        /\ epc' = "test" => batch' = {}
        /\ freed' = freed
    BY <1>3 DEF Dispatch, Pool!Submit
  <2> QED BY <2>1 DEF StopInv
<1> QED BY <1>1, <1>2, <1>3

(* The epoll thread behind its loop: the pool is closed, emptied and gone   *)
(* before the queries are deleted.                                          *)
LEMMA StoppingStep == ASSUME StopInv, DestroyPool \/ DeleteQueries PROVE StopInv'
<1>1. CASE DestroyPool
  <2>1. /\ epc \in {"shutdown", "join", "vanish"} /\ epc' \in {"join", "vanish", "delete"}
        /\ UNCHANGED <<freed, running, batch>>
    BY <1>1 DEF DestroyPool, Pool!Close, Pool!Discard, Pool!Vanish
  <2>2. /\ epc' = "delete" => phase' = "gone"
        /\ phase' = "gone" => pending' = <<>> /\ \A w \in Workers : running[w] = NoTask
    BY <1>1 DEF DestroyPool, Pool!Close, Pool!Discard, Pool!Vanish, StopInv
  <2> QED BY <2>1, <2>2 DEF StopInv
<1>2. CASE DeleteQueries
  BY <1>2 DEF DeleteQueries, poolVars, StopInv
<1> QED BY <1>1, <1>2

(* A worker takes a job from an open pool, or finishes the one it has.      *)
LEMMA WorkerInv == ASSUME StopInv, NEW w \in Workers, WorkerStep(w) PROVE StopInv'
<1>1. UNCHANGED <<freed, epc, batch>>
  BY DEF WorkerStep, Begin, RecvLength, RecvMessage, Rearm, Abort, Send, Deregister, Shutdown,
     Close, Finish, epollVars
<1>2. CASE Begin(w)
  <2>1. phase # "gone" /\ phase' = phase
    BY <1>2 DEF Begin, Pool!Begin
  <2> QED BY <1>1, <2>1 DEF StopInv
<1>3. CASE Finish(w)
  <2>1. running[w] # NoTask /\ phase' = phase
    BY <1>3 DEF Finish, Pool!Finish
  <2>2. phase # "gone"
    BY <2>1 DEF StopInv
  <2> QED BY <1>1, <2>1, <2>2 DEF StopInv
<1>4. CASE \/ RecvLength(w) \/ RecvMessage(w) \/ Rearm(w) \/ Abort(w)
           \/ Send(w) \/ Deregister(w) \/ Shutdown(w) \/ Close(w)
  <2>1. UNCHANGED <<pending, running, phase>>
    BY <1>4 DEF RecvLength, RecvMessage, Rearm, Abort, Send, Deregister, Shutdown, Close, poolVars
  <2> QED BY <1>1, <2>1 DEF StopInv
<1> QED BY <1>2, <1>3, <1>4 DEF WorkerStep

(* StopInv holds in every state of the server.                              *)
THEOREM StopInvariant == Spec => []StopInv
<1>1. Init => StopInv
  BY DEF Init, Pool!Init, StopInv
<1>2. StopInv /\ [Next]_vars => StopInv'
  <2> SUFFICES ASSUME StopInv, [Next]_vars PROVE StopInv'
    OBVIOUS
  <2>1. CASE EpollStep
    BY <2>1, ServingStep, StoppingStep DEF EpollStep
  <2>2. CASE UNCHANGED vars
    BY <2>2 DEF vars, epollVars, poolVars, StopInv
  <2> QED BY <2>1, <2>2, OutsideEpoll, WorkerInv DEF Next
<1> QED BY <1>1, <1>2, PTL DEF Spec

(* ~EpollSvr and run_epoll: no ClientQuery is deleted while a worker, a     *)
(* queued job or an event still points to it.                               *)
THEOREM NoneDeletedInUse == Spec => []NoUseAfterDelete
<1>1. StopInv => NoUseAfterDelete
  <2> SUFFICES ASSUME StopInv, freed # {} PROVE NoUseAfterDelete
    BY DEF NoUseAfterDelete
  <2>1. batch = {} /\ pending = <<>> /\ \A w \in Workers : running[w] = NoTask
    BY DEF StopInv
  <2>2. Members(pending) = {}
    BY <2>1 DEF Members
  <2> QED BY <2>1, <2>2 DEF NoUseAfterDelete
<1> QED BY StopInvariant, <1>1, PTL

-----------------------------------------------------------------------------
(* The six places a connection can be at. *)
Listening(c) == newQuery = c
Listed(c) == c \in Members(m_newClientList) \union Members(newClientList)
Armed(c) == \E f \in FDs : interest[f].conn = c /\ interest[f].arm # "off"
Reported(c) == \E job \in batch : job.conn = c
Queued(c) == \E i \in 1 .. Len(pending) : pending[i].conn = c
Served(c) == \E w \in Workers : Busy(w) /\ Conn(w) = c

Places == {"listener", "list", "armed", "event", "queue", "worker"}

(* Connection c is at place p. *)
At(c, p) ==
  \/ p = "listener" /\ Listening(c)
  \/ p = "list" /\ Listed(c)
  \/ p = "armed" /\ Armed(c)
  \/ p = "event" /\ Reported(c)
  \/ p = "queue" /\ Queued(c)
  \/ p = "worker" /\ Served(c)

(* A connection is at one place at most, and while it is at one its         *)
(* descriptor number denotes its socket.                                    *)
PlaceInv ==
  \A c \in Conns, p \in Places :
    At(c, p) => /\ \A q \in Places : At(c, q) => q = p
                /\ m_clientfd[c] \in FDs /\ table[m_clientfd[c]] = c

(* The lists have no duplicates, no connection is on two of them, and the   *)
(* copy that run_epoll made under the spin lock is its own once the list is *)
(* cleared.  A connection that was not accepted has no descriptor number.   *)
ListInv ==
  /\ Distinct(backlog) /\ Distinct(m_newClientList) /\ Distinct(newClientList)
  /\ \A c \in Members(backlog) : m_clientfd[c] = 0 /\ peer[c] # "absent"
  /\ \A c \in Conns : peer[c] = "absent" => m_clientfd[c] = 0
  /\ lpc = "push" => newQuery \in Conns
  /\ lpc # "push" => newQuery = NoConn
  /\ epc = "clear" => m_spin = "epoll" /\ newClientList = m_newClientList
  /\ epc \notin {"clear", "init"} => newClientList = <<>>
  /\ epc # "clear" => Members(m_newClientList) \intersect Members(newClientList) = {}

(* A descriptor in use is the one its connection remembers, and an interest *)
(* entry points to the ClientQuery of the socket behind its number.         *)
FdInv ==
  \A f \in FDs :
    /\ table[f] # NoConn => m_clientfd[table[f]] = f
    /\ interest[f] # Unregistered => table[f] = interest[f].conn

(* No two events, no two jobs and no two busy workers are for the same      *)
(* connection.                                                              *)
WorkInv ==
  /\ \A j, k \in batch : j.conn = k.conn => j = k
  /\ \A i, j \in 1 .. Len(pending) : pending[i].conn = pending[j].conn => i = j
  /\ \A v, w \in Workers : Busy(v) /\ Busy(w) /\ Conn(v) = Conn(w) => v = w
  /\ \A w \in Workers : wpc[w] = "idle" <=> running[w] = NoTask

IInv == TypeOK /\ ListInv /\ FdInv /\ WorkInv /\ PlaceInv

-----------------------------------------------------------------------------
(* The lists of the server are sequences without duplicates.                *)
LEMMA MembersOf ==
  ASSUME NEW S, NEW q \in Seq(S)
  PROVE  Members(q) = Elements(q) /\ Members(q) \subseteq S /\ (Members(q) = {} <=> q = <<>>)
  BY MemberNonEmpty DEF Members, Elements

(* The two lists of new clients, one after the other.                       *)
LEMMA MembersOfBoth ==
  ASSUME NEW S, NEW q \in Seq(S), NEW r \in Seq(S)
  PROVE  Members(q \o r) = Members(q) \union Members(r)
<1>1. /\ Len(q) \in Nat /\ Len(r) \in Nat /\ Len(q \o r) = Len(q) + Len(r)
      /\ \A i \in 1 .. Len(q) + Len(r) :
           (q \o r)[i] = IF i <= Len(q) THEN q[i] ELSE r[i - Len(q)]
  OBVIOUS
<1>2. ASSUME NEW i \in 1 .. Len(q) PROVE q[i] \in Members(q \o r)
  <2>1. i \in 1 .. Len(q \o r) /\ (q \o r)[i] = q[i]
    BY <1>1
  <2> QED BY <2>1 DEF Members
<1>3. ASSUME NEW i \in 1 .. Len(r) PROVE r[i] \in Members(q \o r)
  <2>1. Len(q) + i \in 1 .. Len(q \o r) /\ (q \o r)[Len(q) + i] = r[i]
    BY <1>1
  <2> QED BY <2>1 DEF Members
<1>4. ASSUME NEW i \in 1 .. Len(q \o r) PROVE (q \o r)[i] \in Members(q) \union Members(r)
  <2>1. CASE i <= Len(q)
    BY <1>1, <2>1 DEF Members
  <2>2. CASE ~ (i <= Len(q))
    <3>1. i - Len(q) \in 1 .. Len(r) /\ (q \o r)[i] = r[i - Len(q)]
      BY <1>1, <2>2
    <3> QED BY <3>1 DEF Members
  <2> QED BY <2>1, <2>2
<1> QED BY <1>2, <1>3, <1>4 DEF Members

(* push_back of a connection that is not on the list.                       *)
LEMMA Appended ==
  ASSUME NEW S, NEW q \in Seq(S), NEW x \in S, Distinct(q), x \notin Members(q)
  PROVE  /\ Append(q, x) \in Seq(S) /\ Len(Append(q, x)) = Len(q) + 1
         /\ Distinct(Append(q, x))
         /\ Members(Append(q, x)) = Members(q) \union {x}
<1>1. ASSUME NEW front \in BOOLEAN, front = FALSE
      PROVE  /\ Pushed(q, x, front) \in Seq(S) /\ Len(Pushed(q, x, front)) = Len(q) + 1
             /\ Distinct(Pushed(q, x, front))
             /\ Elements(Pushed(q, x, front)) = Elements(q) \union {x}
  BY MembersOf, PushedProperties, PushedDistinct
<1>2. Pushed(q, x, FALSE) = Append(q, x)
  BY DEF Pushed
<1>3. /\ Append(q, x) \in Seq(S) /\ Len(Append(q, x)) = Len(q) + 1
      /\ Distinct(Append(q, x))
      /\ Elements(Append(q, x)) = Elements(q) \union {x}
  BY <1>1, <1>2
<1> QED BY <1>3, MembersOf

(* The first element leaves the list.                                       *)
LEMMA Popped ==
  ASSUME NEW S, NEW q \in Seq(S), q # <<>>, Distinct(q)
  PROVE  /\ Head(q) \in Members(q) /\ Head(q) \in S
         /\ Tail(q) \in Seq(S) /\ Distinct(Tail(q))
         /\ Members(Tail(q)) = Members(q) \ {Head(q)}
<1>1. /\ Head(q) \in Elements(q) /\ Head(q) \in S
      /\ Tail(q) \in Seq(S) /\ Distinct(Tail(q))
      /\ Elements(Tail(q)) = Elements(q) \ {Head(q)}
  BY PoppedProperties
<1> QED BY <1>1, MembersOf

(* A busy worker has a job, and the descriptor of its client is its own.    *)
LEMMA BusyWorker ==
  ASSUME IInv, NEW w \in Workers, Busy(w)
  PROVE  /\ running[w] \in Jobs /\ Conn(w) \in Conns
         /\ FD(w) \in FDs /\ table[FD(w)] = Conn(w)
         /\ At(Conn(w), "worker")
<1>1. running[w] \in Jobs
  <2>1. wpc[w] # "idle" /\ running[w] \in Jobs \union {NoTask}
    BY DEF IInv, TypeOK, Busy
  <2> QED BY <2>1 DEF IInv, WorkInv
<1>2. Conn(w) \in Conns
  BY <1>1 DEF Conn, Jobs
<1>3. At(Conn(w), "worker")
  BY DEF At, Served
<1>4. "worker" \in Places
  BY DEF Places
<1> QED BY <1>1, <1>2, <1>3, <1>4 DEF IInv, PlaceInv, FD

(* Every action keeps the types, on the strength of the whole invariant.    *)
LEMMA TypeStep == ASSUME IInv, Next PROVE TypeOK'
<1> USE DEF IInv, clientVars, kernelVars, listVars, listenVars, epollVars, stopVars, poolVars
<1>1. ASSUME NEW c \in Conns, Connect(c) PROVE TypeOK'
  BY <1>1 DEF Connect, TypeOK
<1>2. ASSUME NEW c \in Conns, Deliver(c) PROVE TypeOK'
  BY <1>2 DEF Deliver, TypeOK
<1>3. ASSUME NEW c \in Conns, Depart(c) PROVE TypeOK'
  BY <1>3, DeparturesAssumption DEF Depart, TypeOK
<1>4. CASE ListenTest
  BY <1>4 DEF ListenTest, TypeOK, ListenLabels
<1>5. CASE Accept
  <2>1. Head(backlog) \in Conns /\ Tail(backlog) \in Seq(Conns)
    BY <1>5, HeadTailProperties DEF Accept, TypeOK
  <2> QED BY <1>5, <2>1 DEF Accept, TypeOK, ListenLabels
<1>6. CASE AcceptFails
  BY <1>6 DEF AcceptFails, TypeOK, ListenLabels
<1>7. CASE AddClientQuery
  BY <1>7 DEF AddClientQuery, TypeOK, ListenLabels, ListInv
<1>8. CASE EpollTest \/ InitDone
  BY <1>8 DEF EpollTest, InitDone, TypeOK, EpollLabels
<1>8a. CASE CopyNewClients
  BY <1>8a DEF CopyNewClients, TypeOK, EpollLabels
<1>8b. CASE ClearNewClients
  BY <1>8b DEF ClearNewClients, TypeOK, EpollLabels
<1>9. CASE InitQuery
  <2>1. Head(newClientList) \in Conns /\ Tail(newClientList) \in Seq(Conns)
    BY <1>9, HeadTailProperties DEF InitQuery, TypeOK
  <2>2. interest' \in [FDs -> Entries]
    BY <1>9, <2>1 DEF InitQuery, TypeOK, Entries
  <2> QED BY <1>9, <2>1, <2>2 DEF InitQuery, TypeOK, EpollLabels
<1>10. CASE EpollWait
  <2>1. PICK some \in SUBSET ReadyFDs :
          /\ interest' = [f \in FDs |-> IF f \in some THEN AfterReport(f) ELSE interest[f]]
          /\ batch' = {JobFor(f) : f \in some}
          /\ epc' \in {"test", "dispatch"}
    BY <1>10 DEF EpollWait
  <2>2. ASSUME NEW f \in some PROVE AfterReport(f) \in Entries /\ JobFor(f) \in Jobs
    <3>1. f \in FDs /\ interest[f].arm \in {"in", "out"}
      BY <2>1 DEF ReadyFDs, Ready
    <3>2. PICK c \in Conns, a \in {"in", "out", "off"} : interest[f] = [conn |-> c, arm |-> a]
      <4>1. interest[f] \in [conn : Conns, arm : {"in", "out", "off"}]
        BY <3>1 DEF TypeOK, Entries, Unregistered
      <4>2. /\ interest[f].conn \in Conns /\ interest[f].arm \in {"in", "out", "off"}
            /\ interest[f] = [conn |-> interest[f].conn, arm |-> interest[f].arm]
        BY <4>1
      <4> QED BY <4>2
    <3>3. AfterReport(f) = [conn |-> c, arm |-> "off"]
      BY <3>2 DEF AfterReport
    <3>4. AfterReport(f) \in Entries
      <4>1. [conn |-> c, arm |-> "off"] \in [conn : Conns, arm : {"in", "out", "off"}]
        OBVIOUS
      <4> QED BY <3>3, <4>1 DEF Entries
    <3>5. JobFor(f) \in Jobs
      BY <3>2 DEF JobFor, Jobs
    <3> QED BY <3>4, <3>5
  <2>3. interest' \in [FDs -> Entries] /\ batch' \subseteq Jobs
    BY <2>1, <2>2 DEF TypeOK
  <2> QED BY <1>10, <2>1, <2>3 DEF EpollWait, TypeOK, EpollLabels
<1>11. CASE Dispatch
  BY <1>11 DEF Dispatch, TypeOK, EpollLabels, Pool!Submit
<1>12. CASE CloseEpoll
  BY <1>12 DEF CloseEpoll, TypeOK, EpollLabels, Entries
<1>13. CASE DestroyPool
  <2>1. /\ epc' \in {"join", "vanish", "delete"} /\ running' = running
        /\ phase' \in {"open", "closed", "gone"} /\ pending' \in Seq(Jobs)
    BY <1>13, EmptySeq DEF DestroyPool, TypeOK, Pool!Close, Pool!Discard, Pool!Vanish
  <2> QED BY <1>13, <2>1 DEF DestroyPool, TypeOK, EpollLabels
<1>14. CASE DeleteQueries
  BY <1>14 DEF DeleteQueries, TypeOK, EpollLabels
<1>15. ASSUME NEW w \in Workers, Begin(w) PROVE TypeOK'
  BY <1>15 DEF Begin, Goto, TypeOK, WorkerLabels, Pool!Begin
<1>16. ASSUME NEW w \in Workers, RecvLength(w) \/ RecvMessage(w) PROVE TypeOK'
  BY <1>16 DEF RecvLength, RecvMessage, Goto, TypeOK, WorkerLabels
<1>17. ASSUME NEW w \in Workers, Rearm(w) PROVE TypeOK'
  BY <1>17 DEF Rearm, Goto, TypeOK, WorkerLabels, Entries, Conn, Jobs, WorkInv
<1>18. ASSUME NEW w \in Workers, Abort(w) \/ Shutdown(w) PROVE TypeOK'
  <2>1. table[FD(w)] \in Conns
    BY <1>18, BusyWorker DEF Abort, Shutdown, Busy
  <2> QED BY <1>18, <2>1 DEF Abort, Shutdown, Goto, TypeOK, WorkerLabels
<1>19. ASSUME NEW w \in Workers, Send(w) PROVE TypeOK'
  BY <1>19 DEF Send, Goto, TypeOK, WorkerLabels
<1>20. ASSUME NEW w \in Workers, Deregister(w) \/ Close(w) PROVE TypeOK'
  BY <1>20 DEF Deregister, Close, Goto, TypeOK, WorkerLabels, Entries
<1>21. ASSUME NEW w \in Workers, Finish(w) PROVE TypeOK'
  BY <1>21 DEF Finish, Goto, TypeOK, WorkerLabels, Pool!Finish
<1>22. CASE AskForExit \/ JoinThreads
  BY <1>22 DEF AskForExit, JoinThreads, TypeOK
<1> QED BY <1>1, <1>2, <1>3, <1>4, <1>5, <1>6, <1>7, <1>8, <1>8a, <1>8b, <1>9, <1>10, <1>11, <1>12, <1>13,
   <1>14, <1>15, <1>16, <1>17, <1>18, <1>19, <1>20, <1>21, <1>22
   DEF Next, ListenStep, EpollStep, WorkerStep

-----------------------------------------------------------------------------
(* A step that hands connections on, from place to place or to none, with   *)
(* the descriptors as they are.                                             *)
LEMMA HandedOn ==
  ASSUME IInv, table' = table, m_clientfd' = m_clientfd,
         \A c \in Conns :
           \/ \A p \in Places : At(c, p)' => At(c, p)
           \/ /\ \E q \in Places : At(c, q)
              /\ \E r \in Places : \A p \in Places : At(c, p)' => p = r
  PROVE  PlaceInv'
<1> SUFFICES ASSUME NEW c \in Conns, NEW p \in Places, At(c, p)'
             PROVE  /\ \A q \in Places : At(c, q)' => q = p
                    /\ m_clientfd[c] \in FDs /\ table[m_clientfd[c]] = c
  BY DEF PlaceInv
<1>1. CASE \A q \in Places : At(c, q)' => At(c, q)
  BY <1>1 DEF IInv, PlaceInv
<1>2. CASE /\ \E q \in Places : At(c, q)
           /\ \E r \in Places : \A q \in Places : At(c, q)' => q = r
  BY <1>2 DEF IInv, PlaceInv
<1> QED BY <1>1, <1>2

(* A step that brings no connection to any place.                           *)
LEMMA NobodyComes ==
  ASSUME IInv, table' = table, m_clientfd' = m_clientfd,
         newQuery' \in {newQuery, NoConn}, interest' = interest, batch' = batch,
         pending' \in {pending, <<>>},
         \A c \in Conns : Listed(c)' => Listed(c),
         running' = running, \A w \in Workers : Busy(w)' => Busy(w)
  PROVE  PlaceInv'
<1>1. ASSUME NEW c \in Conns, NEW p \in Places, At(c, p)' PROVE At(c, p)
  <2>1. Listening(c)' => Listening(c)
    BY ConnsAssumption DEF Listening
  <2>2. (Armed(c)' => Armed(c)) /\ (Reported(c)' => Reported(c))
    BY DEF Armed, Reported
  <2>3. Queued(c)' => Queued(c)
    BY DEF Queued
  <2>4. Served(c)' => Served(c)
    BY DEF Served, Conn
  <2> QED BY <1>1, <2>1, <2>2, <2>3, <2>4 DEF At
<1> QED BY <1>1, HandedOn

(* The clients and stop() know nothing of the places.                       *)
LEMMA OutsideStep ==
  ASSUME IInv,
         \/ \E c \in Conns : Connect(c) \/ Deliver(c) \/ Depart(c)
         \/ AskForExit \/ JoinThreads
  PROVE  ListInv' /\ FdInv' /\ WorkInv' /\ PlaceInv'
<1>1. UNCHANGED <<table, interest, m_clientfd, newQuery, m_newClientList, newClientList, batch,
                  pending, running, wpc, lpc, epc, m_spin>>
  BY DEF Connect, Deliver, Depart, AskForExit, JoinThreads, kernelVars, listVars, listenVars,
     epollVars, poolVars
<1>2. FdInv' /\ WorkInv'
  BY <1>1 DEF IInv, FdInv, WorkInv, Busy, Conn
<1>3. PlaceInv'
  BY <1>1, NobodyComes DEF Listed, Busy
<1>4. ListInv'
  <2>1. ASSUME NEW c \in Conns, Connect(c) PROVE ListInv'
    <3>1. peer[c] = "absent" /\ backlog' = Append(backlog, c) /\ peer' = [peer EXCEPT ![c] = "open"]
      BY <2>1 DEF Connect
    <3>2. c \notin Members(backlog) /\ m_clientfd[c] = 0
      BY <3>1 DEF IInv, ListInv
    <3>3. Distinct(backlog') /\ Members(backlog') = Members(backlog) \union {c}
      BY <3>1, <3>2, Appended DEF IInv, TypeOK, ListInv
    <3> QED BY <1>1, <3>1, <3>2, <3>3 DEF IInv, TypeOK, ListInv
  <2>2. ASSUME backlog' = backlog, \A c \in Conns : peer'[c] = "absent" <=> peer[c] = "absent"
        PROVE ListInv'
    <3>1. Members(backlog) \subseteq Conns
      BY MembersOf DEF IInv, TypeOK
    <3> QED BY <1>1, <2>2, <3>1 DEF IInv, ListInv
  <2>3. CASE (\E c \in Conns : Deliver(c)) \/ AskForExit \/ JoinThreads
    BY <2>2, <2>3 DEF Deliver, AskForExit, JoinThreads, clientVars, listenVars
  <2>4. ASSUME NEW c \in Conns, Depart(c) PROVE ListInv'
    <3>1. /\ backlog' = backlog /\ peer[c] = "open"
          /\ \E how \in Departures : peer' = [peer EXCEPT ![c] = how]
      BY <2>4 DEF Depart, listenVars
    <3>2. \A d \in Conns : peer'[d] = "absent" <=> peer[d] = "absent"
      BY <3>1, DeparturesAssumption DEF IInv, TypeOK
    <3> QED BY <2>2, <3>1, <3>2
  <2> QED BY <2>1, <2>3, <2>4
<1> QED BY <1>2, <1>3, <1>4

-----------------------------------------------------------------------------
(* accept: the new connection has no descriptor yet and is nowhere; it gets *)
(* a number that denoted no socket.                                         *)
LEMMA AcceptStep ==
  ASSUME IInv, Accept PROVE ListInv' /\ FdInv' /\ WorkInv' /\ PlaceInv'
<1> DEFINE h == Head(backlog)
<1>1. /\ lpc = "accept" /\ lpc' = "push" /\ backlog # <<>>
      /\ newQuery' = h /\ backlog' = Tail(backlog)
      /\ UNCHANGED <<peer, interest, m_spin, m_newClientList, epc, newClientList, batch, pending, running, wpc>>
  BY DEF Accept, clientVars, listVars, epollVars, poolVars
<1>2. PICK f \in FDs : /\ table[f] = NoConn
                       /\ table' = [table EXCEPT ![f] = h]
                       /\ m_clientfd' = [m_clientfd EXCEPT ![h] = f]
  BY DEF Accept, LowestFree, FreeFDs
<1>3. /\ h \in Conns /\ h \in Members(backlog)
      /\ Distinct(Tail(backlog)) /\ Members(Tail(backlog)) = Members(backlog) \ {h}
  BY <1>1, Popped DEF IInv, TypeOK, ListInv
<1> HIDE DEF h
<1>4. m_clientfd[h] = 0 /\ peer[h] # "absent" /\ newQuery = NoConn
  BY <1>1, <1>3 DEF IInv, ListInv
<1>5. /\ \A c \in Conns : m_clientfd'[c] = IF c = h THEN f ELSE m_clientfd[c]
      /\ \A g \in FDs : table'[g] = IF g = f THEN h ELSE table[g]
  BY <1>2, <1>3 DEF IInv, TypeOK
<1>6. Members(backlog) \subseteq Conns
  BY MembersOf DEF IInv, TypeOK
<1>7. ListInv'
  BY <1>1, <1>3, <1>4, <1>5, <1>6 DEF IInv, ListInv
<1>8. WorkInv'
  BY <1>1 DEF IInv, WorkInv, Busy, Conn
<1>9. FdInv'
  <2>1. f # 0 /\ h # NoConn /\ table \in [FDs -> Conns \union {NoConn}]
    BY <1>3, FDsAssumption, ConnsAssumption DEF IInv, TypeOK
  <2>2. \A g \in FDs : interest[g] # Unregistered => table[g] = interest[g].conn /\ table[g] # NoConn
    BY ConnsAssumption DEF IInv, FdInv, TypeOK, Entries
  <2>3. \A g \in FDs : table[g] # h
    BY <1>4, <2>1, FDsAssumption DEF IInv, FdInv
  <2>4. ASSUME NEW g \in FDs, table'[g] # NoConn PROVE m_clientfd'[table'[g]] = g
    <3>1. CASE g = f
      BY <1>3, <1>5, <3>1
    <3>2. CASE g # f
      <4>1. table'[g] = table[g] /\ table[g] \in Conns /\ table[g] # h
        BY <1>5, <2>1, <2>3, <2>4, <3>2
      <4> QED BY <1>5, <2>4, <4>1 DEF IInv, FdInv
    <3> QED BY <3>1, <3>2
  <2>5. \A g \in FDs : interest'[g] # Unregistered => table'[g] = interest'[g].conn
    BY <1>1, <1>2, <1>5, <2>2
  <2> QED BY <2>4, <2>5 DEF FdInv
<1>10. \A p \in Places : ~ At(h, p)
  BY <1>3, <1>4, FDsAssumption DEF IInv, PlaceInv
<1>11. ASSUME NEW c \in Conns, NEW p \in Places
       PROVE At(c, p)' <=> (At(c, p) \/ (c = h /\ p = "listener"))
  <2>1. Listening(c)' <=> c = h
    BY <1>1 DEF Listening
  <2>2. ~ Listening(c)
    BY <1>4, ConnsAssumption DEF Listening
  <2>3. /\ Listed(c)' <=> Listed(c)
        /\ Armed(c)' <=> Armed(c)
        /\ Reported(c)' <=> Reported(c)
        /\ Queued(c)' <=> Queued(c)
        /\ Served(c)' <=> Served(c)
    BY <1>1 DEF Listed, Armed, Reported, Queued, Served, Busy, Conn
  <2> QED BY <2>1, <2>2, <2>3 DEF At
<1>12. PlaceInv'
  <2> SUFFICES ASSUME NEW c \in Conns, NEW p \in Places, At(c, p)'
               PROVE  /\ \A q \in Places : At(c, q)' => q = p
                      /\ m_clientfd'[c] \in FDs /\ table'[m_clientfd'[c]] = c
    BY DEF PlaceInv
  <2>1. CASE c = h
    BY <1>5, <1>10, <1>11, <2>1
  <2>2. CASE c # h
    <3>1. At(c, p) /\ \A q \in Places : At(c, q)' => At(c, q)
      BY <1>11, <2>2
    <3>2. m_clientfd[c] \in FDs /\ table[m_clientfd[c]] = c /\ \A q \in Places : At(c, q)' => q = p
      BY <3>1 DEF IInv, PlaceInv
    <3>3. m_clientfd[c] # f
      BY <1>2, <3>2, ConnsAssumption
    <3> QED BY <1>5, <2>2, <3>2, <3>3
  <2> QED BY <2>1, <2>2
<1> QED BY <1>7, <1>8, <1>9, <1>12

(* The other steps of the listening thread.                                 *)
LEMMA ListenInv ==
  ASSUME IInv, ListenTest \/ AcceptFails \/ AddClientQuery
  PROVE  ListInv' /\ FdInv' /\ WorkInv' /\ PlaceInv'
<1>1. UNCHANGED <<peer, table, interest, m_clientfd, m_spin, newClientList, epc, batch, pending, running, wpc>>
  BY DEF ListenTest, AcceptFails, AddClientQuery, clientVars, kernelVars, listVars, epollVars, poolVars
<1>2. FdInv' /\ WorkInv'
  BY <1>1 DEF IInv, FdInv, WorkInv, Busy, Conn
<1>3. CASE ListenTest \/ AcceptFails
  <2>1. /\ m_newClientList' = m_newClientList /\ newQuery' = newQuery
        /\ lpc # "push" /\ lpc' # "push" /\ backlog' \in {backlog, <<>>}
    BY <1>3 DEF ListenTest, AcceptFails, listVars
  <2>2. PlaceInv'
    BY <1>1, <2>1, NobodyComes DEF Listed, Busy
  <2>3. Distinct(<<>>) /\ Members(<<>>) = {}
    BY EmptyQueueMembers DEF Members, Elements
  <2>4. ListInv'
    BY <1>1, <2>1, <2>3 DEF IInv, ListInv
  <2> QED BY <1>2, <2>2, <2>4
<1>4. CASE AddClientQuery
  <2> DEFINE q == newQuery
  <2>1. /\ lpc = "push" /\ lpc' = "test" /\ m_spin = "free" /\ newQuery' = NoConn
        /\ m_newClientList' = Append(m_newClientList, q)
        /\ backlog' = backlog
    BY <1>4 DEF AddClientQuery
  <2>2. q \in Conns /\ epc # "clear" /\ At(q, "listener") /\ "listener" \in Places /\ "list" \in Places
    BY <2>1 DEF IInv, ListInv, At, Listening, Places
  <2>3. ~ Listed(q)
    <3>1. ~ At(q, "list")
      BY <2>2 DEF IInv, PlaceInv
    <3> QED BY <3>1 DEF At
  <2>4. /\ Distinct(m_newClientList')
        /\ Members(m_newClientList') = Members(m_newClientList) \union {q}
    BY <2>1, <2>2, <2>3, Appended DEF IInv, TypeOK, ListInv, Listed
  <2>5. ListInv'
    BY <1>1, <2>1, <2>2, <2>3, <2>4 DEF IInv, ListInv, Listed
  <2>6. ASSUME NEW c \in Conns, NEW p \in Places
        PROVE  At(c, p)' => IF c = q THEN p = "list" ELSE At(c, p)
    <3>1. ~ Listening(c)'
      BY <2>1, ConnsAssumption DEF Listening
    <3>2. Listed(c)' <=> (Listed(c) \/ c = q)
      BY <1>1, <2>4 DEF Listed
    <3>3. /\ Armed(c)' <=> Armed(c)
          /\ Reported(c)' <=> Reported(c)
          /\ Queued(c)' <=> Queued(c)
          /\ Served(c)' <=> Served(c)
      BY <1>1 DEF Armed, Reported, Queued, Served, Busy, Conn
    <3>4. c # q => (At(c, p)' => At(c, p))
      BY <3>1, <3>2, <3>3 DEF At
    <3>5. ASSUME c = q, At(c, p)', p # "list" PROVE FALSE
      <4>1. At(c, p) /\ p # "listener"
        BY <3>1, <3>3, <3>5 DEF At
      <4> QED BY <2>2, <3>5, <4>1 DEF IInv, PlaceInv
    <3> QED BY <3>4, <3>5
  <2> HIDE DEF q
  <2>7. PlaceInv'
    <3>1. ASSUME NEW c \in Conns
          PROVE  \/ \A p \in Places : At(c, p)' => At(c, p)
                 \/ /\ \E r \in Places : At(c, r)
                    /\ \E r \in Places : \A p \in Places : At(c, p)' => p = r
      BY <2>2, <2>6
    <3> QED BY <1>1, <3>1, HandedOn
  <2> QED BY <1>2, <2>5, <2>7
<1> QED BY <1>3, <1>4

-----------------------------------------------------------------------------
(* The steps of the epoll thread that hand nobody on: its tests, the copy   *)
(* of the list under the spin lock, and the end of pool and queries.        *)
LEMMA EpollQuiet ==
  ASSUME IInv, EpollTest \/ CopyNewClients \/ ClearNewClients \/ InitDone \/ DestroyPool \/ DeleteQueries
  PROVE  ListInv' /\ FdInv' /\ WorkInv' /\ PlaceInv'
<1>1. /\ UNCHANGED <<peer, backlog, table, interest, m_clientfd, lpc, newQuery, batch, running, wpc>>
      /\ pending' \in {pending, <<>>}
  BY DEF EpollTest, CopyNewClients, ClearNewClients, InitDone, DestroyPool, DeleteQueries, Pool!Close,
     Pool!Discard, Pool!Vanish, clientVars, kernelVars, listVars, listenVars, epollVars, poolVars
<1>2. Distinct(<<>>) /\ Members(<<>>) = {}
  BY EmptyQueueMembers DEF Members, Elements
<1>3. FdInv' /\ WorkInv'
  BY <1>1 DEF IInv, FdInv, WorkInv, Busy, Conn
<1>4. \/ /\ UNCHANGED <<m_newClientList, newClientList, m_spin>>
         /\ epc # "clear" /\ epc' # "clear"
         /\ epc \in {"clear", "init"} => newClientList = <<>>
      \/ /\ epc = "copy" /\ epc' = "clear" /\ m_spin' = "epoll"
         /\ m_newClientList' = m_newClientList /\ newClientList' = m_newClientList
      \/ /\ epc = "clear" /\ epc' = "init"
         /\ m_newClientList' = <<>> /\ newClientList' = newClientList
  BY DEF EpollTest, CopyNewClients, ClearNewClients, InitDone, DestroyPool, DeleteQueries, listVars
<1>5. ListInv' /\ \A c \in Conns : Listed(c)' => Listed(c)
  BY <1>1, <1>2, <1>4 DEF IInv, ListInv, Listed
<1>6. PlaceInv'
  BY <1>1, <1>5, NobodyComes DEF Busy
<1> QED BY <1>3, <1>5, <1>6

(* epoll_ctl EPOLL_CTL_ADD: the connection goes from the list to the        *)
(* interest entry of its own number.                                        *)
LEMMA InitStep ==
  ASSUME IInv, InitQuery PROVE ListInv' /\ FdInv' /\ WorkInv' /\ PlaceInv'
<1> DEFINE h == Head(newClientList)
           f == m_clientfd[h]
<1>1. /\ epc = "init" /\ newClientList # <<>> /\ newClientList' = Tail(newClientList)
      /\ interest' = IF interest[f] = Unregistered
                       THEN [interest EXCEPT ![f] = [conn |-> h, arm |-> "in"]]
                       ELSE interest
      /\ UNCHANGED <<peer, backlog, table, m_clientfd, lpc, newQuery, m_spin, m_newClientList, epc,
                     batch, pending, running, wpc>>
  BY DEF InitQuery, clientVars, listVars, listenVars, poolVars
<1>2. /\ h \in Conns /\ h \in Members(newClientList)
      /\ Distinct(Tail(newClientList))
      /\ Members(Tail(newClientList)) = Members(newClientList) \ {h}
  BY <1>1, Popped DEF IInv, TypeOK, ListInv
<1>3. At(h, "list") /\ "list" \in Places /\ "armed" \in Places
  BY <1>2 DEF At, Listed, Places
<1>4. f \in FDs /\ table[f] = h
  BY <1>2, <1>3 DEF IInv, PlaceInv
<1>5. h \notin Members(m_newClientList)
  BY <1>1, <1>2 DEF IInv, ListInv
<1> HIDE DEF h, f
<1>6. ListInv'
  BY <1>1, <1>2 DEF IInv, ListInv
<1>7. WorkInv'
  BY <1>1 DEF IInv, WorkInv, Busy, Conn
<1>8. \A g \in FDs : interest'[g] = IF g = f /\ interest[f] = Unregistered
                                      THEN [conn |-> h, arm |-> "in"] ELSE interest[g]
  BY <1>1, <1>4 DEF IInv, TypeOK
<1>9. FdInv'
  BY <1>1, <1>4, <1>8 DEF IInv, FdInv
<1>10. ASSUME NEW c \in Conns, NEW p \in Places
       PROVE  At(c, p)' => IF c = h THEN p = "armed" ELSE At(c, p)
  <2>1. Listed(c)' <=> (Listed(c) /\ c # h)
    BY <1>1, <1>2, <1>5 DEF Listed
  <2>2. c # h => (Armed(c)' => Armed(c))
    BY <1>8 DEF Armed
  <2>3. /\ Listening(c)' <=> Listening(c)
        /\ Reported(c)' <=> Reported(c)
        /\ Queued(c)' <=> Queued(c)
        /\ Served(c)' <=> Served(c)
    BY <1>1 DEF Listening, Reported, Queued, Served, Busy, Conn
  <2>4. c # h => (At(c, p)' => At(c, p))
    BY <2>1, <2>2, <2>3 DEF At
  <2>5. ASSUME c = h, At(c, p)', p # "armed" PROVE FALSE
    <3>1. At(c, p) /\ p # "list"
      BY <2>1, <2>3, <2>5 DEF At
    <3> QED BY <1>2, <1>3, <2>5, <3>1 DEF IInv, PlaceInv
  <2> QED BY <2>4, <2>5
<1>11. ASSUME NEW c \in Conns
       PROVE  \/ \A p \in Places : At(c, p)' => At(c, p)
              \/ /\ \E r \in Places : At(c, r)
                 /\ \E r \in Places : \A p \in Places : At(c, p)' => p = r
  BY <1>3, <1>10
<1>12. PlaceInv'
  BY <1>1, <1>11, HandedOn
<1> QED BY <1>6, <1>7, <1>9, <1>12

(* epoll_wait: an entry that is reported is disarmed; its event takes its   *)
(* place.                                                                   *)
LEMMA WaitStep ==
  ASSUME IInv, StopInv, EpollWait PROVE ListInv' /\ FdInv' /\ WorkInv' /\ PlaceInv'
<1>1. PICK some \in SUBSET ReadyFDs :
        /\ interest' = [f \in FDs |-> IF f \in some THEN AfterReport(f) ELSE interest[f]]
        /\ batch' = {JobFor(f) : f \in some}
        /\ epc' \in {"test", "dispatch"}
  BY DEF EpollWait
<1>2. /\ epc = "wait"
      /\ UNCHANGED <<peer, backlog, table, m_clientfd, lpc, newQuery, m_spin, m_newClientList,
                     newClientList, pending, running, wpc>>
  BY DEF EpollWait, clientVars, listVars, listenVars, poolVars
<1>3. batch = {}
  BY <1>2 DEF StopInv
<1>4. ASSUME NEW f \in some
      PROVE  /\ f \in FDs /\ interest[f].conn \in Conns /\ interest[f].arm \in {"in", "out"}
             /\ JobFor(f).conn = interest[f].conn
             /\ AfterReport(f).conn = interest[f].conn /\ AfterReport(f).arm = "off"
             /\ interest[f] # Unregistered
             /\ table[f] = interest[f].conn /\ m_clientfd[interest[f].conn] = f
  <2>1. f \in FDs /\ interest[f].arm \in {"in", "out"}
    BY <1>1 DEF ReadyFDs, Ready
  <2>2. interest[f] # Unregistered /\ interest[f] \in [conn : Conns, arm : {"in", "out", "off"}]
    BY <2>1 DEF IInv, TypeOK, Entries, Unregistered
  <2>3. interest[f].conn \in Conns
    BY <2>2
  <2>4. JobFor(f).conn = interest[f].conn
    BY DEF JobFor
  <2>5. AfterReport(f).conn = interest[f].conn /\ AfterReport(f).arm = "off"
    BY <2>2 DEF AfterReport
  <2>6. table[f] = interest[f].conn /\ m_clientfd[interest[f].conn] = f
    BY <2>1, <2>2, <2>3, ConnsAssumption DEF IInv, FdInv
  <2> QED BY <2>1, <2>2, <2>3, <2>4, <2>5, <2>6
<1>5. ListInv'
  BY <1>1, <1>2 DEF IInv, ListInv
<1>6. \A f \in FDs : interest'[f].conn = interest[f].conn
  BY <1>1, <1>4
<1>7. FdInv'
  <2>1. \A f \in FDs : f \notin some => interest'[f] = interest[f]
    BY <1>1
  <2> QED BY <1>2, <1>4, <1>6, <2>1 DEF IInv, FdInv
<1>8. WorkInv'
  <2>1. \A j, k \in batch' : j.conn = k.conn => j = k
    BY <1>1, <1>4
  <2> QED BY <1>2, <2>1 DEF IInv, WorkInv, Busy, Conn
<1>9. ASSUME NEW c \in Conns
      PROVE  \/ \A p \in Places : At(c, p)' => At(c, p)
             \/ /\ \E r \in Places : At(c, r)
                /\ \E r \in Places : \A p \in Places : At(c, p)' => p = r
  <2>0. "armed" \in Places /\ "event" \in Places
    BY DEF Places
  <2>1. /\ Listening(c)' <=> Listening(c)
        /\ Listed(c)' <=> Listed(c)
        /\ Queued(c)' <=> Queued(c)
        /\ Served(c)' <=> Served(c)
    BY <1>2 DEF Listening, Listed, Queued, Served, Busy, Conn
  <2>2. Armed(c)' => Armed(c)
    BY <1>1, <1>4 DEF Armed
  <2>3. CASE ~ Reported(c)'
    BY <2>1, <2>2, <2>3 DEF At
  <2>4. CASE Reported(c)'
    <3>1. PICK f \in some : interest[f].conn = c
      BY <1>1, <1>4, <2>4 DEF Reported
    <3>2. Armed(c)
      BY <1>4, <3>1 DEF Armed
    <3>3. ~ Armed(c)'
      <4> SUFFICES ASSUME NEW g \in FDs, interest'[g].conn = c, interest'[g].arm # "off" PROVE FALSE
        BY DEF Armed
      <4>1. g \notin some
        BY <1>1, <1>4
      <4>2. interest[g].conn = c /\ interest[g] # Unregistered
        BY <1>6, ConnsAssumption DEF Unregistered
      <4>3. table[g] = c
        BY <4>2 DEF IInv, FdInv
      <4>4. m_clientfd[c] = g
        BY <4>3, ConnsAssumption DEF IInv, FdInv
      <4> QED BY <1>4, <3>1, <4>1, <4>4
    <3>4. At(c, "armed") /\ \A p \in Places : At(c, p) => p = "armed"
      BY <2>0, <3>2 DEF IInv, PlaceInv, At
    <3>5. \A p \in Places : At(c, p)' => p = "event"
      <4> SUFFICES ASSUME NEW p \in Places, At(c, p)', p # "event" PROVE FALSE
        OBVIOUS
      <4>1. At(c, p) /\ p # "armed"
        BY <2>1, <3>3 DEF At
      <4> QED BY <3>4, <4>1
    <3> QED BY <2>0, <3>4, <3>5
  <2> QED BY <2>3, <2>4
<1>10. PlaceInv'
  BY <1>2, <1>9, HandedOn
<1> QED BY <1>5, <1>7, <1>8, <1>10

(* addTask: the event becomes a queued job; the connection was nowhere else.*)
LEMMA DispatchStep ==
  ASSUME IInv, Dispatch PROVE ListInv' /\ FdInv' /\ WorkInv' /\ PlaceInv'
<1>1. PICK job \in batch : /\ pending' = Append(pending, job)
                           /\ batch' = batch \ {job}
  BY DEF Dispatch, Pool!Submit
<1>2. /\ epc = "dispatch" /\ epc' \in {"test", "dispatch"}
      /\ UNCHANGED <<peer, backlog, table, interest, m_clientfd, lpc, newQuery, m_spin, m_newClientList,
                     newClientList, running, wpc>>
  BY DEF Dispatch, Pool!Submit, clientVars, kernelVars, listVars, listenVars
<1>3. job \in Jobs /\ job.conn \in Conns
  BY DEF IInv, TypeOK, Jobs
<1>4. /\ "event" \in Places /\ "queue" \in Places
      /\ At(job.conn, "event")
  BY DEF Places, At, Reported
<1>5. /\ Len(pending) \in Nat /\ Len(pending') = Len(pending) + 1
      /\ pending'[Len(pending) + 1] = job
      /\ \A i \in 1 .. Len(pending) : pending'[i] = pending[i]
  BY <1>1, <1>3, AppendProperties, LenProperties DEF IInv, TypeOK
<1>6. ~ Queued(job.conn)
  <2>1. ~ At(job.conn, "queue")
    BY <1>3, <1>4 DEF IInv, PlaceInv
  <2> QED BY <2>1 DEF At
<1>7. ListInv' /\ FdInv'
  BY <1>2 DEF IInv, ListInv, FdInv
<1>8. WorkInv'
  <2>1. \A j, k \in batch' : j.conn = k.conn => j = k
    BY <1>1 DEF IInv, WorkInv
  <2>2. ASSUME NEW i \in 1 .. Len(pending'), NEW j \in 1 .. Len(pending'),
               pending'[i].conn = pending'[j].conn
        PROVE  i = j
    <3>1. \A k \in 1 .. Len(pending) : pending'[k].conn # job.conn
      BY <1>5, <1>6 DEF Queued
    <3>2. \A k \in 1 .. Len(pending') : k \in 1 .. Len(pending) \/ k = Len(pending) + 1
      BY <1>5
    <3>3. CASE i \in 1 .. Len(pending) /\ j \in 1 .. Len(pending)
      BY <1>5, <2>2, <3>3 DEF IInv, WorkInv
    <3>4. CASE ~ (i \in 1 .. Len(pending) /\ j \in 1 .. Len(pending))
      BY <1>5, <2>2, <3>1, <3>2, <3>4
    <3> QED BY <3>3, <3>4
  <2> QED BY <1>2, <2>1, <2>2 DEF IInv, WorkInv, Busy, Conn
<1>9. ASSUME NEW c \in Conns, NEW p \in Places
      PROVE  At(c, p)' => IF c = job.conn THEN p = "queue" ELSE At(c, p)
  <2>1. /\ Listening(c)' <=> Listening(c)
        /\ Listed(c)' <=> Listed(c)
        /\ Armed(c)' <=> Armed(c)
        /\ Served(c)' <=> Served(c)
    BY <1>2 DEF Listening, Listed, Armed, Served, Busy, Conn
  <2>2. Reported(c)' => Reported(c) /\ c # job.conn
    BY <1>1 DEF Reported, IInv, WorkInv
  <2>3. c # job.conn => (Queued(c)' => Queued(c))
    <3> SUFFICES ASSUME c # job.conn, NEW i \in 1 .. Len(pending'), pending'[i].conn = c
                 PROVE  Queued(c)
      BY DEF Queued
    <3>1. i \in 1 .. Len(pending)
      BY <1>5
    <3> QED BY <1>5, <3>1 DEF Queued
  <2>4. c # job.conn => (At(c, p)' => At(c, p))
    BY <2>1, <2>2, <2>3 DEF At
  <2>5. ASSUME c = job.conn, At(c, p)', p # "queue" PROVE FALSE
    <3>1. At(c, p) /\ p # "event"
      BY <2>1, <2>2, <2>5 DEF At
    <3> QED BY <1>3, <1>4, <2>5, <3>1 DEF IInv, PlaceInv
  <2> QED BY <2>4, <2>5
<1>10. ASSUME NEW c \in Conns
       PROVE  \/ \A p \in Places : At(c, p)' => At(c, p)
              \/ /\ \E r \in Places : At(c, r)
                 /\ \E r \in Places : \A p \in Places : At(c, p)' => p = r
  BY <1>4, <1>9
<1>11. PlaceInv'
  BY <1>2, <1>10, HandedOn
<1> QED BY <1>7, <1>8, <1>11

(* Entries that disappear arm nobody.                                       *)
LEMMA EntriesGo ==
  ASSUME IInv, \A f \in FDs : interest'[f] \in {interest[f], Unregistered}
  PROVE  \A c \in Conns : Armed(c)' => Armed(c)
<1>1. Unregistered.conn \notin Conns
  BY ConnsAssumption DEF Unregistered
<1> QED BY <1>1 DEF Armed

(* close(epfd) drops the interest list.                                     *)
LEMMA CloseStep ==
  ASSUME IInv, CloseEpoll PROVE ListInv' /\ FdInv' /\ WorkInv' /\ PlaceInv'
<1>1. /\ interest' = [f \in FDs |-> Unregistered] /\ epc = "close" /\ epc' = "shutdown"
      /\ UNCHANGED <<peer, backlog, table, m_clientfd, lpc, newQuery, m_spin, m_newClientList,
                     newClientList, batch, pending, running, wpc>>
  BY DEF CloseEpoll, clientVars, listVars, listenVars, poolVars
<1>2. ListInv' /\ FdInv' /\ WorkInv'
  BY <1>1 DEF IInv, ListInv, FdInv, WorkInv, Busy, Conn
<1>3. ASSUME NEW c \in Conns, NEW p \in Places, At(c, p)' PROVE At(c, p)
  <2>1. Armed(c)' => Armed(c)
    BY <1>1, EntriesGo
  <2>2. /\ Listening(c)' <=> Listening(c)
        /\ Listed(c)' <=> Listed(c)
        /\ Reported(c)' <=> Reported(c)
        /\ Queued(c)' <=> Queued(c)
        /\ Served(c)' <=> Served(c)
    BY <1>1 DEF Listening, Listed, Reported, Queued, Served, Busy, Conn
  <2> QED BY <1>3, <2>1, <2>2 DEF At
<1> QED BY <1>1, <1>2, <1>3, HandedOn

-----------------------------------------------------------------------------
(* A worker takes the first job of the queue: nobody else is busy with its  *)
(* connection.                                                              *)
LEMMA BeginStep ==
  ASSUME IInv, NEW w \in Workers, Begin(w)
  PROVE  ListInv' /\ FdInv' /\ WorkInv' /\ PlaceInv'
<1> DEFINE job == Head(pending)
<1>1. /\ pending # <<>> /\ pending' = Tail(pending)
      /\ running[w] = NoTask /\ running' = [running EXCEPT ![w] = job]
      /\ \E l \in {"recvLength", "send"} : wpc' = [wpc EXCEPT ![w] = l]
      /\ UNCHANGED <<peer, backlog, table, interest, m_clientfd, lpc, newQuery, m_spin, m_newClientList,
                     newClientList, epc, batch>>
  BY DEF Begin, Pool!Begin, Goto, clientVars, kernelVars, listVars, listenVars, epollVars
<1>2. /\ Len(pending) \in Nat \ {0}
      /\ Len(pending') = Len(pending) - 1
      /\ \A i \in 1 .. Len(pending') : pending'[i] = pending[i + 1]
      /\ job \in Jobs /\ job = pending[1]
  BY <1>1, HeadTailProperties, EmptySeq, LenProperties DEF IInv, TypeOK
<1> HIDE DEF job
<1>3. job.conn \in Conns /\ job # NoTask
  BY <1>2, NoTaskAssumption DEF Jobs
<1>4. /\ "queue" \in Places /\ "worker" \in Places
      /\ At(job.conn, "queue") /\ ~ Served(job.conn)
  <2>1. "queue" \in Places /\ "worker" \in Places
    BY DEF Places
  <2>2. Queued(job.conn)
    BY <1>2 DEF Queued
  <2>3. At(job.conn, "queue")
    BY <2>2 DEF At
  <2>4. ~ At(job.conn, "worker")
    BY <1>3, <2>1, <2>3 DEF IInv, PlaceInv
  <2> QED BY <2>1, <2>3, <2>4 DEF At
<1>5. \A v \in Workers : /\ v # w => wpc'[v] = wpc[v] /\ running'[v] = running[v]
                         /\ running'[w] = job /\ wpc'[w] \in {"recvLength", "send"}
  BY <1>1 DEF IInv, TypeOK
<1>6. /\ Busy(w)' /\ Conn(w)' = job.conn
      /\ \A v \in Workers \ {w} : (Busy(v)' <=> Busy(v)) /\ Conn(v)' = Conn(v)
  BY <1>5 DEF Busy, Conn
<1>7. ListInv' /\ FdInv'
  BY <1>1 DEF IInv, ListInv, FdInv
<1>8. WorkInv'
  <2>1. \A i, j \in 1 .. Len(pending') : pending'[i].conn = pending'[j].conn => i = j
    <3> SUFFICES ASSUME NEW i \in 1 .. Len(pending'), NEW j \in 1 .. Len(pending'),
                        pending'[i].conn = pending'[j].conn
                 PROVE  i = j
      OBVIOUS
    <3>1. i + 1 \in 1 .. Len(pending) /\ j + 1 \in 1 .. Len(pending)
      BY <1>2
    <3>2. i + 1 = j + 1
      BY <1>2, <3>1 DEF IInv, WorkInv
    <3> QED BY <1>2, <3>2
  <2>2. \A u, v \in Workers : Busy(u)' /\ Busy(v)' /\ Conn(u)' = Conn(v)' => u = v
    BY <1>4, <1>6 DEF IInv, WorkInv, Served
  <2>3. \A v \in Workers : wpc'[v] = "idle" <=> running'[v] = NoTask
    BY <1>3, <1>5 DEF IInv, WorkInv
  <2>4. \A j, k \in batch' : j.conn = k.conn => j = k
    BY <1>1 DEF IInv, WorkInv
  <2> QED BY <2>1, <2>2, <2>3, <2>4 DEF WorkInv
<1>9. ASSUME NEW c \in Conns, NEW p \in Places
      PROVE  At(c, p)' => IF c = job.conn THEN p = "worker" ELSE At(c, p)
  <2>1. /\ Listening(c)' <=> Listening(c)
        /\ Listed(c)' <=> Listed(c)
        /\ Armed(c)' <=> Armed(c)
        /\ Reported(c)' <=> Reported(c)
    BY <1>1 DEF Listening, Listed, Armed, Reported
  <2>2. Queued(c)' => Queued(c) /\ c # job.conn
    <3> SUFFICES ASSUME NEW i \in 1 .. Len(pending'), pending'[i].conn = c
                 PROVE  Queued(c) /\ c # job.conn
      BY DEF Queued
    <3>1. i + 1 \in 1 .. Len(pending) /\ 1 \in 1 .. Len(pending) /\ i + 1 # 1
      BY <1>2
    <3>2. pending[i + 1].conn = c
      BY <1>2
    <3> QED BY <1>2, <3>1, <3>2 DEF Queued, IInv, WorkInv
  <2>3. c # job.conn => (Served(c)' => Served(c))
    BY <1>6 DEF Served
  <2>4. c # job.conn => (At(c, p)' => At(c, p))
    BY <2>1, <2>2, <2>3 DEF At
  <2>5. ASSUME c = job.conn, At(c, p)', p # "worker" PROVE FALSE
    <3>1. At(c, p) /\ p # "queue"
      BY <2>1, <2>2, <2>5 DEF At
    <3> QED BY <1>3, <1>4, <2>5, <3>1 DEF IInv, PlaceInv
  <2> QED BY <2>4, <2>5
<1>10. ASSUME NEW c \in Conns
       PROVE  \/ \A p \in Places : At(c, p)' => At(c, p)
              \/ /\ \E r \in Places : At(c, r)
                 /\ \E r \in Places : \A p \in Places : At(c, p)' => p = r
  BY <1>4, <1>9
<1>11. PlaceInv'
  BY <1>1, <1>10, HandedOn
<1> QED BY <1>7, <1>8, <1>11

(* Only worker w moves: it stays busy, or it finishes.                      *)
LEMMA OneWorker ==
  ASSUME IInv, NEW w \in Workers, Busy(w),
         NEW l \in WorkerLabels \ {"idle"}, wpc' = [wpc EXCEPT ![w] = l],
         running' = running, batch' = batch, pending' = pending
  PROVE  /\ WorkInv'
         /\ \A v \in Workers : Conn(v)' = Conn(v) /\ (Busy(v)' => Busy(v))
<1>1. \A v \in Workers : wpc'[v] = IF v = w THEN l ELSE wpc[v]
  BY DEF IInv, TypeOK
<1>2. \A v \in Workers : Conn(v)' = Conn(v) /\ (Busy(v)' => Busy(v))
  BY <1>1 DEF Busy, Conn
<1>3. \A v \in Workers : wpc'[v] = "idle" <=> wpc[v] = "idle"
  BY <1>1 DEF Busy
<1> QED BY <1>2, <1>3 DEF IInv, WorkInv

(* The steps of a handler on its own descriptor, except those that arm or   *)
(* close it.                                                                *)
LEMMA HandlerStep ==
  ASSUME IInv, NEW w \in Workers,
         RecvLength(w) \/ RecvMessage(w) \/ Abort(w) \/ Send(w) \/ Deregister(w) \/ Shutdown(w)
  PROVE  ListInv' /\ FdInv' /\ WorkInv' /\ PlaceInv'
<1>1. Busy(w) /\ \E l \in WorkerLabels \ {"idle"} : wpc' = [wpc EXCEPT ![w] = l]
  BY DEF RecvLength, RecvMessage, Abort, Send, Deregister, Shutdown, Goto, Busy, WorkerLabels
<1>2. UNCHANGED <<peer, backlog, table, m_clientfd, lpc, newQuery, m_spin, m_newClientList,
                  newClientList, epc, batch, pending, running>>
  BY DEF RecvLength, RecvMessage, Abort, Send, Deregister, Shutdown, clientVars, kernelVars,
     listVars, listenVars, epollVars, poolVars
<1>3. \A f \in FDs : interest'[f] \in {interest[f], Unregistered}
  BY DEF RecvLength, RecvMessage, Abort, Send, Deregister, Shutdown, kernelVars, IInv, TypeOK
<1>4. WorkInv' /\ \A v \in Workers : Conn(v)' = Conn(v) /\ (Busy(v)' => Busy(v))
  BY <1>1, <1>2, OneWorker
<1>5. ListInv' /\ FdInv'
  BY <1>2, <1>3 DEF IInv, ListInv, FdInv
<1>6. ASSUME NEW c \in Conns, NEW p \in Places, At(c, p)' PROVE At(c, p)
  <2>1. (Armed(c)' => Armed(c)) /\ (Served(c)' => Served(c))
    BY <1>3, <1>4, EntriesGo DEF Served
  <2>2. /\ Listening(c)' <=> Listening(c)
        /\ Listed(c)' <=> Listed(c)
        /\ Reported(c)' <=> Reported(c)
        /\ Queued(c)' <=> Queued(c)
    BY <1>2 DEF Listening, Listed, Reported, Queued
  <2> QED BY <1>6, <2>1, <2>2 DEF At
<1>7. PlaceInv'
  BY <1>2, <1>6, HandedOn
<1> QED BY <1>4, <1>5, <1>7

(* EPOLL_CTL_MOD: the handler hands its connection to the interest entry    *)
(* of its own number, and is done with it.                                  *)
LEMMA RearmStep ==
  ASSUME IInv, NEW w \in Workers, Rearm(w)
  PROVE  ListInv' /\ FdInv' /\ WorkInv' /\ PlaceInv'
<1> DEFINE x == Conn(w)
           f == FD(w)
<1>1. /\ Busy(w) /\ wpc' = [wpc EXCEPT ![w] = "finish"]
      /\ interest' = IF interest[f] = Unregistered THEN interest
                     ELSE [interest EXCEPT ![f] = [conn |-> x, arm |-> "out"]]
      /\ UNCHANGED <<peer, backlog, table, m_clientfd, lpc, newQuery, m_spin, m_newClientList,
                     newClientList, epc, batch, pending, running>>
  BY DEF Rearm, Goto, Busy, clientVars, listVars, listenVars, epollVars, poolVars
<1>2. /\ x \in Conns /\ f \in FDs /\ table[f] = x /\ At(x, "worker")
      /\ "worker" \in Places /\ "armed" \in Places
  BY <1>1, BusyWorker DEF Places
<1>3. WorkInv' /\ \A v \in Workers : Conn(v)' = Conn(v) /\ (Busy(v)' => Busy(v))
  BY <1>1, OneWorker DEF WorkerLabels
<1>4. ~ Busy(w)'
  BY <1>1 DEF Busy, IInv, TypeOK
<1>5. \A c \in Conns : c = x => ~ Served(c)'
  BY <1>1, <1>3, <1>4 DEF Served, IInv, WorkInv
<1> HIDE DEF x, f
<1>6. \A g \in FDs : interest'[g] = IF g = f /\ interest[f] # Unregistered
                                      THEN [conn |-> x, arm |-> "out"] ELSE interest[g]
  BY <1>1, <1>2 DEF IInv, TypeOK
<1>7. ListInv' /\ FdInv'
  BY <1>1, <1>2, <1>6 DEF IInv, ListInv, FdInv
<1>8. ASSUME NEW c \in Conns, NEW p \in Places
      PROVE  At(c, p)' => IF c = x THEN p = "armed" ELSE At(c, p)
  <2>1. /\ Listening(c)' <=> Listening(c)
        /\ Listed(c)' <=> Listed(c)
        /\ Reported(c)' <=> Reported(c)
        /\ Queued(c)' <=> Queued(c)
    BY <1>1 DEF Listening, Listed, Reported, Queued
  <2>2. Served(c)' => Served(c)
    BY <1>3 DEF Served
  <2>3. c # x => (Armed(c)' => Armed(c))
    BY <1>6 DEF Armed
  <2>4. c # x => (At(c, p)' => At(c, p))
    BY <2>1, <2>2, <2>3 DEF At
  <2>5. ASSUME c = x, At(c, p)', p # "armed" PROVE FALSE
    <3>1. At(c, p) /\ p # "worker"
      BY <1>5, <2>1, <2>5 DEF At
    <3> QED BY <1>2, <2>5, <3>1 DEF IInv, PlaceInv
  <2> QED BY <2>4, <2>5
<1>9. ASSUME NEW c \in Conns
      PROVE  \/ \A p \in Places : At(c, p)' => At(c, p)
             \/ /\ \E r \in Places : At(c, r)
                /\ \E r \in Places : \A p \in Places : At(c, p)' => p = r
  BY <1>2, <1>8
<1>10. PlaceInv'
  BY <1>1, <1>9, HandedOn
<1> QED BY <1>3, <1>7, <1>10

(* close: nobody but the worker that closes it has to do with the           *)
(* connection, so no place is left with a number that means something else. *)
LEMMA CloseDescriptor ==
  ASSUME IInv, NEW w \in Workers, Close(w)
  PROVE  ListInv' /\ FdInv' /\ WorkInv' /\ PlaceInv'
<1> DEFINE x == Conn(w)
           f == FD(w)
<1>1. /\ Busy(w) /\ wpc' = [wpc EXCEPT ![w] = "finish"]
      /\ table' = [table EXCEPT ![f] = NoConn]
      /\ interest' = [interest EXCEPT ![f] = Unregistered]
      /\ UNCHANGED <<peer, backlog, m_clientfd, lpc, newQuery, m_spin, m_newClientList,
                     newClientList, epc, batch, pending, running>>
  BY DEF Close, Goto, Busy, clientVars, listVars, listenVars, epollVars, poolVars
<1>2. /\ x \in Conns /\ f \in FDs /\ table[f] = x /\ f = m_clientfd[x] /\ At(x, "worker")
      /\ "worker" \in Places
  BY <1>1, BusyWorker DEF Places, FD
<1>3. WorkInv' /\ \A v \in Workers : Conn(v)' = Conn(v) /\ (Busy(v)' => Busy(v))
  BY <1>1, OneWorker DEF WorkerLabels
<1>4. \A c \in Conns : c = x => ~ Served(c)'
  <2>1. ~ Busy(w)'
    BY <1>1 DEF Busy, IInv, TypeOK
  <2> QED BY <1>1, <1>3, <2>1 DEF Served, IInv, WorkInv
<1> HIDE DEF x, f
<1>5. \A g \in FDs : /\ interest'[g] = IF g = f THEN Unregistered ELSE interest[g]
                     /\ table'[g] = IF g = f THEN NoConn ELSE table[g]
  BY <1>1, <1>2 DEF IInv, TypeOK
<1>6. ListInv' /\ FdInv'
  BY <1>1, <1>5 DEF IInv, ListInv, FdInv
<1>7. ASSUME NEW c \in Conns, NEW p \in Places, At(c, p)' PROVE At(c, p) /\ c # x
  <2>1. Armed(c)' => Armed(c)
    BY <1>5, EntriesGo
  <2>2. Served(c)' => Served(c)
    BY <1>3 DEF Served
  <2>3. /\ Listening(c)' <=> Listening(c)
        /\ Listed(c)' <=> Listed(c)
        /\ Reported(c)' <=> Reported(c)
        /\ Queued(c)' <=> Queued(c)
    BY <1>1 DEF Listening, Listed, Reported, Queued
  <2>4. At(c, p)
    BY <1>7, <2>1, <2>2, <2>3 DEF At
  <2>5. ASSUME c = x PROVE FALSE
    <3>1. p = "worker"
      BY <1>2, <2>4, <2>5 DEF IInv, PlaceInv
    <3> QED BY <1>4, <1>7, <2>5, <3>1 DEF At
  <2> QED BY <2>4, <2>5
<1>8. PlaceInv'
  <2> SUFFICES ASSUME NEW c \in Conns, NEW p \in Places, At(c, p)'
               PROVE  /\ \A q \in Places : At(c, q)' => q = p
                      /\ m_clientfd[c] \in FDs /\ table'[m_clientfd[c]] = c
    BY <1>1 DEF PlaceInv
  <2>1. At(c, p) /\ c # x
    BY <1>7
  <2>2. /\ \A q \in Places : At(c, q)' => q = p
        /\ m_clientfd[c] \in FDs /\ table[m_clientfd[c]] = c
    BY <1>7, <2>1 DEF IInv, PlaceInv
  <2>3. m_clientfd[c] # f
    BY <1>2, <2>1, <2>2
  <2> QED BY <1>5, <2>2, <2>3
<1> QED BY <1>3, <1>6, <1>8

(* A worker that finished is free for the next job.                         *)
LEMMA FinishStep ==
  ASSUME IInv, NEW w \in Workers, Finish(w)
  PROVE  ListInv' /\ FdInv' /\ WorkInv' /\ PlaceInv'
<1>1. /\ wpc[w] = "finish" /\ wpc' = [wpc EXCEPT ![w] = "idle"]
      /\ running' = [running EXCEPT ![w] = NoTask]
      /\ UNCHANGED <<peer, backlog, table, interest, m_clientfd, lpc, newQuery, m_spin, m_newClientList,
                     newClientList, epc, batch, pending>>
  BY DEF Finish, Pool!Finish, Goto, clientVars, kernelVars, listVars, listenVars, epollVars
<1>2. \A v \in Workers : /\ v # w => wpc'[v] = wpc[v] /\ running'[v] = running[v]
                         /\ wpc'[w] = "idle" /\ running'[w] = NoTask
  BY <1>1 DEF IInv, TypeOK
<1>3. \A v \in Workers : Busy(v)' => Busy(v) /\ Conn(v)' = Conn(v)
  BY <1>2 DEF Busy, Conn
<1>4. ListInv' /\ FdInv'
  BY <1>1 DEF IInv, ListInv, FdInv
<1>5. WorkInv'
  BY <1>1, <1>2, <1>3 DEF IInv, WorkInv
<1>6. ASSUME NEW c \in Conns, NEW p \in Places, At(c, p)' PROVE At(c, p)
  <2>1. Served(c)' => Served(c)
    BY <1>3 DEF Served
  <2>2. /\ Listening(c)' <=> Listening(c)
        /\ Listed(c)' <=> Listed(c)
        /\ Armed(c)' <=> Armed(c)
        /\ Reported(c)' <=> Reported(c)
        /\ Queued(c)' <=> Queued(c)
    BY <1>1 DEF Listening, Listed, Armed, Reported, Queued
  <2> QED BY <1>6, <2>1, <2>2 DEF At
<1>7. PlaceInv'
  BY <1>1, <1>6, HandedOn
<1> QED BY <1>4, <1>5, <1>7

-----------------------------------------------------------------------------
(* The server as it starts.                                                 *)
LEMMA InvInit == Init => IInv
<1> SUFFICES ASSUME Init PROVE IInv
  OBVIOUS
<1> USE DEF Init, Pool!Init
<1>1. TypeOK
  BY EmptySeq DEF TypeOK, Entries, ListenLabels, EpollLabels, WorkerLabels
<1>2. Distinct(<<>>) /\ Members(<<>>) = {}
  BY EmptyQueueMembers DEF Members, Elements
<1>3. ListInv
  BY <1>2 DEF ListInv
<1>4. FdInv /\ WorkInv
  BY EmptySeq, LenProperties DEF FdInv, WorkInv, Busy
<1>5. ASSUME NEW c \in Conns, NEW p \in Places PROVE ~ At(c, p)
  <2>1. ~ Listening(c) /\ ~ Listed(c)
    BY <1>2, ConnsAssumption DEF Listening, Listed
  <2>2. ~ Armed(c)
    BY ConnsAssumption DEF Armed, Unregistered
  <2>3. ~ Reported(c) /\ ~ Queued(c) /\ ~ Served(c)
    BY EmptySeq, LenProperties DEF Reported, Queued, Served, Busy
  <2> QED BY <2>1, <2>2, <2>3 DEF At
<1> QED BY <1>1, <1>3, <1>4, <1>5 DEF IInv, PlaceInv

(* The invariant holds in every state of the server.                        *)
THEOREM PlaceInvariant == Spec => []IInv
<1>1. IInv /\ StopInv /\ [Next]_vars => IInv'
  <2> SUFFICES ASSUME IInv, StopInv, [Next]_vars PROVE IInv'
    OBVIOUS
  <2>1. ASSUME Next PROVE ListInv' /\ FdInv' /\ WorkInv' /\ PlaceInv'
    <3>1. CASE ListenStep
      BY <3>1, AcceptStep, ListenInv DEF ListenStep
    <3>2. CASE EpollStep
      BY <3>2, EpollQuiet, InitStep, WaitStep, DispatchStep, CloseStep DEF EpollStep
    <3>3. ASSUME NEW w \in Workers, WorkerStep(w) PROVE ListInv' /\ FdInv' /\ WorkInv' /\ PlaceInv'
      BY <3>3, BeginStep, HandlerStep, RearmStep, CloseDescriptor, FinishStep DEF WorkerStep
    <3> QED BY <2>1, <3>1, <3>2, <3>3, OutsideStep DEF Next
  <2>2. ASSUME UNCHANGED vars PROVE IInv'
    <3>1. UNCHANGED <<peer, input, backlog, table, interest, epollOpen, shut, answered,
                      m_askForExit, m_spin, m_newClientList, m_clientfd, lpc, newQuery, epc,
                      newClientList, queryList, batch, freed, mpc, pending, running, phase, wpc>>
      BY <2>2 DEF vars, clientVars, kernelVars, listVars, listenVars, epollVars, stopVars, poolVars
    <3>2. TypeOK' /\ ListInv' /\ FdInv' /\ WorkInv'
      BY <3>1 DEF IInv, TypeOK, ListInv, FdInv, WorkInv, Busy, Conn
    <3>3. PlaceInv'
      BY <3>1, NobodyComes DEF Listed, Busy
    <3> QED BY <3>2, <3>3 DEF IInv
  <2>3. ASSUME Next PROVE IInv'
    BY <2>1, <2>3, TypeStep DEF IInv
  <2> QED BY <2>2, <2>3
<1> QED BY InvInit, StopInvariant, <1>1, PTL DEF Spec

(* Every variable of the server keeps its type.                             *)
THEOREM ServerTypeCorrect == Spec => []TypeOK
<1>1. IInv => TypeOK
  BY DEF IInv
<1> QED BY PlaceInvariant, <1>1, PTL

(* ClientQuery: a handler's descriptor number denotes its own client for as *)
(* long as the handler uses it, and so does every interest entry.           *)
THEOREM DescriptorsAreOwn == Spec => []OwnDescriptor
<1>1. IInv => OwnDescriptor
  BY BusyWorker DEF IInv, FdInv, OwnDescriptor
<1> QED BY PlaceInvariant, <1>1, PTL

(* EPOLLONESHOT and the way from list to interest list to pool: a           *)
(* connection is looked after in one place, and by one worker.              *)
THEOREM NeverTwoAttendants == Spec => []OneAttendant
<1>1. IInv => OneAttendant
  <2> SUFFICES ASSUME IInv, NEW c \in Conns PROVE Cardinality(Attendants(c)) <= 1
    BY DEF OneAttendant
  <2> DEFINE AsListener == {<<"listener", d>> : d \in {newQuery} \intersect {c}}
             AsListed == {<<"list", d>> : d \in Members(m_newClientList \o newClientList) \intersect {c}}
             AsArmed == {<<"armed", f>> : f \in {g \in FDs : interest[g].conn = c /\ interest[g].arm # "off"}}
             AsReported == {<<"event", job>> : job \in {j \in batch : j.conn = c}}
             AsQueued == {<<"queued", i>> : i \in {j \in 1 .. Len(pending) : pending[j].conn = c}}
             AsServed == {<<"worker", w>> : w \in {v \in Workers : Busy(v) /\ Conn(v) = c}}
  <2>1. Attendants(c) = AsListener \union AsListed \union AsArmed \union AsReported
                          \union AsQueued \union AsServed
    BY DEF Attendants
  <2>2. /\ AsListener # {} => At(c, "listener")
        /\ \A a, b \in AsListener : a = b
    BY DEF At, Listening
  <2>3. /\ AsListed # {} => At(c, "list")
        /\ \A a, b \in AsListed : a = b
    <3>1. Members(m_newClientList \o newClientList)
            = Members(m_newClientList) \union Members(newClientList)
      BY MembersOfBoth DEF IInv, TypeOK
    <3> QED BY <3>1 DEF At, Listed
  <2>4. /\ AsArmed # {} => At(c, "armed")
        /\ \A a, b \in AsArmed : a = b
    <3>1. ASSUME NEW f \in FDs, interest[f].conn = c PROVE f = m_clientfd[c]
      BY <3>1, ConnsAssumption DEF IInv, FdInv, Unregistered
    <3> QED BY <3>1 DEF At, Armed
  <2>5. /\ AsReported # {} => At(c, "event")
        /\ \A a, b \in AsReported : a = b
    BY DEF At, Reported, IInv, WorkInv
  <2>6. /\ AsQueued # {} => At(c, "queue")
        /\ \A a, b \in AsQueued : a = b
    BY DEF At, Queued, IInv, WorkInv
  <2>7. /\ AsServed # {} => At(c, "worker")
        /\ \A a, b \in AsServed : a = b
    BY DEF At, Served, IInv, WorkInv
  <2> HIDE DEF AsListener, AsListed, AsArmed, AsReported, AsQueued, AsServed
  <2>8. ASSUME NEW p \in Places, NEW q \in Places, At(c, p), At(c, q) PROVE p = q
    BY <2>8 DEF IInv, PlaceInv
  <2>9. \A a, b \in Attendants(c) : a = b
    BY <2>1, <2>2, <2>3, <2>4, <2>5, <2>6, <2>7, <2>8 DEF Places
  <2>10. CASE Attendants(c) = {}
    BY <2>10, FS_EmptySet
  <2>11. ASSUME NEW a \in Attendants(c) PROVE Cardinality(Attendants(c)) <= 1
    <3>1. Attendants(c) = {a}
      BY <2>9
    <3>2. Cardinality({a}) = 1
      BY FS_Singleton
    <3> QED BY <3>1, <3>2
  <2> QED BY <2>10, <2>11
<1> QED BY PlaceInvariant, <1>1, PTL

-----------------------------------------------------------------------------
(* The client sent its whole message or is gone. *)
Asked(c) == input[c] = "full" \/ peer[c] \in {"fin", "reset"}

(* A job comes before any reply, and one that replies behind the request.   *)
Fit(job) == answered[job.conn] = 0 /\ (job.fun = "doQueryResponse" => Asked(job.conn))

(* So does a handler that has not sent. *)
HandlerFits(w) ==
  /\ wpc[w] \in {"recvLength", "recvMessage", "rearm", "send"} => answered[Conn(w)] = 0
  /\ wpc[w] \in {"rearm", "send"} => Asked(Conn(w))

(* Nobody is on the way to a first reply for a connection that had one, and *)
(* the way to a reply leads through the request.                            *)
ReplyInv ==
  /\ \A c \in Conns : answered[c] <= 1 /\ (answered[c] = 1 => Asked(c))
  /\ \A c \in Conns : m_clientfd[c] = 0 \/ Listening(c) \/ Listed(c) => answered[c] = 0
  /\ \A f \in FDs : interest[f].arm \in {"in", "out"} => Fit(JobFor(f))
  /\ \A job \in batch : Fit(job)
  /\ \A i \in 1 .. Len(pending) : Fit(pending[i])
  /\ \A w \in Workers : HandlerFits(w)

(* What was asked stays asked.                                              *)
LEMMA AskedStays ==
  ASSUME IInv, Next PROVE \A c \in Conns : Asked(c) => Asked(c)'
<1>1. ASSUME NEW d \in Conns, Connect(d) \/ Deliver(d) \/ Depart(d)
      PROVE  \A c \in Conns : Asked(c) => Asked(c)'
  BY <1>1, DeparturesAssumption DEF Connect, Deliver, Depart, Asked, IInv, TypeOK
<1>2. CASE UNCHANGED clientVars
  BY <1>2 DEF clientVars, Asked
<1>3. UNCHANGED clientVars \/ \E d \in Conns : Connect(d) \/ Deliver(d) \/ Depart(d)
  BY DEF Next, ListenStep, ListenTest, Accept, AcceptFails, AddClientQuery,
     EpollStep, EpollTest, CopyNewClients, ClearNewClients, InitQuery, InitDone, EpollWait, Dispatch,
     CloseEpoll, DestroyPool, DeleteQueries, WorkerStep, Begin, RecvLength, RecvMessage, Rearm, Abort,
     Send, Deregister, Shutdown, Close, Finish, AskForExit, JoinThreads
<1> QED BY <1>1, <1>2, <1>3

(* A step that sends nothing, and brings nobody to a place it may not be at.*)
LEMMA NoReply ==
  ASSUME IInv, ReplyInv, answered' = answered,
         \A c \in Conns : Asked(c) => Asked(c)',
         \A c \in Conns : m_clientfd'[c] = 0 \/ Listening(c)' \/ Listed(c)' =>
                            m_clientfd[c] = 0 \/ Listening(c) \/ Listed(c),
         \A f \in FDs : interest'[f] = interest[f] \/ (interest'[f].arm \in {"in", "out"} => Fit(JobFor(f))'),
         \A job \in batch' : job \in batch \/ Fit(job)',
         \A i \in 1 .. Len(pending') :
           Fit(pending[i])' \/ \E j \in 1 .. Len(pending) : pending'[i] = pending[j],
         \A w \in Workers : HandlerFits(w)' \/ (wpc'[w] = wpc[w] /\ running'[w] = running[w])
  PROVE  ReplyInv'
<1>1. \A job \in Jobs : Fit(job) => Fit(job)'
  BY DEF Fit, Jobs
<1>2. \A c \in Conns : answered'[c] <= 1 /\ (answered'[c] = 1 => Asked(c)')
  BY DEF ReplyInv
<1>3. \A c \in Conns : m_clientfd'[c] = 0 \/ Listening(c)' \/ Listed(c)' => answered'[c] = 0
  BY DEF ReplyInv
<1>4. ASSUME NEW f \in FDs, interest'[f].arm \in {"in", "out"}, interest'[f] = interest[f]
      PROVE  Fit(JobFor(f))'
  <2>1. JobFor(f)' = JobFor(f)
    BY <1>4 DEF JobFor
  <2>2. interest[f].conn \in Conns
    BY <1>4 DEF IInv, TypeOK, Entries, Unregistered
  <2>3. Fit(JobFor(f)) /\ JobFor(f) \in Jobs
    BY <1>4, <2>2 DEF ReplyInv, JobFor, Jobs
  <2> QED BY <1>1, <2>1, <2>3
<1>5. \A job \in batch' : Fit(job)'
  BY <1>1 DEF ReplyInv, IInv, TypeOK
<1>6. \A i \in 1 .. Len(pending') : Fit(pending[i])'
  <2>1. \A j \in 1 .. Len(pending) : pending[j] \in Jobs /\ Fit(pending[j])
    BY DEF ReplyInv, IInv, TypeOK
  <2> QED BY <1>1, <2>1
<1>7. ASSUME NEW w \in Workers, wpc'[w] = wpc[w], running'[w] = running[w] PROVE HandlerFits(w)'
  <2>1. CASE wpc[w] \in {"recvLength", "recvMessage", "rearm", "send"}
    <3>1. Conn(w) \in Conns /\ Conn(w)' = Conn(w)
      BY <1>7, <2>1, BusyWorker DEF Busy, Conn
    <3> QED BY <1>7, <3>1 DEF HandlerFits, ReplyInv
  <2>2. CASE wpc[w] \notin {"recvLength", "recvMessage", "rearm", "send"}
    BY <1>7, <2>2 DEF HandlerFits
  <2> QED BY <2>1, <2>2
<1> QED BY <1>2, <1>3, <1>4, <1>5, <1>6, <1>7 DEF ReplyInv

(* Clients, listener and stop() start no reply: a connection is accepted    *)
(* before anybody answers it.                                               *)
LEMMA ReplyOutside ==
  ASSUME IInv, ReplyInv,
         \/ \E c \in Conns : Connect(c) \/ Deliver(c) \/ Depart(c)
         \/ ListenStep \/ AskForExit \/ JoinThreads,
         \A c \in Conns : Asked(c) => Asked(c)'
  PROVE  ReplyInv'
<1>1. UNCHANGED <<answered, interest, batch, pending, running, wpc>>
  BY DEF Connect, Deliver, Depart, ListenStep, ListenTest, Accept, AcceptFails, AddClientQuery,
     AskForExit, JoinThreads, kernelVars, epollVars, poolVars
<1>2. ASSUME NEW c \in Conns, m_clientfd'[c] = 0 \/ Listening(c)' \/ Listed(c)'
      PROVE  m_clientfd[c] = 0 \/ Listening(c) \/ Listed(c)
  <2>1. CASE Accept
    <3>1. /\ newClientList' = newClientList /\ m_newClientList' = m_newClientList
          /\ newQuery' = Head(backlog) /\ backlog # <<>>
          /\ \E f \in FDs : m_clientfd' = [m_clientfd EXCEPT ![Head(backlog)] = f]
      BY <2>1 DEF Accept, listVars, epollVars
    <3>2. Head(backlog) \in Members(backlog)
      BY <3>1, Popped DEF IInv, TypeOK, ListInv
    <3>3. m_clientfd[Head(backlog)] = 0
      BY <3>2 DEF IInv, ListInv
    <3>4. c # Head(backlog) => m_clientfd'[c] = m_clientfd[c]
      BY <3>1 DEF IInv, TypeOK
    <3> QED BY <1>2, <3>1, <3>3, <3>4 DEF Listening, Listed
  <2>2. CASE AddClientQuery
    <3>1. /\ lpc = "push" /\ newQuery' = NoConn /\ m_newClientList' = Append(m_newClientList, newQuery)
          /\ newClientList' = newClientList /\ m_clientfd' = m_clientfd
          /\ m_spin = "free"
      BY <2>2 DEF AddClientQuery, epollVars
    <3>2. newQuery \in Conns /\ At(newQuery, "listener") /\ "listener" \in Places /\ "list" \in Places
      BY <3>1 DEF IInv, ListInv, At, Listening, Places
    <3>3. ~ At(newQuery, "list")
      BY <3>2 DEF IInv, PlaceInv
    <3>4. Members(m_newClientList') = Members(m_newClientList) \union {newQuery}
      BY <3>1, <3>2, <3>3, Appended DEF IInv, TypeOK, ListInv, At, Listed
    <3> QED BY <1>2, <3>1, <3>4, ConnsAssumption DEF Listening, Listed
  <2>3. CASE UNCHANGED <<m_clientfd, newQuery, m_newClientList, newClientList>>
    BY <1>2, <2>3 DEF Listening, Listed
  <2> QED BY <2>1, <2>2, <2>3 DEF Connect, Deliver, Depart, ListenStep, ListenTest, AcceptFails,
       AskForExit, JoinThreads, listVars, listenVars, epollVars
<1> QED BY <1>1, <1>2, NoReply

(* The epoll thread passes on connections without a reply.                  *)
LEMMA ReplyEpoll ==
  ASSUME IInv, StopInv, ReplyInv, EpollStep, \A c \in Conns : Asked(c) => Asked(c)'
  PROVE  ReplyInv'
<1>1. /\ UNCHANGED <<peer, input, answered, m_clientfd, newQuery, running, wpc>>
      /\ \A w \in Workers : wpc'[w] = wpc[w] /\ running'[w] = running[w]
  BY DEF EpollStep, EpollTest, CopyNewClients, ClearNewClients, InitQuery, InitDone, EpollWait, Dispatch,
     CloseEpoll, DestroyPool, DeleteQueries, clientVars, kernelVars, listenVars, poolVars,
     Pool!Submit, Pool!Close, Pool!Discard, Pool!Vanish
<1>2. CASE EpollTest \/ CopyNewClients \/ ClearNewClients \/ InitDone \/ CloseEpoll \/ DestroyPool \/ DeleteQueries
  <2>1. /\ batch' = batch /\ pending' \in {pending, <<>>}
        /\ interest' \in {interest, [f \in FDs |-> Unregistered]}
        /\ \/ m_newClientList' = m_newClientList /\ newClientList' \in {newClientList, m_newClientList}
           \/ m_newClientList' = <<>> /\ newClientList' = newClientList
    BY <1>2 DEF EpollTest, CopyNewClients, ClearNewClients, InitDone, CloseEpoll, DestroyPool,
       DeleteQueries, listVars, kernelVars, poolVars, Pool!Close, Pool!Discard, Pool!Vanish
  <2>2. Members(<<>>) = {} /\ Len(<<>>) = 0
    BY EmptyQueueMembers, EmptySeq DEF Members, Elements
  <2>3. \A c \in Conns : Listed(c)' => Listed(c)
    BY <2>1, <2>2 DEF Listed
  <2>4. \A f \in FDs : interest'[f] = interest[f] \/ interest'[f].arm \notin {"in", "out"}
    BY <2>1 DEF Unregistered
  <2>5. \A i \in 1 .. Len(pending') : \E j \in 1 .. Len(pending) : pending'[i] = pending[j]
    BY <2>1, <2>2
  <2> QED BY <1>1, <2>1, <2>3, <2>4, <2>5, NoReply DEF Listening
<1>3. CASE InitQuery
  <2> DEFINE h == Head(newClientList)
             f == m_clientfd[h]
  <2>1. /\ newClientList # <<>> /\ newClientList' = Tail(newClientList)
        /\ interest' = IF interest[f] = Unregistered
                         THEN [interest EXCEPT ![f] = [conn |-> h, arm |-> "in"]]
                         ELSE interest
        /\ UNCHANGED <<m_newClientList, batch, pending>>
    BY <1>3 DEF InitQuery, listVars, poolVars
  <2>2. /\ h \in Conns /\ h \in Members(newClientList)
        /\ Members(Tail(newClientList)) = Members(newClientList) \ {h}
    BY <2>1, Popped DEF IInv, TypeOK, ListInv
  <2>3. answered[h] = 0
    BY <2>2 DEF ReplyInv, Listed
  <2> HIDE DEF h, f
  <2>4. ASSUME NEW g \in FDs
        PROVE  interest'[g] = interest[g] \/ interest'[g] = [conn |-> h, arm |-> "in"]
    BY <2>1 DEF IInv, TypeOK
  <2>5. ASSUME NEW g \in FDs, interest'[g] = [conn |-> h, arm |-> "in"] PROVE Fit(JobFor(g))'
    <3>1. JobFor(g)' = [fun |-> "doQuery", conn |-> h]
      BY <2>5 DEF JobFor
    <3>2. answered'[h] = 0
      BY <1>1, <2>3
    <3> QED BY <3>1, <3>2 DEF Fit
  <2>6. \A c \in Conns : Listed(c)' => Listed(c)
    BY <2>1, <2>2 DEF Listed
  <2> QED BY <1>1, <2>1, <2>4, <2>5, <2>6, NoReply DEF Listening
<1>4. CASE EpollWait
  <2>1. PICK some \in SUBSET ReadyFDs :
          /\ interest' = [f \in FDs |-> IF f \in some THEN AfterReport(f) ELSE interest[f]]
          /\ batch' = {JobFor(f) : f \in some}
    BY <1>4 DEF EpollWait
  <2>2. UNCHANGED <<m_newClientList, newClientList, pending>>
    BY <1>4 DEF EpollWait, listVars, poolVars
  <2>3. ASSUME NEW f \in some
        PROVE  f \in FDs /\ Fit(JobFor(f)) /\ AfterReport(f).arm = "off"
    <3>1. f \in FDs /\ interest[f].arm \in {"in", "out"}
      BY <2>1 DEF ReadyFDs, Ready
    <3>2. interest[f] \in [conn : Conns, arm : {"in", "out", "off"}]
      BY <3>1 DEF IInv, TypeOK, Entries, Unregistered
    <3> QED BY <3>1, <3>2 DEF ReplyInv, AfterReport
  <2>4. \A f \in FDs : interest'[f] = interest[f] \/ interest'[f].arm = "off"
    BY <2>1, <2>3
  <2>5. \A job \in batch' : Fit(job)'
    BY <1>1, <2>1, <2>3 DEF Fit, Asked
  <2> QED BY <1>1, <2>2, <2>4, <2>5, NoReply DEF Listening, Listed
<1>5. CASE Dispatch
  <2>1. PICK job \in batch : /\ pending' = Append(pending, job)
                             /\ batch' = batch \ {job}
    BY <1>5 DEF Dispatch, Pool!Submit
  <2>2. UNCHANGED <<m_newClientList, newClientList, interest>>
    BY <1>5 DEF Dispatch, listVars, kernelVars
  <2>3. Fit(job) /\ job \in Jobs
    BY DEF ReplyInv, IInv, TypeOK
  <2>4. /\ Len(pending) \in Nat /\ Len(pending') = Len(pending) + 1
        /\ pending'[Len(pending) + 1] = job
        /\ \A i \in 1 .. Len(pending) : pending'[i] = pending[i]
    BY <2>1, <2>3, AppendProperties, LenProperties DEF IInv, TypeOK
  <2>5. ASSUME NEW i \in 1 .. Len(pending')
        PROVE  Fit(pending[i])' \/ \E j \in 1 .. Len(pending) : pending'[i] = pending[j]
    <3>1. i \in 1 .. Len(pending) \/ i = Len(pending) + 1
      BY <2>4
    <3>2. pending'[i] = job => Fit(pending[i])'
      BY <1>1, <2>3 DEF Fit, Asked
    <3> QED BY <2>4, <3>1, <3>2
  <2> QED BY <1>1, <2>1, <2>2, <2>5, NoReply DEF Listening, Listed
<1> QED BY <1>2, <1>3, <1>4, <1>5 DEF EpollStep

(* What the handlers do besides the reply: a job that begins is Fit, and a  *)
(* handler comes to re-arm its socket only behind the request or the end of *)
(* the client.                                                              *)
LEMMA ReplyWorker ==
  ASSUME IInv, ReplyInv, NEW w \in Workers, WorkerStep(w), ~ Send(w),
         \A c \in Conns : Asked(c) => Asked(c)'
  PROVE  ReplyInv'
<1>1. UNCHANGED <<peer, input, answered, m_clientfd, newQuery, m_newClientList, newClientList, batch>>
  BY DEF WorkerStep, Begin, RecvLength, RecvMessage, Rearm, Abort, Deregister, Shutdown, Close, Finish,
     clientVars, kernelVars, listVars, listenVars, epollVars
<1>2. \A c \in Conns : (Listening(c)' <=> Listening(c)) /\ (Listed(c)' <=> Listed(c))
  BY <1>1 DEF Listening, Listed
<1>3. \A v \in Workers \ {w} : wpc'[v] = wpc[v] /\ running'[v] = running[v]
  BY DEF WorkerStep, Begin, RecvLength, RecvMessage, Rearm, Abort, Deregister, Shutdown, Close, Finish,
     Goto, IInv, TypeOK, Pool!Begin, Pool!Finish, poolVars
<1>4. CASE Begin(w)
  <2> DEFINE job == Head(pending)
  <2>1. /\ pending # <<>> /\ pending' = Tail(pending) /\ interest' = interest
        /\ running' = [running EXCEPT ![w] = job]
        /\ wpc' = [wpc EXCEPT ![w] = IF running'[w].fun = "doQuery" THEN "recvLength" ELSE "send"]
    BY <1>4 DEF Begin, Pool!Begin, Goto, kernelVars
  <2>2. /\ Len(pending) \in Nat \ {0}
        /\ Len(pending') = Len(pending) - 1
        /\ \A i \in 1 .. Len(pending') : pending'[i] = pending[i + 1]
        /\ job \in Jobs /\ job = pending[1]
    BY <2>1, HeadTailProperties, EmptySeq, LenProperties DEF IInv, TypeOK
  <2>3. Fit(job)
    BY <2>2 DEF ReplyInv
  <2> HIDE DEF job
  <2>4. running'[w] = job /\ wpc'[w] = IF job.fun = "doQuery" THEN "recvLength" ELSE "send"
    BY <2>1 DEF IInv, TypeOK
  <2>5. job.conn \in Conns /\ job.fun \in {"doQuery", "doQueryResponse"}
    BY <2>2 DEF Jobs
  <2>6. HandlerFits(w)'
    BY <1>1, <2>3, <2>4, <2>5 DEF HandlerFits, Fit, Asked, Conn
  <2>7. \A i \in 1 .. Len(pending') : i + 1 \in 1 .. Len(pending) /\ pending'[i] = pending[i + 1]
    BY <2>2
  <2> QED BY <1>1, <1>2, <1>3, <2>1, <2>6, <2>7, NoReply
<1>5. CASE Finish(w)
  <2>1. pending' = pending /\ interest' = interest /\ wpc'[w] = "idle"
    BY <1>5 DEF Finish, Pool!Finish, Goto, kernelVars, IInv, TypeOK
  <2>2. HandlerFits(w)'
    BY <2>1 DEF HandlerFits
  <2> QED BY <1>1, <1>2, <1>3, <2>1, <2>2, NoReply
<1>6. CASE RecvLength(w) \/ RecvMessage(w) \/ Rearm(w) \/ Abort(w) \/ Deregister(w) \/ Shutdown(w) \/ Close(w)
  <2> DEFINE x == Conn(w)
             f == FD(w)
  <2>1. Busy(w) /\ pending' = pending /\ running' = running
    BY <1>6 DEF RecvLength, RecvMessage, Rearm, Abort, Deregister, Shutdown, Close, Busy, poolVars
  <2>2. x \in Conns /\ f \in FDs /\ table[f] = x /\ m_clientfd[x] = f
    BY <2>1, BusyWorker DEF FD
  <2>3. peer[x] # "absent"
    BY <2>2, FDsAssumption DEF IInv, ListInv
  <2>4. HandlerFits(w)'
    <3>1. Conn(w)' = x
      BY <2>1 DEF Conn
    <3>2. CASE RecvLength(w)
      <4>1. /\ wpc[w] = "recvLength" /\ wpc'[w] \in {"rearm", "recvMessage"}
            /\ wpc'[w] = "rearm" => input[x] = "none" /\ peer[x] # "open"
        BY <2>2, <3>2 DEF RecvLength, Goto, IInv, TypeOK
      <4> QED BY <1>1, <2>2, <2>3, <3>1, <4>1 DEF HandlerFits, ReplyInv, Asked, IInv, TypeOK
    <3>3. CASE RecvMessage(w)
      <4>1. /\ wpc[w] = "recvMessage" /\ wpc'[w] \in {"rearm", "abort"}
            /\ input[x] = "full" \/ peer[x] # "open"
        BY <2>2, <3>3 DEF RecvMessage, Goto, IInv, TypeOK
      <4> QED BY <1>1, <2>2, <2>3, <3>1, <4>1 DEF HandlerFits, ReplyInv, Asked, IInv, TypeOK
    <3>4. CASE Rearm(w) \/ Abort(w) \/ Deregister(w) \/ Shutdown(w) \/ Close(w)
      <4>1. wpc'[w] \in {"finish", "shutdown", "close"}
        BY <3>4 DEF Rearm, Abort, Deregister, Shutdown, Close, Goto, IInv, TypeOK
      <4> QED BY <4>1 DEF HandlerFits
    <3> QED BY <1>6, <3>2, <3>3, <3>4
  <2>5. ASSUME NEW g \in FDs
        PROVE  interest'[g] = interest[g] \/ (interest'[g].arm \in {"in", "out"} => Fit(JobFor(g))')
    <3>1. CASE Rearm(w)
      <4>1. /\ wpc[w] = "rearm"
            /\ interest'[g] = interest[g] \/ interest'[g] = [conn |-> x, arm |-> "out"]
        BY <3>1 DEF Rearm, IInv, TypeOK
      <4>2. answered[x] = 0 /\ Asked(x)
        BY <4>1 DEF ReplyInv, HandlerFits
      <4>3. ASSUME interest'[g] = [conn |-> x, arm |-> "out"] PROVE Fit(JobFor(g))'
        <5>1. JobFor(g)' = [fun |-> "doQueryResponse", conn |-> x]
          BY <4>3 DEF JobFor
        <5> QED BY <1>1, <4>2, <5>1 DEF Fit, Asked
      <4> QED BY <4>1, <4>3
    <3>2. CASE RecvLength(w) \/ RecvMessage(w) \/ Abort(w) \/ Deregister(w) \/ Shutdown(w) \/ Close(w)
      BY <3>2 DEF RecvLength, RecvMessage, Abort, Deregister, Shutdown, Close, kernelVars, IInv, TypeOK,
         Unregistered
    <3> QED BY <1>6, <3>1, <3>2
  <2> QED BY <1>1, <1>2, <1>3, <2>1, <2>4, <2>5, NoReply
<1> QED BY <1>4, <1>5, <1>6 DEF WorkerStep

(* send: the connection is nowhere but with the worker that replies.        *)
LEMMA ReplySent ==
  ASSUME IInv, ReplyInv, NEW w \in Workers, Send(w)
  PROVE  ReplyInv'
<1> DEFINE x == Conn(w)
<1>1. /\ wpc[w] = "send" /\ wpc' = [wpc EXCEPT ![w] = "del"]
      /\ UNCHANGED <<peer, input, interest, m_clientfd, newQuery, m_newClientList, newClientList, batch,
                     pending, running>>
  BY DEF Send, Goto, clientVars, listVars, listenVars, epollVars, poolVars
<1>2. /\ x \in Conns /\ At(x, "worker") /\ m_clientfd[x] \in FDs /\ table[FD(w)] = x
      /\ "worker" \in Places /\ Busy(w)
  BY <1>1, BusyWorker DEF Busy, FD, Places
<1>3. answered[x] = 0 /\ Asked(x)
  BY <1>1 DEF ReplyInv, HandlerFits
<1>4. \A c \in Conns : answered'[c] = IF c = x THEN 1 ELSE answered[c]
  BY <1>2, <1>3 DEF Send
<1>5. ~ Listening(x) /\ ~ Listed(x) /\ ~ Armed(x) /\ ~ Reported(x) /\ ~ Queued(x)
  BY <1>2 DEF IInv, PlaceInv, At, Places
<1>6. \A v \in Workers : Busy(v) /\ Conn(v) = x => v = w
  BY <1>2 DEF IInv, WorkInv
<1> HIDE DEF x
<1>7. \A c \in Conns : answered'[c] <= 1 /\ (answered'[c] = 1 => Asked(c)')
  BY <1>1, <1>3, <1>4 DEF ReplyInv, Asked
<1>8. \A c \in Conns : m_clientfd'[c] = 0 \/ Listening(c)' \/ Listed(c)' => answered'[c] = 0
  BY <1>1, <1>2, <1>4, <1>5, FDsAssumption DEF ReplyInv, Listening, Listed
<1>9. ASSUME NEW f \in FDs, interest'[f].arm \in {"in", "out"} PROVE Fit(JobFor(f))'
  <2>1. interest[f] \in [conn : Conns, arm : {"in", "out", "off"}]
    BY <1>1, <1>9 DEF IInv, TypeOK, Entries, Unregistered
  <2>2. interest[f].conn \in Conns /\ interest[f].conn # x
    BY <1>1, <1>5, <1>9, <2>1 DEF Armed
  <2>3. Fit(JobFor(f)) /\ JobFor(f).conn = interest[f].conn
    BY <1>1, <1>9 DEF ReplyInv, JobFor
  <2>4. JobFor(f)' = JobFor(f)
    BY <1>1 DEF JobFor
  <2> QED BY <1>1, <1>4, <2>2, <2>3, <2>4 DEF Fit, Asked
<1>10. \A job \in batch' : Fit(job)'
  <2>1. \A job \in batch : Fit(job) /\ job.conn \in Conns /\ job.conn # x
    BY <1>5 DEF ReplyInv, Reported, IInv, TypeOK, Jobs
  <2> QED BY <1>1, <1>4, <2>1 DEF Fit, Asked
<1>11. \A i \in 1 .. Len(pending') : Fit(pending[i])'
  <2>1. \A i \in 1 .. Len(pending) : Fit(pending[i]) /\ pending[i].conn # x
    BY <1>5 DEF ReplyInv, Queued
  <2>2. \A i \in 1 .. Len(pending) : pending[i] \in Jobs
    BY DEF IInv, TypeOK
  <2>3. \A i \in 1 .. Len(pending) : pending[i].conn \in Conns
    BY <2>2 DEF Jobs
  <2> QED BY <1>1, <1>4, <2>1, <2>3 DEF Fit, Asked
<1>12. ASSUME NEW v \in Workers PROVE HandlerFits(v)'
  <2>1. wpc'[v] = IF v = w THEN "del" ELSE wpc[v]
    BY <1>1 DEF IInv, TypeOK
  <2>2. CASE v = w
    BY <2>1, <2>2 DEF HandlerFits
  <2>3. CASE v # w /\ wpc[v] \in {"recvLength", "recvMessage", "rearm", "send"}
    <3>1. Conn(v) \in Conns /\ Conn(v) # x
      BY <1>6, <2>3, BusyWorker DEF Busy
    <3>2. Conn(v)' = Conn(v)
      BY <1>1 DEF Conn
    <3> QED BY <1>1, <1>4, <2>1, <2>3, <3>1, <3>2 DEF ReplyInv, HandlerFits, Asked
  <2>4. CASE v # w /\ wpc[v] \notin {"recvLength", "recvMessage", "rearm", "send"}
    BY <2>1, <2>4 DEF HandlerFits
  <2> QED BY <2>2, <2>3, <2>4
<1> QED BY <1>7, <1>8, <1>9, <1>10, <1>11, <1>12 DEF ReplyInv

(* doQuery and doQueryResponse: a client is answered at most once, and only *)
(* after its message was read or it stopped sending.                        *)
THEOREM ReplyOnceAfterRequest == Spec => []ReplyFollowsRequest
<1>1. Init => ReplyInv
  <2> SUFFICES ASSUME Init PROVE ReplyInv
    OBVIOUS
  <2> USE DEF Init, Pool!Init
  <2>1. \A c \in Conns : answered[c] = 0
    OBVIOUS
  <2>2. Len(pending) = 0
    BY EmptySeq
  <2>3. \A w \in Workers : HandlerFits(w)
    BY DEF HandlerFits
  <2>4. \A f \in FDs : interest[f].arm \notin {"in", "out"}
    BY DEF Unregistered
  <2> QED BY <2>1, <2>2, <2>3, <2>4 DEF ReplyInv
<1>2. IInv /\ StopInv /\ ReplyInv /\ [Next]_vars => ReplyInv'
  <2> SUFFICES ASSUME IInv, StopInv, ReplyInv, [Next]_vars PROVE ReplyInv'
    OBVIOUS
  <2>1. CASE Next
    <3>1. \A c \in Conns : Asked(c) => Asked(c)'
      BY <2>1, AskedStays
    <3>2. ASSUME NEW w \in Workers, WorkerStep(w) PROVE ReplyInv'
      BY <3>1, <3>2, ReplyWorker, ReplySent
    <3> QED BY <2>1, <3>1, <3>2, ReplyOutside, ReplyEpoll DEF Next
  <2>2. CASE UNCHANGED vars
    <3>1. UNCHANGED <<peer, input, interest, answered, m_clientfd, newQuery, m_newClientList,
                      newClientList, batch, pending, running, wpc>>
      BY <2>2 DEF vars, clientVars, kernelVars, listVars, listenVars, epollVars, poolVars
    <3> QED BY <3>1, NoReply DEF Listening, Listed, Asked
  <2> QED BY <2>1, <2>2
<1>3. ReplyInv /\ IInv => ReplyFollowsRequest
  BY DEF ReplyInv, ReplyFollowsRequest, Asked, IInv, TypeOK
<1> QED BY PlaceInvariant, StopInvariant, <1>1, <1>2, <1>3, PTL DEF Spec

-----------------------------------------------------------------------------
(* Somebody looks after connection c; doQuery gave it up after a reset; its *)
(* number has an interest entry.                                            *)
Attended(c) == Listening(c) \/ Listed(c) \/ Armed(c) \/ Reported(c) \/ Queued(c) \/ Served(c)
GivenUp(c) == c \in shut /\ peer[c] = "reset" /\ input[c] = "length"
Registered(c) == interest[m_clientfd[c]] # Unregistered

(* The request of c is being read, or will be. *)
Reading(c) ==
  \/ \E job \in batch : job.fun = "doQuery" /\ job.conn = c
  \/ \E i \in 1 .. Len(pending) : pending[i].fun = "doQuery" /\ pending[i].conn = c
  \/ \E w \in Workers : wpc[w] \in {"recvLength", "recvMessage", "rearm"} /\ Conn(w) = c

(* Each system call that hands a connection on finds the entry it needs: no *)
(* entry when EPOLL_CTL_ADD comes, one when EPOLL_CTL_MOD comes.            *)
FateInv ==
  /\ epollOpen => epc \notin {"shutdown", "join", "vanish", "delete", "done"}
  /\ \A c \in Conns : Listening(c) \/ Listed(c) => ~ Registered(c)
  /\ \A w \in Workers : wpc[w] = "abort" => peer[Conn(w)] = "reset" /\ input[Conn(w)] = "length"
  /\ epollOpen => \A c \in Conns : Reading(c) => Registered(c)
  /\ epollOpen => \A c \in Conns : Accepted(c) => Attended(c) \/ ~ Open(c) \/ GivenUp(c)

(* A worker that reads has its place. *)
LEMMA ReaderAttends ==
  ASSUME IInv, NEW c \in Conns, Reading(c)
  PROVE  /\ At(c, "event") \/ At(c, "queue") \/ At(c, "worker")
         /\ {"event", "queue", "worker"} \subseteq Places
  BY DEF Reading, At, Reported, Queued, Served, Busy, Places

(* A step that leaves descriptors and entries as they are and hands every   *)
(* connection on, or gives it up.                                           *)
LEMMA FateStays ==
  ASSUME IInv, FateInv, UNCHANGED <<table, interest, m_clientfd>>,
         epollOpen' => epollOpen /\ epc' \notin {"shutdown", "join", "vanish", "delete", "done"},
         \A c \in Conns : Listening(c)' \/ Listed(c)' => Listening(c) \/ Listed(c),
         \A w \in Workers : wpc'[w] = "abort" => peer'[Conn(w)'] = "reset" /\ input'[Conn(w)'] = "length",
         \A c \in Conns : GivenUp(c) => GivenUp(c)',
         epollOpen' => \A c \in Conns : /\ Reading(c)' => Reading(c)
                                        /\ Attended(c) => Attended(c)' \/ GivenUp(c)'
  PROVE  FateInv'
<1>1. \A c \in Conns : Registered(c)' <=> Registered(c)
  BY DEF Registered
<1>2. \A c \in Conns : (Accepted(c)' <=> Accepted(c)) /\ (Open(c)' <=> Open(c))
  BY DEF Accepted, Open
<1> QED BY <1>1, <1>2 DEF FateInv

(* Without a change of lists, jobs and workers everybody stays.             *)
LEMMA EverybodyStays ==
  ASSUME UNCHANGED <<interest, newQuery, m_newClientList, newClientList, batch, pending, running, wpc>>
  PROVE  \A c \in Conns : /\ Reading(c)' <=> Reading(c)
                          /\ Attended(c)' <=> Attended(c)
                          /\ Listening(c)' <=> Listening(c)
                          /\ Listed(c)' <=> Listed(c)
<1>1. \A w \in Workers : Conn(w)' = Conn(w) /\ (Busy(w)' <=> Busy(w))
  BY DEF Conn, Busy
<1>2. \A c \in Conns : /\ Listening(c)' <=> Listening(c)
                       /\ Listed(c)' <=> Listed(c)
                       /\ Armed(c)' <=> Armed(c)
                       /\ Reported(c)' <=> Reported(c)
                       /\ Queued(c)' <=> Queued(c)
                       /\ Served(c)' <=> Served(c)
  BY <1>1 DEF Listening, Listed, Armed, Reported, Queued, Served
<1>3. \A c \in Conns : Reading(c)' <=> Reading(c)
  BY <1>1 DEF Reading
<1> QED BY <1>2, <1>3 DEF Attended

(* Clients and stop(): a connection that was reset stays so.                *)
LEMMA FateOutside ==
  ASSUME IInv, FateInv,
         \/ \E c \in Conns : Connect(c) \/ Deliver(c) \/ Depart(c)
         \/ AskForExit \/ JoinThreads
  PROVE  FateInv'
<1>1. UNCHANGED <<table, interest, m_clientfd, epollOpen, shut, epc, newQuery, m_newClientList,
                  newClientList, batch, pending, running, wpc>>
  BY DEF Connect, Deliver, Depart, AskForExit, JoinThreads, kernelVars, listVars, listenVars,
     epollVars, poolVars
<1>2. \A c \in Conns : peer[c] = "reset" /\ input[c] = "length" =>
                         peer'[c] = "reset" /\ input'[c] = "length"
  BY DEF Connect, Deliver, Depart, AskForExit, JoinThreads, clientVars, IInv, TypeOK
<1>3. \A c \in Conns : GivenUp(c) => GivenUp(c)'
  BY <1>1, <1>2 DEF GivenUp
<1>4. ASSUME NEW w \in Workers, wpc'[w] = "abort"
      PROVE  peer'[Conn(w)'] = "reset" /\ input'[Conn(w)'] = "length"
  <2>1. Conn(w)' = Conn(w) /\ Conn(w) \in Conns
    BY <1>1, <1>4, BusyWorker DEF Conn, Busy
  <2> QED BY <1>1, <1>2, <1>4, <2>1 DEF FateInv
<1>5. epollOpen' => epollOpen /\ epc' \notin {"shutdown", "join", "vanish", "delete", "done"}
  BY <1>1 DEF FateInv
<1> QED BY <1>1, <1>3, <1>4, <1>5, EverybodyStays, FateStays

(* The listening thread: a new connection gets a number without an entry.   *)
LEMMA FateListen ==
  ASSUME IInv, FateInv, ListenStep PROVE FateInv'
<1>1. UNCHANGED <<peer, input, interest, epollOpen, shut, epc, newClientList, batch, pending, running, wpc>>
  BY DEF ListenStep, ListenTest, Accept, AcceptFails, AddClientQuery, clientVars, kernelVars, epollVars, poolVars
<1>2. /\ epollOpen' => epollOpen /\ epc' \notin {"shutdown", "join", "vanish", "delete", "done"}
      /\ \A w \in Workers : /\ Conn(w)' = Conn(w)
                            /\ wpc'[w] = "abort" => peer'[Conn(w)'] = "reset" /\ input'[Conn(w)'] = "length"
      /\ \A c \in Conns : /\ GivenUp(c)' <=> GivenUp(c)
                          /\ Reading(c)' <=> Reading(c)
                          /\ Armed(c)' <=> Armed(c)
                          /\ Reported(c)' <=> Reported(c)
                          /\ Queued(c)' <=> Queued(c)
                          /\ Served(c)' <=> Served(c)
  BY <1>1 DEF FateInv, Conn, Busy, GivenUp, Reading, Armed, Reported, Queued, Served
<1>3. CASE ListenTest \/ AcceptFails
  <2>1. UNCHANGED <<table, m_clientfd, newQuery, m_newClientList>>
    BY <1>3 DEF ListenTest, AcceptFails, kernelVars, listVars
  <2> QED BY <1>1, <1>2, <2>1, EverybodyStays, FateStays
<1>4. CASE AddClientQuery
  <2>1. /\ lpc = "push" /\ newQuery' = NoConn /\ m_newClientList' = Append(m_newClientList, newQuery)
        /\ UNCHANGED <<table, m_clientfd>> /\ m_spin = "free"
    BY <1>4 DEF AddClientQuery, kernelVars
  <2>2. newQuery \in Conns /\ At(newQuery, "listener") /\ "listener" \in Places /\ "list" \in Places
    BY <2>1 DEF IInv, ListInv, At, Listening, Places
  <2>3. ~ At(newQuery, "list")
    BY <2>2 DEF IInv, PlaceInv
  <2>4. Members(m_newClientList') = Members(m_newClientList) \union {newQuery}
    BY <2>1, <2>2, <2>3, Appended DEF IInv, TypeOK, ListInv, At, Listed
  <2>5. \A c \in Conns : (Listening(c)' \/ Listed(c)') <=> (Listening(c) \/ Listed(c))
    BY <1>1, <2>1, <2>4, ConnsAssumption DEF Listening, Listed
  <2>6. \A c \in Conns : Attended(c)' <=> Attended(c)
    BY <1>2, <2>5 DEF Attended
  <2> QED BY <1>1, <1>2, <2>1, <2>5, <2>6, FateStays
<1>5. CASE Accept
  <2> DEFINE h == Head(backlog)
  <2>1. /\ backlog # <<>> /\ newQuery' = h /\ lpc = "accept" /\ m_newClientList' = m_newClientList
    BY <1>5 DEF Accept, listVars
  <2>2. PICK f \in FDs : /\ table[f] = NoConn
                         /\ table' = [table EXCEPT ![f] = h]
                         /\ m_clientfd' = [m_clientfd EXCEPT ![h] = f]
    BY <1>5 DEF Accept, LowestFree, FreeFDs
  <2>3. h \in Conns /\ h \in Members(backlog)
    BY <2>1, Popped DEF IInv, TypeOK, ListInv
  <2> HIDE DEF h
  <2>4. m_clientfd[h] = 0 /\ newQuery = NoConn
    BY <2>1, <2>3 DEF IInv, ListInv
  <2>5. interest[f] = Unregistered
    BY <2>2, ConnsAssumption DEF IInv, FdInv, TypeOK, Entries
  <2>6. \A c \in Conns : m_clientfd'[c] = IF c = h THEN f ELSE m_clientfd[c]
    BY <2>2, <2>3 DEF IInv, TypeOK
  <2>7. ASSUME NEW c \in Conns, c # h
        PROVE  /\ Registered(c)' <=> Registered(c)
               /\ Accepted(c)' <=> Accepted(c)
               /\ Open(c)' => Open(c)
               /\ Listed(c)' <=> Listed(c)
               /\ ~ Listening(c)' /\ ~ Listening(c)
    <3>1. Registered(c)' <=> Registered(c)
      BY <1>1, <2>6, <2>7 DEF Registered
    <3>2. Accepted(c)' <=> Accepted(c)
      BY <2>6, <2>7 DEF Accepted
    <3>3. Open(c)' => Open(c)
      BY <2>2, <2>7 DEF Open, IInv, TypeOK
    <3> QED BY <1>1, <2>1, <2>4, <2>7, <3>1, <3>2, <3>3, ConnsAssumption DEF Listed, Listening
  <2>8. ASSUME NEW c \in Conns, c = h
        PROVE  Listening(c)' /\ ~ Registered(c)' /\ ~ Reading(c)
    <3>1. Listening(c)' /\ ~ Registered(c)'
      BY <1>1, <2>1, <2>5, <2>6, <2>8 DEF Listening, Registered
    <3>2. ~ Reading(c)
      BY <2>4, <2>8, ReaderAttends, FDsAssumption DEF IInv, PlaceInv
    <3> QED BY <3>1, <3>2
  <2>9. ASSUME NEW c \in Conns
        PROVE  /\ Listening(c)' \/ Listed(c)' => ~ Registered(c)'
               /\ epollOpen' => (Reading(c)' => Registered(c)')
               /\ epollOpen' => (Accepted(c)' => Attended(c)' \/ ~ Open(c)' \/ GivenUp(c)')
    <3>1. CASE c = h
      BY <1>2, <2>8, <3>1 DEF Attended
    <3>2. CASE c # h
      BY <1>1, <1>2, <2>7, <3>2 DEF FateInv, Attended
    <3> QED BY <3>1, <3>2
  <2> QED BY <1>2, <2>9 DEF FateInv
<1> QED BY <1>3, <1>4, <1>5 DEF ListenStep

(* The epoll thread, where it leaves the entries alone.                     *)
LEMMA FateQuiet ==
  ASSUME IInv, FateInv,
         EpollTest \/ CopyNewClients \/ ClearNewClients \/ InitDone \/ DestroyPool \/ DeleteQueries
  PROVE  FateInv'
<1>1. /\ UNCHANGED <<peer, input, table, interest, m_clientfd, epollOpen, shut, newQuery, batch, running, wpc>>
      /\ epollOpen' => epollOpen /\ epc' \notin {"shutdown", "join", "vanish", "delete", "done"}
                         /\ pending' = pending
  BY DEF EpollTest, CopyNewClients, ClearNewClients, InitDone, DestroyPool, DeleteQueries, FateInv,
     Pool!Close, Pool!Discard, Pool!Vanish, clientVars, kernelVars, listenVars, poolVars
<1>2. Members(<<>>) = {}
  BY EmptyQueueMembers DEF Members, Elements
<1>3. \A c \in Conns : Listed(c)' <=> Listed(c)
  <2>1. CASE CopyNewClients
    <3>1. /\ epc = "copy" /\ m_newClientList' = m_newClientList
          /\ newClientList' \in {newClientList, m_newClientList}
      BY <2>1 DEF CopyNewClients
    <3>2. newClientList = <<>>
      BY <3>1 DEF IInv, ListInv
    <3> QED BY <1>2, <3>1, <3>2 DEF Listed
  <2>2. CASE ClearNewClients
    <3>1. m_newClientList' = <<>> /\ newClientList' = newClientList /\ newClientList = m_newClientList
      BY <2>2 DEF ClearNewClients, IInv, ListInv
    <3> QED BY <1>2, <3>1 DEF Listed
  <2>3. CASE EpollTest \/ InitDone \/ DestroyPool \/ DeleteQueries
    BY <2>3 DEF EpollTest, InitDone, DestroyPool, DeleteQueries, listVars, Listed
  <2> QED BY <2>1, <2>2, <2>3
<1>4. \A w \in Workers : Conn(w)' = Conn(w) /\ (Busy(w)' <=> Busy(w))
  BY <1>1 DEF Conn, Busy
<1>5. \A w \in Workers : wpc'[w] = "abort" => peer'[Conn(w)'] = "reset" /\ input'[Conn(w)'] = "length"
  BY <1>1, <1>4 DEF FateInv
<1>6. \A c \in Conns : /\ Listening(c)' <=> Listening(c)
                       /\ Armed(c)' <=> Armed(c)
                       /\ Reported(c)' <=> Reported(c)
                       /\ Served(c)' <=> Served(c)
                       /\ GivenUp(c)' <=> GivenUp(c)
                       /\ epollOpen' => (Queued(c)' <=> Queued(c)) /\ (Reading(c)' <=> Reading(c))
  BY <1>1, <1>4 DEF Listening, Armed, Reported, Served, GivenUp, Queued, Reading
<1>7. epollOpen' => \A c \in Conns : Attended(c)' <=> Attended(c)
  BY <1>3, <1>6 DEF Attended
<1> QED BY <1>1, <1>3, <1>5, <1>6, <1>7, FateStays

(* EPOLL_CTL_ADD: the connection has no entry yet, so the call succeeds.    *)
LEMMA FateInit ==
  ASSUME IInv, FateInv, InitQuery PROVE FateInv'
<1> DEFINE h == Head(newClientList)
           f == m_clientfd[h]
<1>1. /\ epc = "init" /\ epc' = epc /\ newClientList # <<>> /\ newClientList' = Tail(newClientList)
      /\ interest' = IF interest[f] = Unregistered
                       THEN [interest EXCEPT ![f] = [conn |-> h, arm |-> "in"]]
                       ELSE interest
      /\ UNCHANGED <<peer, input, table, m_clientfd, epollOpen, shut, newQuery, m_newClientList,
                     batch, pending, running, wpc>>
  BY DEF InitQuery, clientVars, listVars, listenVars, poolVars
<1>2. /\ h \in Conns /\ h \in Members(newClientList)
      /\ Members(Tail(newClientList)) = Members(newClientList) \ {h}
      /\ h \notin Members(m_newClientList)
  BY <1>1, Popped DEF IInv, TypeOK, ListInv
<1>3. At(h, "list") /\ "list" \in Places /\ "listener" \in Places
  BY <1>2 DEF At, Listed, Places
<1>4. f \in FDs /\ table[f] = h /\ ~ Listening(h) /\ interest[f] = Unregistered
  BY <1>2, <1>3 DEF IInv, PlaceInv, At, Listed, FateInv, Registered
<1> HIDE DEF h, f
<1>5. \A g \in FDs : interest'[g] = IF g = f THEN [conn |-> h, arm |-> "in"] ELSE interest[g]
  BY <1>1, <1>4 DEF IInv, TypeOK
<1>6. \A w \in Workers : Conn(w)' = Conn(w) /\ (Busy(w)' <=> Busy(w))
  BY <1>1 DEF Conn, Busy
<1>7. \A c \in Conns : /\ Listening(c)' <=> Listening(c)
                       /\ Reported(c)' <=> Reported(c)
                       /\ Queued(c)' <=> Queued(c)
                       /\ Served(c)' <=> Served(c)
                       /\ Reading(c)' <=> Reading(c)
                       /\ GivenUp(c)' <=> GivenUp(c)
                       /\ Accepted(c)' <=> Accepted(c)
                       /\ Open(c)' <=> Open(c)
                       /\ Listed(c)' <=> (Listed(c) /\ c # h)
  BY <1>1, <1>2, <1>6 DEF Listening, Reported, Queued, Served, Reading, GivenUp, Accepted, Open, Listed
<1>8. ASSUME NEW c \in Conns, Listening(c) \/ Listed(c), c # h
      PROVE  ~ Registered(c)'
  <2>1. At(c, "listener") \/ At(c, "list")
    BY <1>8 DEF At
  <2>2. m_clientfd[c] \in FDs /\ table[m_clientfd[c]] = c
    BY <1>3, <2>1 DEF IInv, PlaceInv
  <2>3. m_clientfd[c] # f
    BY <1>4, <1>8, <2>2
  <2> QED BY <1>1, <1>5, <1>8, <2>2, <2>3 DEF FateInv, Registered
<1>9. ASSUME NEW c \in Conns, epollOpen', Reading(c)' PROVE Registered(c)'
  <2>1. Registered(c) /\ epollOpen
    BY <1>1, <1>7, <1>9 DEF FateInv
  <2>2. m_clientfd[c] \in FDs
    BY <1>7, <1>9, ReaderAttends DEF IInv, PlaceInv
  <2> QED BY <1>1, <1>4, <1>5, <2>1, <2>2 DEF Registered
<1>10. \A c \in Conns : Armed(c) => Armed(c)'
  BY <1>4, <1>5, ConnsAssumption DEF Armed, Unregistered
<1>11. \A c \in Conns : c = h => Armed(c)'
  BY <1>4, <1>5 DEF Armed
<1>12. \A c \in Conns : Attended(c) => Attended(c)'
  BY <1>7, <1>10, <1>11 DEF Attended
<1>13. \A w \in Workers : wpc'[w] = "abort" => peer'[Conn(w)'] = "reset" /\ input'[Conn(w)'] = "length"
  BY <1>1, <1>6 DEF FateInv
<1>14. \A c \in Conns : Listening(c)' \/ Listed(c)' => ~ Registered(c)'
  BY <1>4, <1>7, <1>8, <1>2
<1>15. epollOpen' => /\ epollOpen /\ epc' \notin {"shutdown", "join", "vanish", "delete", "done"}
                     /\ \A c \in Conns : Accepted(c)' => Attended(c)' \/ ~ Open(c)' \/ GivenUp(c)'
  BY <1>1, <1>7, <1>12 DEF FateInv
<1> QED BY <1>9, <1>13, <1>14, <1>15 DEF FateInv

(* epoll_wait disarms entries but drops none, and each one becomes an event.*)
LEMMA FateWait ==
  ASSUME IInv, StopInv, FateInv, EpollWait PROVE FateInv'
<1>1. PICK some \in SUBSET ReadyFDs :
        /\ interest' = [f \in FDs |-> IF f \in some THEN AfterReport(f) ELSE interest[f]]
        /\ batch' = {JobFor(f) : f \in some}
        /\ epc' \in {"test", "dispatch"}
  BY DEF EpollWait
<1>2. /\ epc = "wait"
      /\ UNCHANGED <<peer, input, table, m_clientfd, epollOpen, shut, newQuery, m_newClientList,
                     newClientList, pending, running, wpc>>
  BY DEF EpollWait, clientVars, listVars, listenVars, poolVars
<1>3. batch = {}
  BY <1>2 DEF StopInv
<1>4. ASSUME NEW f \in some
      PROVE  /\ f \in FDs /\ interest[f].conn \in Conns /\ JobFor(f).conn = interest[f].conn
             /\ AfterReport(f).conn = interest[f].conn
             /\ interest[f] # Unregistered /\ m_clientfd[interest[f].conn] = f
  <2>1. f \in FDs /\ interest[f].arm \in {"in", "out"}
    BY <1>1 DEF ReadyFDs, Ready
  <2>2. interest[f] # Unregistered /\ interest[f] \in [conn : Conns, arm : {"in", "out", "off"}]
    BY <2>1 DEF IInv, TypeOK, Entries, Unregistered
  <2>3. interest[f].conn \in Conns /\ table[f] = interest[f].conn
    BY <2>1, <2>2 DEF IInv, FdInv
  <2> QED BY <2>1, <2>2, <2>3, ConnsAssumption DEF JobFor, AfterReport, IInv, FdInv
<1>5. \A f \in FDs : interest'[f] # Unregistered <=> interest[f] # Unregistered
  BY <1>1, <1>4, ConnsAssumption DEF Unregistered
<1>6. \A w \in Workers : Conn(w)' = Conn(w) /\ (Busy(w)' <=> Busy(w))
  BY <1>2 DEF Conn, Busy
<1>7. \A c \in Conns : /\ Listening(c)' <=> Listening(c)
                       /\ Listed(c)' <=> Listed(c)
                       /\ Queued(c)' <=> Queued(c)
                       /\ Served(c)' <=> Served(c)
                       /\ GivenUp(c)' <=> GivenUp(c)
                       /\ Accepted(c)' <=> Accepted(c)
                       /\ Open(c)' <=> Open(c)
  BY <1>2, <1>6 DEF Listening, Listed, Queued, Served, GivenUp, Accepted, Open
<1>8. ASSUME NEW c \in Conns, m_clientfd[c] \in FDs PROVE Registered(c)' <=> Registered(c)
  BY <1>2, <1>5, <1>8 DEF Registered
<1>9. ASSUME NEW c \in Conns, Listening(c)' \/ Listed(c)' PROVE ~ Registered(c)'
  <2>1. (At(c, "listener") \/ At(c, "list")) /\ "listener" \in Places /\ "list" \in Places
    BY <1>7, <1>9 DEF At, Places
  <2>2. m_clientfd[c] \in FDs
    BY <2>1 DEF IInv, PlaceInv
  <2> QED BY <1>7, <1>8, <1>9, <2>2 DEF FateInv
<1>10. ASSUME NEW c \in Conns, epollOpen, Reading(c)' PROVE Registered(c)'
  <2>1. CASE Reading(c)
    <3>1. m_clientfd[c] \in FDs
      BY <2>1, ReaderAttends DEF IInv, PlaceInv
    <3> QED BY <1>8, <1>10, <2>1, <3>1 DEF FateInv
  <2>2. CASE \E job \in batch' : job.conn = c
    <3>1. PICK f \in some : interest[f].conn = c
      BY <1>1, <1>4, <2>2
    <3>2. m_clientfd[c] = f /\ f \in FDs /\ Registered(c)
      BY <1>4, <3>1 DEF Registered
    <3> QED BY <1>8, <3>2
  <2> QED BY <1>2, <1>6, <1>10, <2>1, <2>2 DEF Reading
<1>11. ASSUME NEW c \in Conns PROVE Attended(c) => Attended(c)'
  <2>1. ASSUME Armed(c) PROVE Armed(c)' \/ Reported(c)'
    <3>1. PICK f \in FDs : interest[f].conn = c /\ interest[f].arm # "off"
      BY <2>1 DEF Armed
    <3>2. CASE f \in some
      BY <1>1, <1>4, <3>1, <3>2 DEF Reported
    <3>3. CASE f \notin some
      BY <1>1, <3>1, <3>3 DEF Armed
    <3> QED BY <3>2, <3>3
  <2>2. ~ Reported(c)
    BY <1>3 DEF Reported
  <2> QED BY <1>7, <2>1, <2>2 DEF Attended
<1>12. \A w \in Workers : wpc'[w] = "abort" => peer'[Conn(w)'] = "reset" /\ input'[Conn(w)'] = "length"
  BY <1>2, <1>6 DEF FateInv
<1>13. epollOpen' => \A c \in Conns : Accepted(c)' => Attended(c)' \/ ~ Open(c)' \/ GivenUp(c)'
  BY <1>2, <1>7, <1>11 DEF FateInv
<1> QED BY <1>1, <1>2, <1>9, <1>10, <1>12, <1>13 DEF FateInv

(* addTask: an event becomes a queued job.                                  *)
LEMMA FateDispatch ==
  ASSUME IInv, FateInv, Dispatch PROVE FateInv'
<1>1. PICK job \in batch : /\ pending' = Append(pending, job)
                           /\ batch' = batch \ {job}
                           /\ epc' \in {"test", "dispatch"}
  BY DEF Dispatch, Pool!Submit
<1>2. UNCHANGED <<peer, input, table, interest, m_clientfd, epollOpen, shut, newQuery, m_newClientList,
                  newClientList, running, wpc>>
  BY DEF Dispatch, Pool!Submit, clientVars, kernelVars, listVars, listenVars
<1>3. /\ Len(pending) \in Nat /\ Len(pending') = Len(pending) + 1
      /\ pending'[Len(pending) + 1] = job
      /\ \A i \in 1 .. Len(pending) : pending'[i] = pending[i]
  BY <1>1, AppendProperties, LenProperties DEF IInv, TypeOK
<1>4. \A w \in Workers : Conn(w)' = Conn(w) /\ (Busy(w)' <=> Busy(w))
  BY <1>2 DEF Conn, Busy
<1>5. \A i \in 1 .. Len(pending') : pending'[i] = job \/ (i \in 1 .. Len(pending) /\ pending'[i] = pending[i])
  BY <1>3
<1>6. Len(pending) + 1 \in 1 .. Len(pending') /\ \A i \in 1 .. Len(pending) : i \in 1 .. Len(pending')
  BY <1>3
<1>7. ASSUME NEW c \in Conns, Reading(c)' PROVE Reading(c)
  BY <1>1, <1>2, <1>4, <1>5, <1>7 DEF Reading
<1>8. ASSUME NEW c \in Conns, Reported(c) \/ Queued(c) PROVE Reported(c)' \/ Queued(c)'
  BY <1>1, <1>3, <1>6, <1>8 DEF Reported, Queued
<1>9. \A c \in Conns : /\ Listening(c)' <=> Listening(c)
                       /\ Listed(c)' <=> Listed(c)
                       /\ Armed(c)' <=> Armed(c)
                       /\ Served(c)' <=> Served(c)
                       /\ GivenUp(c)' <=> GivenUp(c)
  BY <1>2, <1>4 DEF Listening, Listed, Armed, Served, GivenUp
<1>10. \A c \in Conns : Attended(c) => Attended(c)'
  BY <1>8, <1>9 DEF Attended
<1>11. \A w \in Workers : wpc'[w] = "abort" => peer'[Conn(w)'] = "reset" /\ input'[Conn(w)'] = "length"
  BY <1>2, <1>4 DEF FateInv
<1> QED BY <1>1, <1>2, <1>7, <1>9, <1>10, <1>11, FateStays

(* close(epfd): from here on nobody is promised anything.                   *)
LEMMA FateClose ==
  ASSUME IInv, FateInv, CloseEpoll PROVE FateInv'
<1>1. /\ epollOpen' = FALSE /\ interest' = [f \in FDs |-> Unregistered]
      /\ UNCHANGED <<peer, input, m_clientfd, newQuery, m_newClientList, newClientList, running, wpc>>
  BY DEF CloseEpoll, clientVars, listVars, listenVars, poolVars
<1>2. ASSUME NEW c \in Conns, Listening(c)' \/ Listed(c)' PROVE ~ Registered(c)'
  <2>1. (At(c, "listener") \/ At(c, "list")) /\ "listener" \in Places /\ "list" \in Places
    BY <1>1, <1>2 DEF At, Places, Listening, Listed
  <2>2. m_clientfd[c] \in FDs
    BY <2>1 DEF IInv, PlaceInv
  <2> QED BY <1>1, <2>2 DEF Registered
<1>3. \A w \in Workers : Conn(w)' = Conn(w)
  BY <1>1 DEF Conn
<1> QED BY <1>1, <1>2, <1>3 DEF FateInv

(* A worker takes the first job of the queue.                               *)
LEMMA FateBegin ==
  ASSUME IInv, FateInv, NEW w \in Workers, Begin(w) PROVE FateInv'
<1> DEFINE job == Head(pending)
<1>1. /\ pending # <<>> /\ pending' = Tail(pending) /\ running[w] = NoTask
      /\ running' = [running EXCEPT ![w] = job]
      /\ wpc' = [wpc EXCEPT ![w] = IF running'[w].fun = "doQuery" THEN "recvLength" ELSE "send"]
      /\ UNCHANGED <<peer, input, table, interest, m_clientfd, epollOpen, shut, epc, newQuery,
                     m_newClientList, newClientList, batch>>
  BY DEF Begin, Pool!Begin, Goto, clientVars, kernelVars, listVars, listenVars, epollVars
<1>2. /\ Len(pending) \in Nat \ {0}
      /\ Len(pending') = Len(pending) - 1
      /\ \A i \in 1 .. Len(pending') : pending'[i] = pending[i + 1]
      /\ job \in Jobs /\ job = pending[1]
  BY <1>1, HeadTailProperties, EmptySeq, LenProperties DEF IInv, TypeOK
<1> HIDE DEF job
<1>3. /\ running'[w] = job /\ wpc'[w] = IF job.fun = "doQuery" THEN "recvLength" ELSE "send"
      /\ \A v \in Workers \ {w} : running'[v] = running[v] /\ wpc'[v] = wpc[v]
  BY <1>1 DEF IInv, TypeOK
<1>4. wpc[w] = "idle"
  BY <1>1 DEF IInv, WorkInv
<1>5. Conn(w)' = job.conn /\ \A v \in Workers \ {w} : Conn(v)' = Conn(v) /\ (Busy(v)' <=> Busy(v))
  BY <1>3 DEF Conn, Busy
<1>6. ~ Busy(w) /\ Busy(w)'
  BY <1>3, <1>4 DEF Busy
<1>7. \A i \in 1 .. Len(pending') : i + 1 \in 1 .. Len(pending) /\ pending'[i] = pending[i + 1]
  BY <1>2
<1>8. \A i \in 1 .. Len(pending) : pending[i] = job \/ (i - 1 \in 1 .. Len(pending') /\ pending'[i - 1] = pending[i])
  BY <1>2
<1>9. 1 \in 1 .. Len(pending)
  BY <1>2
<1>10. ASSUME NEW c \in Conns, Reading(c)' PROVE Reading(c)
  <2>1. CASE \E i \in 1 .. Len(pending') : pending'[i].fun = "doQuery" /\ pending'[i].conn = c
    BY <1>7, <2>1 DEF Reading
  <2>2. CASE wpc'[w] \in {"recvLength", "recvMessage", "rearm"} /\ Conn(w)' = c
    <3>1. job.fun = "doQuery" /\ job.conn = c
      BY <1>3, <1>5, <2>2
    <3> QED BY <1>2, <1>9, <3>1 DEF Reading
  <2>3. CASE \E v \in Workers \ {w} : wpc'[v] \in {"recvLength", "recvMessage", "rearm"} /\ Conn(v)' = c
    BY <1>3, <1>5, <2>3 DEF Reading
  <2> QED BY <1>1, <1>10, <2>1, <2>2, <2>3 DEF Reading
<1>11. ASSUME NEW c \in Conns, Queued(c) \/ Served(c) PROVE Queued(c)' \/ Served(c)'
  BY <1>5, <1>6, <1>8, <1>11 DEF Queued, Served
<1>12. \A c \in Conns : /\ Listening(c)' <=> Listening(c)
                        /\ Listed(c)' <=> Listed(c)
                        /\ Armed(c)' <=> Armed(c)
                        /\ Reported(c)' <=> Reported(c)
                        /\ GivenUp(c)' <=> GivenUp(c)
  BY <1>1 DEF Listening, Listed, Armed, Reported, GivenUp
<1>13. \A c \in Conns : Attended(c) => Attended(c)'
  BY <1>11, <1>12 DEF Attended
<1>14. \A v \in Workers : wpc'[v] = "abort" => peer'[Conn(v)'] = "reset" /\ input'[Conn(v)'] = "length"
  BY <1>1, <1>3, <1>5 DEF FateInv
<1>15. epollOpen' => epollOpen /\ epc' \notin {"shutdown", "join", "vanish", "delete", "done"}
  BY <1>1 DEF FateInv
<1> QED BY <1>1, <1>10, <1>12, <1>13, <1>14, <1>15, FateStays

(* A worker that finished had nobody any more.                              *)
LEMMA FateFinish ==
  ASSUME IInv, FateInv, NEW w \in Workers, Finish(w) PROVE FateInv'
<1>1. /\ wpc[w] = "finish" /\ wpc' = [wpc EXCEPT ![w] = "idle"]
      /\ running' = [running EXCEPT ![w] = NoTask]
      /\ UNCHANGED <<peer, input, table, interest, m_clientfd, epollOpen, shut, epc, newQuery,
                     m_newClientList, newClientList, batch, pending>>
  BY DEF Finish, Pool!Finish, Goto, clientVars, kernelVars, listVars, listenVars, epollVars
<1>2. wpc'[w] = "idle" /\ \A v \in Workers \ {w} : running'[v] = running[v] /\ wpc'[v] = wpc[v]
  BY <1>1 DEF IInv, TypeOK
<1>3. ~ Busy(w) /\ ~ Busy(w)' /\ \A v \in Workers \ {w} : Conn(v)' = Conn(v) /\ (Busy(v)' <=> Busy(v))
  BY <1>1, <1>2 DEF Conn, Busy
<1>4. \A c \in Conns : /\ Listening(c)' <=> Listening(c)
                       /\ Listed(c)' <=> Listed(c)
                       /\ Armed(c)' <=> Armed(c)
                       /\ Reported(c)' <=> Reported(c)
                       /\ Queued(c)' <=> Queued(c)
                       /\ GivenUp(c)' <=> GivenUp(c)
  BY <1>1 DEF Listening, Listed, Armed, Reported, Queued, GivenUp
<1>5. \A c \in Conns : Served(c) => Served(c)'
  BY <1>3 DEF Served
<1>6. \A c \in Conns : Reading(c)' => Reading(c)
  BY <1>1, <1>2, <1>3 DEF Reading
<1>7. \A c \in Conns : Attended(c) => Attended(c)'
  BY <1>4, <1>5 DEF Attended
<1>8. \A v \in Workers : wpc'[v] = "abort" => peer'[Conn(v)'] = "reset" /\ input'[Conn(v)'] = "length"
  BY <1>1, <1>2, <1>3 DEF FateInv
<1>9. epollOpen' => epollOpen /\ epc' \notin {"shutdown", "join", "vanish", "delete", "done"}
  BY <1>1 DEF FateInv
<1> QED BY <1>1, <1>4, <1>6, <1>7, <1>8, <1>9, FateStays

(* The handlers where they leave the entries alone.  doQuery drops its      *)
(* connection only behind the shutdown of a connection that was reset.      *)
LEMMA FateHandler ==
  ASSUME IInv, FateInv, NEW w \in Workers,
         RecvLength(w) \/ RecvMessage(w) \/ Abort(w) \/ Send(w) \/ Shutdown(w)
  PROVE  FateInv'
<1> DEFINE x == Conn(w)
           f == FD(w)
<1>1. /\ Busy(w) /\ shut \subseteq shut'
      /\ UNCHANGED <<peer, input, table, interest, m_clientfd, epollOpen, epc, newQuery,
                     m_newClientList, newClientList, batch, pending, running>>
  BY DEF RecvLength, RecvMessage, Abort, Send, Shutdown, Busy, clientVars, kernelVars, listVars,
     listenVars, epollVars, poolVars
<1>2. x \in Conns /\ f \in FDs /\ table[f] = x
  BY <1>1, BusyWorker
<1> HIDE DEF x, f
<1>3. \A v \in Workers : Conn(v)' = Conn(v) /\ (v # w => wpc'[v] = wpc[v])
  BY <1>1 DEF RecvLength, RecvMessage, Abort, Send, Shutdown, Goto, IInv, TypeOK, Conn
<1>4. /\ wpc'[w] \in {"recvLength", "recvMessage", "rearm"} =>
           wpc[w] \in {"recvLength", "recvMessage", "rearm"}
      /\ wpc'[w] = "abort" => peer[x] = "reset" /\ input[x] = "length"
      /\ Busy(w)' \/ (wpc[w] = "abort" /\ x \in shut')
  <2>1. CASE RecvLength(w)
    BY <2>1 DEF RecvLength, Goto, Busy, IInv, TypeOK
  <2>2. CASE RecvMessage(w)
    BY <1>2, <2>2 DEF RecvMessage, Goto, Busy, IInv, TypeOK, f
  <2>3. CASE Abort(w)
    BY <1>2, <2>3, ConnsAssumption DEF Abort, Goto, Busy, IInv, TypeOK, f
  <2>4. CASE Send(w) \/ Shutdown(w)
    BY <2>4 DEF Send, Shutdown, Goto, Busy, IInv, TypeOK
  <2> QED BY <2>1, <2>2, <2>3, <2>4
<1>5. \A c \in Conns : GivenUp(c) => GivenUp(c)'
  BY <1>1 DEF GivenUp
<1>6. wpc[w] = "abort" => peer[x] = "reset" /\ input[x] = "length"
  BY DEF FateInv, x
<1>7. \A c \in Conns : Served(c) => Served(c)' \/ GivenUp(c)'
  <2> SUFFICES ASSUME NEW c \in Conns, NEW v \in Workers, Busy(v), Conn(v) = c
               PROVE  Served(c)' \/ GivenUp(c)'
    BY DEF Served
  <2>1. CASE v = w
    BY <1>1, <1>3, <1>4, <1>6, <2>1 DEF Served, GivenUp, x
  <2>2. CASE v # w
    BY <1>3, <2>2 DEF Served, Busy
  <2> QED BY <2>1, <2>2
<1>8. \A c \in Conns : /\ Listening(c)' <=> Listening(c)
                       /\ Listed(c)' <=> Listed(c)
                       /\ Armed(c)' <=> Armed(c)
                       /\ Reported(c)' <=> Reported(c)
                       /\ Queued(c)' <=> Queued(c)
  BY <1>1 DEF Listening, Listed, Armed, Reported, Queued
<1>9. \A c \in Conns : Reading(c)' => Reading(c)
  BY <1>1, <1>3, <1>4 DEF Reading
<1>10. \A c \in Conns : Attended(c) => Attended(c)' \/ GivenUp(c)'
  BY <1>7, <1>8 DEF Attended
<1>11. \A v \in Workers : wpc'[v] = "abort" => peer'[Conn(v)'] = "reset" /\ input'[Conn(v)'] = "length"
  BY <1>1, <1>3, <1>4 DEF FateInv, x
<1>12. epollOpen' => epollOpen /\ epc' \notin {"shutdown", "join", "vanish", "delete", "done"}
  BY <1>1 DEF FateInv
<1> QED BY <1>1, <1>5, <1>8, <1>9, <1>10, <1>11, <1>12, FateStays

(* The handlers where they change the entry of their own number: nobody     *)
(* else goes by it, and their own connection is handed to the armed entry   *)
(* (EPOLL_CTL_MOD succeeds, the entry is still there), stays with the       *)
(* worker, or is closed.                                                    *)
LEMMA FateEntry ==
  ASSUME IInv, FateInv, NEW w \in Workers, Rearm(w) \/ Deregister(w) \/ Close(w)
  PROVE  FateInv'
<1> DEFINE x == Conn(w)
           f == FD(w)
<1>1. /\ Busy(w)
      /\ UNCHANGED <<peer, input, m_clientfd, epollOpen, shut, epc, newQuery,
                     m_newClientList, newClientList, batch, pending, running>>
  BY DEF Rearm, Deregister, Close, Busy, clientVars, listVars, listenVars, epollVars, poolVars
<1>2. /\ x \in Conns /\ f \in FDs /\ table[f] = x /\ m_clientfd[x] = f /\ At(x, "worker")
      /\ "worker" \in Places
  BY <1>1, BusyWorker DEF FD, Places
<1>3. /\ \A v \in Workers : Conn(v)' = Conn(v) /\ (v # w => wpc'[v] = wpc[v])
      /\ wpc'[w] \in {"finish", "shutdown"}
  BY <1>1 DEF Rearm, Deregister, Close, Goto, IInv, TypeOK, Conn
<1>4. \A v \in Workers : Busy(v) /\ Conn(v) = x => v = w
  BY <1>1 DEF IInv, WorkInv
<1>5. ~ Listening(x) /\ ~ Listed(x) /\ ~ Armed(x) /\ ~ Reported(x) /\ ~ Queued(x)
  BY <1>2 DEF IInv, PlaceInv, At, Places
<1>6. wpc[w] = "rearm" => Reading(x)
  BY DEF Reading
<1> HIDE DEF x, f
<1>7. /\ \A g \in FDs \ {f} : interest'[g] = interest[g] /\ table'[g] = table[g]
      /\ table'[f] \in {x, NoConn}
  BY <1>2 DEF Rearm, Deregister, Close, IInv, TypeOK, f
<1>8. ASSUME NEW c \in Conns, c # x, NEW p \in Places, At(c, p)
      PROVE  Registered(c)' <=> Registered(c)
  <2>1. m_clientfd[c] \in FDs /\ table[m_clientfd[c]] = c
    BY <1>8 DEF IInv, PlaceInv
  <2>2. m_clientfd[c] # f
    BY <1>2, <1>8, <2>1
  <2> QED BY <1>1, <1>7, <2>1, <2>2 DEF Registered
<1>9. \A c \in Conns : /\ Listening(c)' <=> Listening(c)
                       /\ Listed(c)' <=> Listed(c)
                       /\ Reported(c)' <=> Reported(c)
                       /\ Queued(c)' <=> Queued(c)
                       /\ GivenUp(c)' <=> GivenUp(c)
                       /\ Accepted(c)' <=> Accepted(c)
  BY <1>1 DEF Listening, Listed, Reported, Queued, GivenUp, Accepted
<1>10. ASSUME NEW c \in Conns, Listening(c)' \/ Listed(c)' PROVE ~ Registered(c)'
  <2>1. (At(c, "listener") \/ At(c, "list")) /\ "listener" \in Places /\ "list" \in Places
    BY <1>9, <1>10 DEF At, Places
  <2>2. c # x /\ ~ Registered(c)
    BY <1>5, <1>9, <1>10 DEF FateInv
  <2> QED BY <1>8, <2>1, <2>2
<1>11. ASSUME NEW c \in Conns, Reading(c)' PROVE Reading(c) /\ c # x
  <2>1. Reading(c)
    BY <1>1, <1>3, <1>11 DEF Reading
  <2>2. ASSUME c = x PROVE FALSE
    <3>1. \E v \in Workers : wpc'[v] \in {"recvLength", "recvMessage", "rearm"} /\ Conn(v)' = c
      BY <1>1, <1>5, <1>11, <2>2 DEF Reading, Reported, Queued
    <3>2. PICK v \in Workers : wpc[v] \in {"recvLength", "recvMessage", "rearm"} /\ Conn(v) = x /\ v # w
      BY <1>3, <2>2, <3>1
    <3> QED BY <1>4, <3>2 DEF Busy
  <2> QED BY <2>1, <2>2
<1>12. ASSUME NEW c \in Conns, epollOpen', Reading(c)' PROVE Registered(c)'
  <2>1. Registered(c) /\ c # x
    BY <1>1, <1>11, <1>12 DEF FateInv
  <2>2. \E p \in Places : At(c, p)
    BY <1>11, <1>12, ReaderAttends
  <2> QED BY <1>8, <2>1, <2>2
<1>13. \A v \in Workers : wpc'[v] = "abort" => peer'[Conn(v)'] = "reset" /\ input'[Conn(v)'] = "length"
  BY <1>1, <1>3 DEF FateInv
<1>14. ASSUME NEW c \in Conns, c # x, Attended(c) PROVE Attended(c)'
  <2>1. ASSUME Armed(c) PROVE Armed(c)'
    <3>1. PICK g \in FDs : interest[g].conn = c /\ interest[g].arm # "off"
      BY <2>1 DEF Armed
    <3>2. table[g] = c
      BY <3>1, ConnsAssumption DEF IInv, FdInv, Unregistered
    <3>3. g # f
      BY <1>2, <1>14, <3>2
    <3> QED BY <1>7, <3>1, <3>3 DEF Armed
  <2>2. ASSUME Served(c) PROVE Served(c)'
    <3>1. PICK v \in Workers : Busy(v) /\ Conn(v) = c
      BY <2>2 DEF Served
    <3>2. v # w
      BY <1>14, <3>1 DEF x
    <3> QED BY <1>3, <3>1, <3>2 DEF Served, Busy
  <2> QED BY <1>9, <1>14, <2>1, <2>2 DEF Attended
<1>15. ASSUME epollOpen, NEW c \in Conns, c = x PROVE Attended(c)' \/ ~ Open(c)'
  <2>1. CASE Rearm(w)
    <3>1. Registered(x)
      BY <1>2, <1>6, <1>15, <2>1 DEF FateInv, Rearm
    <3>2. interest'[f] = [conn |-> x, arm |-> "out"]
      BY <1>2, <2>1, <3>1 DEF Rearm, Registered, IInv, TypeOK, x, f
    <3> QED BY <1>2, <1>15, <3>2 DEF Armed, Attended
  <2>2. CASE Deregister(w)
    <3>1. Busy(w)' /\ Conn(w)' = c
      BY <1>3, <1>15, <2>2 DEF Deregister, Goto, Busy, IInv, TypeOK, x
    <3> QED BY <3>1 DEF Served, Attended
  <2>3. CASE Close(w)
    <3>1. table' = [table EXCEPT ![f] = NoConn]
      BY <2>3 DEF Close, f
    <3>2. ASSUME NEW g \in FDs PROVE table'[g] # c
      BY <1>2, <1>15, <3>1, ConnsAssumption DEF IInv, TypeOK, FdInv
    <3> QED BY <3>2 DEF Open
  <2> QED BY <2>1, <2>2, <2>3
<1>16. \A c \in Conns : c # x => (Open(c)' => Open(c))
  BY <1>2, <1>7, ConnsAssumption DEF Open
<1>17. ASSUME epollOpen', NEW c \in Conns, Accepted(c)'
       PROVE  Attended(c)' \/ ~ Open(c)' \/ GivenUp(c)'
  <2>1. CASE c = x
    BY <1>1, <1>15, <1>17, <2>1
  <2>2. CASE c # x
    BY <1>1, <1>9, <1>14, <1>16, <1>17, <2>2 DEF FateInv
  <2> QED BY <2>1, <2>2
<1>18. epollOpen' => epc' \notin {"shutdown", "join", "vanish", "delete", "done"}
  BY <1>1 DEF FateInv
<1> QED BY <1>10, <1>12, <1>13, <1>17, <1>18 DEF FateInv

(* run_listen, run_epoll and the handlers: while the server runs, every     *)
(* connection it accepted is looked after by somebody, closed, or given up  *)
(* by doQuery after its client reset it in the middle of a message.         *)
THEOREM NobodyIsLost == Spec => []NoClientLost
<1>1. Init => FateInv
  <2> SUFFICES ASSUME Init PROVE FateInv
    OBVIOUS
  <2> USE DEF Init, Pool!Init
  <2>1. Members(<<>>) = {} /\ Len(<<>>) = 0
    BY EmptyQueueMembers, EmptySeq DEF Members, Elements
  <2>2. \A c \in Conns : ~ Listening(c) /\ ~ Listed(c) /\ ~ Accepted(c)
    BY <2>1, ConnsAssumption DEF Listening, Listed, Accepted
  <2>3. \A c \in Conns : ~ Reading(c)
    BY <2>1 DEF Reading
  <2> QED BY <2>2, <2>3 DEF FateInv
<1>2. IInv /\ StopInv /\ FateInv /\ [Next]_vars => FateInv'
  <2> SUFFICES ASSUME IInv, StopInv, FateInv, [Next]_vars PROVE FateInv'
    OBVIOUS
  <2>1. CASE EpollStep
    BY <2>1, FateQuiet, FateInit, FateWait, FateDispatch, FateClose DEF EpollStep
  <2>2. ASSUME NEW w \in Workers, WorkerStep(w) PROVE FateInv'
    BY <2>2, FateBegin, FateFinish, FateHandler, FateEntry DEF WorkerStep
  <2>3. CASE UNCHANGED vars
    <3>1. UNCHANGED <<peer, input, table, interest, epollOpen, shut, epc, m_clientfd, newQuery,
                      m_newClientList, newClientList, batch, pending, running, wpc>>
      BY <2>3 DEF vars, clientVars, kernelVars, listVars, listenVars, epollVars, poolVars
    <3>2. \A w \in Workers : wpc'[w] = "abort" => peer'[Conn(w)'] = "reset" /\ input'[Conn(w)'] = "length"
      BY <3>1 DEF FateInv, Conn
    <3>3. \A c \in Conns : GivenUp(c) => GivenUp(c)'
      BY <3>1 DEF GivenUp
    <3>4. epollOpen' => epollOpen /\ epc' \notin {"shutdown", "join", "vanish", "delete", "done"}
      BY <3>1 DEF FateInv
    <3> QED BY <3>1, <3>2, <3>3, <3>4, EverybodyStays, FateStays
  <2> QED BY <2>1, <2>2, <2>3, FateOutside, FateListen DEF Next
<1>3. IInv /\ FateInv => NoClientLost
  <2> SUFFICES ASSUME IInv, FateInv, epollOpen, NEW c \in Conns, Accepted(c), Attendants(c) = {}
               PROVE  ~ Open(c) \/ GivenUp(c)
    BY DEF NoClientLost, GivenUp
  <2>1. ~ Attended(c)
    <3>1. Members(m_newClientList \o newClientList) = Members(m_newClientList) \union Members(newClientList)
      BY MembersOfBoth DEF IInv, TypeOK
    <3>2. ~ Listening(c) /\ ~ Listed(c)
      BY <3>1 DEF Attendants, Listening, Listed
    <3>3. ~ Armed(c) /\ ~ Reported(c)
      BY DEF Attendants, Armed, Reported
    <3>4. ~ Queued(c) /\ ~ Served(c)
      BY DEF Attendants, Queued, Served
    <3> QED BY <3>2, <3>3, <3>4 DEF Attended
  <2> QED BY <2>1 DEF FateInv
<1> QED BY PlaceInvariant, StopInvariant, <1>1, <1>2, <1>3, PTL DEF Spec
=============================================================================
