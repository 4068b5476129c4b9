------------------------------ MODULE EpollSvr ------------------------------
(***************************************************************************)
(* The server of 9/superSvr/epollSvr.{h,cpp}: class EpollSvr with its       *)
(* listening thread and its epoll thread, class ClientQuery with the two   *)
(* handlers the pool runs, and the thread that calls stop().  The pool is  *)
(* the abstract TaskExecutor, which ThreadPool implements.                 *)
(*                                                                         *)
(* The kernel's side is modelled as far as the server can see it: the      *)
(* descriptor table (a closed number is handed out again, lowest first),   *)
(* the interest list of the epoll instance and the state of the sockets.   *)
(* Every system call acts on the NUMBER it is given, whoever owns it now.  *)
(*                                                                         *)
(* socket, bind, listen, epoll_create and pthread_create are assumed to    *)
(* succeed.  A connection stands for its ClientQuery object too.           *)
(***************************************************************************)
EXTENDS Naturals, Sequences, FiniteSets

CONSTANTS
  Conns,      \* the connections clients may open
  FDs,        \* the descriptor numbers accept can return
  Workers,    \* the workers of the pool
  MaxEvents,  \* EPOLL_WAIT_MAX
  Departures, \* how clients may leave: "fin" (orderly close), "reset"
  NoConn,     \* a free descriptor, an unused interest entry
  NoTask      \* an idle worker

ASSUME FDsAssumption == FDs \subseteq Nat \ {0} /\ IsFiniteSet(FDs)
ASSUME ConnsAssumption == IsFiniteSet(Conns) /\ NoConn \notin Conns
ASSUME MaxEventsAssumption == MaxEvents \in Nat \ {0}
ASSUME DeparturesAssumption == Departures \subseteq {"fin", "reset"}

VARIABLES
  \* the clients and the kernel
  peer,             \* what the client did: "absent", "open", "fin" or "reset"
  input,            \* what arrived of it: "none", the "length" (and perhaps the
                    \* beginning of the message), or the "full" message
  backlog,          \* connections waiting to be accepted
  table,            \* the socket behind each descriptor number, or NoConn
  interest,         \* the interest entry of each descriptor number
  epollOpen,        \* epfd is open
  shut,             \* sockets the server called shutdown() on
  answered,         \* how many replies were sent on each connection
  \* the threads of EpollSvr
  m_askForExit, m_spin, m_newClientList, m_clientfd,
  lpc, newQuery,                   \* run_listen
  epc, newClientList, queryList,   \* run_epoll
  batch,                           \* events of waitEvents not yet dispatched
  freed,                           \* ClientQuery objects deleted so far
  mpc,                             \* the thread that calls stop()
  \* the pool
  pending, running, phase,
  wpc               \* where each worker stands in doQuery or doQueryResponse

clientVars == <<peer, input>>
kernelVars == <<table, interest, epollOpen, shut, answered>>
listVars == <<m_spin, m_newClientList>>
listenVars == <<lpc, newQuery, m_clientfd, backlog>>
epollVars == <<epc, newClientList, queryList, batch, freed>>
stopVars == <<m_askForExit, mpc>>
poolVars == <<pending, running, phase>>
vars == <<clientVars, kernelVars, listVars, listenVars, epollVars, stopVars, poolVars, wpc>>

Jobs == [fun : {"doQuery", "doQueryResponse"}, conn : Conns]
ASSUME NoTaskAssumption == NoTask \notin Jobs

Pool == INSTANCE TaskExecutor WITH Tasks <- Jobs

Members(s) == {s[i] : i \in 1 .. Len(s)}

(* An interest entry: the ClientQuery in data.ptr and what is armed.        *)
(* "off" is an entry that EPOLLONESHOT has disabled.                        *)
Unregistered == [conn |-> NoConn, arm |-> "none"]
Entries == [conn : Conns, arm : {"in", "out", "off"}] \union {Unregistered}

Accepted(c) == m_clientfd[c] # 0
Open(c) == \E f \in FDs : table[f] = c

FreeFDs == {f \in FDs : table[f] = NoConn}
LowestFree(f) == f \in FreeFDs /\ \A g \in FreeFDs : f <= g

Init ==
  /\ peer = [c \in Conns |-> "absent"]
  /\ input = [c \in Conns |-> "none"]
  /\ backlog = <<>>
  /\ table = [f \in FDs |-> NoConn]
  /\ interest = [f \in FDs |-> Unregistered]
  /\ epollOpen = TRUE
  /\ shut = {}
  /\ answered = [c \in Conns |-> 0]
  /\ m_askForExit = FALSE
  /\ m_spin = "free"
  /\ m_newClientList = <<>>
  /\ m_clientfd = [c \in Conns |-> 0]
  /\ lpc = "test" /\ newQuery = NoConn
  /\ epc = "test" /\ newClientList = <<>> /\ queryList = {} /\ batch = {} /\ freed = {}
  /\ mpc = "serving"
  /\ Pool!Init
  /\ wpc = [w \in Workers |-> "idle"]

(* The ClientQuery a worker runs on, and the descriptor number it kept.     *)
Conn(w) == running[w].conn
FD(w) == m_clientfd[Conn(w)]
Goto(w, label) == wpc' = [wpc EXCEPT ![w] = label]

-----------------------------------------------------------------------------
(* Faulty variants: definitions of the sections below with one programming  *)
(* error each.  Spec uses none of them; PROJECT.json pairs each one with    *)
(* the property that rejects it.                                            *)

(* A listener that does not look at the flag. *)
ListenForever ==
  /\ lpc = "test"
  /\ lpc' = "accept"
  /\ UNCHANGED <<clientVars, kernelVars, listVars, newQuery, m_clientfd, backlog, epollVars, stopVars, poolVars, wpc>>

(* addClientQuery without the spin lock. *)
AddClientQueryUnlocked ==
  /\ lpc = "push"
  /\ m_newClientList' = Append(m_newClientList, newQuery)
  /\ lpc' = "test"
  /\ newQuery' = NoConn
  /\ UNCHANGED <<clientVars, kernelVars, m_spin, m_clientfd, backlog, epollVars, stopVars, poolVars, wpc>>

(* Registration without EPOLLONESHOT: a reported entry stays armed. *)
StillArmed(f) == interest[f]

(* The queries are deleted before the pool has been joined. *)
CloseEpollAndDelete ==
  /\ epc = "close"
  /\ epollOpen' = FALSE
  /\ interest' = [f \in FDs |-> Unregistered]
  /\ freed' = queryList
  /\ epc' = "shutdown"
  /\ UNCHANGED <<clientVars, table, shut, answered, listVars, listenVars, newClientList, queryList, batch, stopVars, poolVars, wpc>>

(* recv of the message without MSG_WAITALL. *)
RecvMessageNoWait(w) ==
  /\ wpc[w] = "recvMessage"
  /\ Goto(w, "rearm")
  /\ UNCHANGED <<clientVars, kernelVars, listVars, listenVars, epollVars, stopVars, poolVars>>

(* doQueryResponse that closes the descriptor before it is done with it. *)
CloseTooEarly(w) ==
  /\ wpc[w] = "del"
  /\ table' = [table EXCEPT ![FD(w)] = NoConn]
  /\ interest' = [interest EXCEPT ![FD(w)] = Unregistered]
  /\ Goto(w, "shutdown")
  /\ UNCHANGED <<clientVars, epollOpen, shut, answered, listVars, listenVars, epollVars, stopVars, poolVars>>

(* doQueryResponse that shuts the socket down but does not close it. *)
CloseForgotten(w) ==
  /\ wpc[w] = "close"
  /\ Goto(w, "finish")
  /\ UNCHANGED <<clientVars, kernelVars, listVars, listenVars, epollVars, stopVars, poolVars>>

-----------------------------------------------------------------------------
(* The clients.  9/superClient writes length and message with one send; the *)
(* stream delivers them together or the length first.  A client may close   *)
(* or be killed at any time.                                                *)

Connect(c) ==
  /\ peer[c] = "absent"
  /\ lpc # "closed"
  /\ peer' = [peer EXCEPT ![c] = "open"]
  /\ backlog' = Append(backlog, c)
  /\ UNCHANGED <<input, kernelVars, listVars, lpc, newQuery, m_clientfd, epollVars, stopVars, poolVars, wpc>>

Deliver(c) ==
  /\ peer[c] = "open"
  /\ \/ input[c] = "none" /\ input' = [input EXCEPT ![c] = "length"]
     \/ input[c] # "full" /\ input' = [input EXCEPT ![c] = "full"]
  /\ UNCHANGED <<peer, kernelVars, listVars, listenVars, epollVars, stopVars, poolVars, wpc>>

(* The client closes its end in order or the connection breaks.             *)
(* What it does after the server closed its own end makes no difference.    *)
Depart(c) ==
  /\ peer[c] = "open"
  /\ Accepted(c) => Open(c)
  /\ \E how \in Departures : peer' = [peer EXCEPT ![c] = how]
  /\ UNCHANGED <<input, kernelVars, listVars, listenVars, epollVars, stopVars, poolVars, wpc>>

-----------------------------------------------------------------------------
(* run_listen.                                                              *)

(* The while condition; behind the loop the listening socket is closed.     *)
ListenTest ==
  /\ lpc = "test"
  /\ lpc' = IF m_askForExit THEN "closed" ELSE "accept"
  /\ backlog' = IF m_askForExit THEN <<>> ELSE backlog
  /\ UNCHANGED <<clientVars, kernelVars, listVars, newQuery, m_clientfd, epollVars, stopVars, poolVars, wpc>>

(* accept returns the lowest free descriptor number. *)
Accept ==
  /\ lpc = "accept"
  /\ backlog # <<>>
  /\ newQuery' = Head(backlog)
  /\ backlog' = Tail(backlog)
  /\ \E f \in FDs :
       /\ LowestFree(f)
       /\ table' = [table EXCEPT ![f] = Head(backlog)]
       /\ m_clientfd' = [m_clientfd EXCEPT ![Head(backlog)] = f]
  /\ lpc' = "push"
  /\ UNCHANGED <<clientVars, interest, epollOpen, shut, answered, listVars, epollVars, stopVars, poolVars, wpc>>

(* accept fails for want of a descriptor: report it and try again. *)
AcceptFails ==
  /\ lpc = "accept"
  /\ backlog # <<>> /\ FreeFDs = {}
  /\ lpc' = "test"
  /\ UNCHANGED <<clientVars, kernelVars, listVars, newQuery, m_clientfd, backlog, epollVars, stopVars, poolVars, wpc>>

(* addClientQuery: push_back under m_spin. *)
AddClientQuery ==
  /\ lpc = "push"
  /\ m_spin = "free"
  /\ m_newClientList' = Append(m_newClientList, newQuery)
  /\ lpc' = "test"
  /\ newQuery' = NoConn
  /\ UNCHANGED <<clientVars, kernelVars, m_spin, m_clientfd, backlog, epollVars, stopVars, poolVars, wpc>>

ListenStep == ListenTest \/ Accept \/ AcceptFails \/ AddClientQuery

-----------------------------------------------------------------------------
(* run_epoll.                                                               *)

EpollTest ==
  /\ epc = "test"
  /\ epc' = IF m_askForExit THEN "close" ELSE "copy"
  /\ UNCHANGED <<clientVars, kernelVars, listVars, listenVars, newClientList, queryList, batch, freed, stopVars, poolVars, wpc>>

(* The block under SpinLocker copies the list, then clears it. *)
CopyNewClients ==
  /\ epc = "copy"
  /\ m_spin = "free"
  /\ IF m_newClientList = <<>>
       THEN epc' = "init" /\ UNCHANGED <<m_spin, newClientList>>
       ELSE /\ m_spin' = "epoll"
            /\ newClientList' = m_newClientList
            /\ epc' = "clear"
  /\ UNCHANGED <<clientVars, kernelVars, m_newClientList, listenVars, queryList, batch, freed, stopVars, poolVars, wpc>>

ClearNewClients ==
  /\ epc = "clear"
  /\ m_newClientList' = <<>>
  /\ m_spin' = "free"
  /\ epc' = "init"
  /\ UNCHANGED <<clientVars, kernelVars, listenVars, newClientList, queryList, batch, freed, stopVars, poolVars, wpc>>

(* epoll_ctl EPOLL_CTL_ADD fails for a number that is registered already. *)
InitQuery ==
  /\ epc = "init"
  /\ newClientList # <<>>
  /\ LET c == Head(newClientList)
         f == m_clientfd[c]
     IN  /\ interest' = IF interest[f] = Unregistered
                          THEN [interest EXCEPT ![f] = [conn |-> c, arm |-> "in"]]
                          ELSE interest
         /\ queryList' = queryList \union {c}
  /\ newClientList' = Tail(newClientList)
  /\ UNCHANGED <<clientVars, table, epollOpen, shut, answered, listVars, listenVars, epc, batch, freed, stopVars, poolVars, wpc>>

InitDone ==
  /\ epc = "init"
  /\ newClientList = <<>>
  /\ epc' = "wait"
  /\ UNCHANGED <<clientVars, kernelVars, listVars, listenVars, newClientList, queryList, batch, freed, stopVars, poolVars, wpc>>

(* A small reply always fits the socket's buffer: a socket armed for output *)
(* is ready at once.  Input, end of file and errors make one armed for      *)
(* input ready.                                                             *)
Ready(f) ==
  \/ interest[f].arm = "out"
  \/ interest[f].arm = "in" /\ (input[table[f]] # "none" \/ peer[table[f]] # "open")

ReadyFDs == {f \in FDs : Ready(f)}

(* EPOLLONESHOT: an entry that is reported is disabled until the next MOD.  *)
AfterReport(f) == [interest[f] EXCEPT !.arm = "off"]

JobFor(f) ==
  [fun |-> IF interest[f].arm = "in" THEN "doQuery" ELSE "doQueryResponse",
   conn |-> interest[f].conn]

(* epoll_wait returns at most EPOLL_WAIT_MAX ready entries, in any order;   *)
(* it returns none only when the timeout passes with nothing ready.         *)
EpollWait ==
  /\ epc = "wait"
  /\ \E some \in SUBSET ReadyFDs :
       /\ Cardinality(some) <= MaxEvents
       /\ some = {} => ReadyFDs = {}
       /\ interest' = [f \in FDs |-> IF f \in some THEN AfterReport(f) ELSE interest[f]]
       /\ batch' = {JobFor(f) : f \in some}
       /\ epc' = IF some = {} THEN "test" ELSE "dispatch"
  /\ UNCHANGED <<clientVars, table, epollOpen, shut, answered, listVars, listenVars, newClientList, queryList, freed, stopVars, poolVars, wpc>>

(* pool.addTask for one event of the batch. *)
Dispatch ==
  /\ epc = "dispatch"
  /\ \E job \in batch :
       /\ Pool!Submit(job, FALSE)
       /\ batch' = batch \ {job}
       /\ epc' = IF batch = {job} THEN "test" ELSE "dispatch"
  /\ UNCHANGED <<clientVars, kernelVars, listVars, listenVars, newClientList, queryList, freed, stopVars, wpc>>

(* Behind the loop: close(epfd), which drops the whole interest list.       *)
CloseEpoll ==
  /\ epc = "close"
  /\ epollOpen' = FALSE
  /\ interest' = [f \in FDs |-> Unregistered]
  /\ epc' = "shutdown"
  /\ UNCHANGED <<clientVars, table, shut, answered, listVars, listenVars, newClientList, queryList, batch, freed, stopVars, poolVars, wpc>>

(* ~ThreadPool at the end of the block: shutdown, join, clearTask, destroy. *)
PoolIdle == \A w \in Workers : running[w] = NoTask

DestroyPool ==
  /\ \/ epc = "shutdown" /\ Pool!Close /\ epc' = "join"
     \/ epc = "join" /\ PoolIdle /\ Pool!Discard /\ epc' = "vanish"
     \/ epc = "vanish" /\ Pool!Vanish /\ epc' = "delete"
  /\ UNCHANGED <<clientVars, kernelVars, listVars, listenVars, newClientList, queryList, batch, freed, stopVars, wpc>>

(* Only then are the ClientQuery objects of queryList deleted. *)
DeleteQueries ==
  /\ epc = "delete"
  /\ freed' = freed \union queryList
  /\ queryList' = {}
  /\ epc' = "done"
  /\ UNCHANGED <<clientVars, kernelVars, listVars, listenVars, newClientList, batch, stopVars, poolVars, wpc>>

EpollStep ==
  \/ EpollTest \/ CopyNewClients \/ ClearNewClients \/ InitQuery \/ InitDone
  \/ EpollWait \/ Dispatch \/ CloseEpoll \/ DestroyPool \/ DeleteQueries

-----------------------------------------------------------------------------
(* The workers of the pool, running ClientQuery::doQuery (recvLength to     *)
(* abort) and doQueryResponse (send to close).                              *)

Begin(w) ==
  /\ Pool!Begin(w)
  /\ Goto(w, IF running'[w].fun = "doQuery" THEN "recvLength" ELSE "send")
  /\ UNCHANGED <<clientVars, kernelVars, listVars, listenVars, epollVars, stopVars>>

(* recv of the length waits for the length, end of file or an error.  Its   *)
(* result is not looked at: without a length the second recv asks for no    *)
(* bytes and returns 0 at once.                                             *)
RecvLength(w) ==
  /\ wpc[w] = "recvLength"
  /\ LET c == table[FD(w)]
     IN  /\ input[c] # "none" \/ peer[c] # "open"
         /\ Goto(w, IF input[c] = "none" THEN "rearm" ELSE "recvMessage")
  /\ UNCHANGED <<clientVars, kernelVars, listVars, listenVars, epollVars, stopVars, poolVars>>

(* recv of the message.  It returns -1 only for an error, not for end of    *)
(* file, and only when not one byte of the message arrived.                 *)
RecvMessage(w) ==
  /\ wpc[w] = "recvMessage"
  /\ LET c == table[FD(w)]
     IN  /\ input[c] = "full" \/ peer[c] # "open"
         /\ \/ Goto(w, "rearm")
            \/ input[c] = "length" /\ peer[c] = "reset" /\ Goto(w, "abort")
  /\ UNCHANGED <<clientVars, kernelVars, listVars, listenVars, epollVars, stopVars, poolVars>>

(* EPOLL_CTL_MOD to EPOLLOUT; it fails for an unregistered number. *)
Rearm(w) ==
  /\ wpc[w] = "rearm"
  /\ interest' = IF interest[FD(w)] = Unregistered
                   THEN interest
                   ELSE [interest EXCEPT ![FD(w)] = [conn |-> Conn(w), arm |-> "out"]]
  /\ Goto(w, "finish")
  /\ UNCHANGED <<clientVars, table, epollOpen, shut, answered, listVars, listenVars, epollVars, stopVars, poolVars>>

(* The error path of doQuery shuts the socket down and does nothing else.   *)
Abort(w) ==
  /\ wpc[w] = "abort"
  /\ shut' = shut \union ({table[FD(w)]} \ {NoConn})
  /\ Goto(w, "finish")
  /\ UNCHANGED <<clientVars, table, interest, epollOpen, answered, listVars, listenVars, epollVars, stopVars, poolVars>>

Send(w) ==
  /\ wpc[w] = "send"
  /\ answered' = [c \in Conns |-> IF c = table[FD(w)] THEN answered[c] + 1 ELSE answered[c]]
  /\ Goto(w, "del")
  /\ UNCHANGED <<clientVars, table, interest, epollOpen, shut, listVars, listenVars, epollVars, stopVars, poolVars>>

(* EPOLL_CTL_DEL, then shutdown, then close. *)
Deregister(w) ==
  /\ wpc[w] = "del"
  /\ interest' = [interest EXCEPT ![FD(w)] = Unregistered]
  /\ Goto(w, "shutdown")
  /\ UNCHANGED <<clientVars, table, epollOpen, shut, answered, listVars, listenVars, epollVars, stopVars, poolVars>>

Shutdown(w) ==
  /\ wpc[w] = "shutdown"
  /\ shut' = shut \union ({table[FD(w)]} \ {NoConn})
  /\ Goto(w, "close")
  /\ UNCHANGED <<clientVars, table, interest, epollOpen, answered, listVars, listenVars, epollVars, stopVars, poolVars>>

(* Closing a descriptor also removes it from the interest list. *)
Close(w) ==
  /\ wpc[w] = "close"
  /\ table' = [table EXCEPT ![FD(w)] = NoConn]
  /\ interest' = [interest EXCEPT ![FD(w)] = Unregistered]
  /\ Goto(w, "finish")
  /\ UNCHANGED <<clientVars, epollOpen, shut, answered, listVars, listenVars, epollVars, stopVars, poolVars>>

Finish(w) ==
  /\ wpc[w] = "finish"
  /\ Pool!Finish(w)
  /\ Goto(w, "idle")
  /\ UNCHANGED <<clientVars, kernelVars, listVars, listenVars, epollVars, stopVars>>

WorkerStep(w) ==
  \/ Begin(w) \/ RecvLength(w) \/ RecvMessage(w) \/ Rearm(w) \/ Abort(w)
  \/ Send(w) \/ Deregister(w) \/ Shutdown(w) \/ Close(w) \/ Finish(w)

-----------------------------------------------------------------------------
(* stop(): raise the flag, join the listening thread, join the epoll thread.*)
AskForExit ==
  /\ mpc = "serving"
  /\ m_askForExit' = TRUE
  /\ mpc' = "joinListen"
  /\ UNCHANGED <<clientVars, kernelVars, listVars, listenVars, epollVars, poolVars, wpc>>

JoinThreads ==
  /\ \/ mpc = "joinListen" /\ lpc = "closed" /\ mpc' = "joinEpoll"
     \/ mpc = "joinEpoll" /\ epc = "done" /\ mpc' = "stopped"
  /\ UNCHANGED <<clientVars, kernelVars, listVars, listenVars, epollVars, m_askForExit, poolVars, wpc>>

Next ==
  \/ \E c \in Conns : Connect(c) \/ Deliver(c) \/ Depart(c)
  \/ ListenStep
  \/ EpollStep
  \/ \E w \in Workers : WorkerStep(w)
  \/ AskForExit
  \/ JoinThreads

Spec == Init /\ [][Next]_vars

(* Every thread that can run does, and a message whose first bytes arrived  *)
(* arrives completely or the connection ends.  Clients need not connect or  *)
(* send, and nobody has to call stop().                                     *)
FairSpec ==
  /\ Spec
  /\ WF_vars(ListenStep)
  /\ WF_vars(EpollStep)
  /\ WF_vars(JoinThreads)
  /\ \A w \in Workers : WF_vars(WorkerStep(w))
  /\ \A c \in Conns : WF_vars((Deliver(c) \/ Depart(c)) /\ input[c] = "length")

-----------------------------------------------------------------------------
ListenLabels == {"test", "accept", "push", "closed"}
EpollLabels == {"test", "copy", "clear", "init", "wait", "dispatch", "close",
                "shutdown", "join", "vanish", "delete", "done"}
WorkerLabels == {"idle", "recvLength", "recvMessage", "rearm", "abort",
                 "send", "del", "shutdown", "close", "finish"}

TypeOK ==
  /\ peer \in [Conns -> {"absent", "open", "fin", "reset"}]
  /\ input \in [Conns -> {"none", "length", "full"}]
  /\ backlog \in Seq(Conns)
  /\ table \in [FDs -> Conns \union {NoConn}]
  /\ interest \in [FDs -> Entries]
  /\ epollOpen \in BOOLEAN
  /\ shut \subseteq Conns
  /\ answered \in [Conns -> Nat]
  /\ m_askForExit \in BOOLEAN
  /\ m_spin \in {"free", "epoll"}
  /\ m_newClientList \in Seq(Conns)
  /\ m_clientfd \in [Conns -> FDs \union {0}]
  /\ lpc \in ListenLabels
  /\ newQuery \in Conns \union {NoConn}
  /\ epc \in EpollLabels
  /\ newClientList \in Seq(Conns)
  /\ queryList \subseteq Conns
  /\ batch \subseteq Jobs
  /\ freed \subseteq Conns
  /\ mpc \in {"serving", "joinListen", "joinEpoll", "stopped"}
  /\ pending \in Seq(Jobs)
  /\ running \in [Workers -> Jobs \union {NoTask}]
  /\ phase \in {"open", "closed", "gone"}
  /\ wpc \in [Workers -> WorkerLabels]

Busy(w) == wpc[w] \notin {"idle", "finish"}

(* Who looks after connection c: the thread that holds it, the list it is   *)
(* on, the armed interest entry, the event or job it travels in.            *)
Attendants(c) ==
  {<<"listener", d>> : d \in {newQuery} \intersect {c}}
    \union {<<"list", d>> : d \in Members(m_newClientList \o newClientList) \intersect {c}}
    \union {<<"armed", f>> : f \in {g \in FDs : interest[g].conn = c /\ interest[g].arm # "off"}}
    \union {<<"event", job>> : job \in {j \in batch : j.conn = c}}
    \union {<<"queued", i>> : i \in {j \in 1 .. Len(pending) : pending[j].conn = c}}
    \union {<<"worker", w>> : w \in {v \in Workers : Busy(v) /\ Conn(v) = c}}

(* EPOLLONESHOT and the hand-over from list to interest list to pool keep   *)
(* a connection in one place: two workers never handle the same connection. *)
OneAttendant == \A c \in Conns : Cardinality(Attendants(c)) <= 1

(* While the server runs, every connection it accepted is looked after,     *)
(* closed, or given up by doQuery because the client reset it mid-message.  *)
(* The last kind keeps its descriptor for ever.                             *)
NoClientLost ==
  epollOpen =>
    \A c \in Conns :
      Accepted(c) /\ Attendants(c) = {} =>
        ~Open(c) \/ (c \in shut /\ peer[c] = "reset" /\ input[c] = "length")

(* A handler's descriptor number denotes its own client's socket for as     *)
(* long as the handler uses it, and so does every interest entry: a number  *)
(* that was closed and reused is never touched by the old handler.          *)
OwnDescriptor ==
  /\ \A w \in Workers : Busy(w) => table[FD(w)] = Conn(w)
  /\ \A f \in FDs : interest[f] # Unregistered => table[f] = interest[f].conn

(* No ClientQuery is deleted while a worker, a queued job or an event still *)
(* points to it.                                                            *)
NoUseAfterDelete ==
  /\ \A w \in Workers : running[w] # NoTask => Conn(w) \notin freed
  /\ \A job \in Members(pending) \union batch : job.conn \notin freed

(* A client is answered at most once, and only after its whole message was  *)
(* read or it stopped sending.                                              *)
ReplyFollowsRequest ==
  \A c \in Conns :
    /\ answered[c] <= 1
    /\ answered[c] = 1 => input[c] = "full" \/ peer[c] # "open"

(* A client that stays gets its answer while the server runs, unless every  *)
(* descriptor is held by a client that never completed its message.         *)
RequestAnswered ==
  \A c \in Conns :
    input[c] = "full" ~>
      \/ answered[c] = 1 \/ peer[c] # "open" \/ m_askForExit
      \/ \A f \in FDs : table[f] # NoConn /\ input[table[f]] # "full"

(* stop() returns once the listening thread is not blocked in accept.       *)
StopReturns == (m_askForExit /\ lpc # "accept") ~> mpc = "stopped"
=============================================================================
