----------------------------- MODULE WorkerHost -----------------------------
(***************************************************************************)
(* 9/ioMultiplexingDemo without its worker: the clients, the kernel's      *)
(* sockets, the main thread that accepts connections and hands them to the *)
(* worker with addClient, and the SIGINT handler that ends the program.    *)
(* EpollWorker, PollWorker and SelectWorker extend this module with the    *)
(* worker thread; addClient and the start and end of the three classes are *)
(* the same text.                                                          *)
(*                                                                         *)
(* A connection stands for its clientInfo object too.                      *)
(***************************************************************************)
EXTENDS Naturals, Sequences, FiniteSets

CONSTANTS
  Conns,      \* the connections clients may open, numbered as they are opened
  FDs,        \* the descriptor numbers accept can return
  Departures, \* how clients may leave: "fin" (orderly close), "reset"
  NoConn      \* a free descriptor

ASSUME FDsAssumption == FDs \subseteq Nat \ {0} /\ IsFiniteSet(FDs)
ASSUME ConnsAssumption == Conns \subseteq Nat /\ IsFiniteSet(Conns) /\ NoConn \notin Conns
ASSUME DeparturesAssumption == Departures \subseteq {"fin", "reset"}

VARIABLES
  \* the clients and the kernel
  peer,             \* what the client did: "absent", "open", "fin" or "reset"
  input,            \* what arrived of it: "none", the "length" (and perhaps the
                    \* beginning of the message), or the "full" message
  backlog,          \* connections waiting to be accepted
  table,            \* the socket behind each descriptor number, or NoConn
  shut,             \* sockets the worker called shutdown() on
  answered,         \* how many replies were sent on each connection
  \* the main thread and what it shares with the worker
  mpc,              \* where main stands in its accept loop and in addClient
  info,             \* the clientInfo main holds
  fd,               \* clientInfo::fd of each connection, 0 before accept
  m_spin, m_addClientList, m_hasNewClient,
  m_askForExit,
  program           \* "running", "joining" (main is in exit()) or "gone"

socketVars == <<table, shut, answered>>
clientVars == <<peer, input>>
shareVars == <<m_spin, m_addClientList, m_hasNewClient>>
mainVars == <<mpc, info, fd, backlog>>
exitVars == <<m_askForExit, program>>
hostVars == <<clientVars, socketVars, mainVars, shareVars, exitVars>>

Open(c) == \E f \in FDs : table[f] = c
Accepted(c) == fd[c] # 0
Closed(c) == Accepted(c) /\ ~ Open(c)

FreeFDs == {f \in FDs : table[f] = NoConn}
LowestFree == CHOOSE f \in FreeFDs : \A g \in FreeFDs : f <= g

HostInit ==
  /\ peer = [c \in Conns |-> "absent"]
  /\ input = [c \in Conns |-> "none"]
  /\ backlog = <<>>
  /\ table = [f \in FDs |-> NoConn]
  /\ shut = {}
  /\ answered = [c \in Conns |-> 0]
  /\ mpc = "accept" /\ info = NoConn
  /\ fd = [c \in Conns |-> 0]
  /\ m_spin = "free" /\ m_addClientList = {} /\ m_hasNewClient = FALSE
  /\ m_askForExit = FALSE
  /\ program = "running"

-----------------------------------------------------------------------------
(* The clients.  What they do when the program is gone no longer matters.   *)

Connect(c) ==
  /\ peer[c] = "absent" /\ program # "gone"
  /\ \A d \in Conns : d < c => peer[d] # "absent"
  /\ peer' = [peer EXCEPT ![c] = "open"]
  /\ backlog' = Append(backlog, c)
  /\ UNCHANGED <<input, socketVars, mpc, info, fd, shareVars, exitVars>>

Deliver(c) ==
  /\ peer[c] = "open" /\ program # "gone"
  /\ \/ input[c] = "none" /\ input' = [input EXCEPT ![c] = "length"]
     \/ input[c] # "full" /\ input' = [input EXCEPT ![c] = "full"]
  /\ UNCHANGED <<peer, socketVars, mainVars, shareVars, exitVars>>

Depart(c) ==
  /\ peer[c] = "open" /\ program # "gone"
  /\ ~ Closed(c)
  /\ \E how \in Departures : peer' = [peer EXCEPT ![c] = how]
  /\ UNCHANGED <<input, socketVars, mainVars, shareVars, exitVars>>

(* What a connection armed for input waits for, and what recv waits for.    *)
Readable(c) == input[c] # "none" \/ peer[c] # "open" \/ c \in shut
Broken(c) == peer[c] = "reset"

-----------------------------------------------------------------------------
(* The accept loop of main.  When no descriptor is free accept fails and is *)
(* called again.                                                            *)

Accept ==
  /\ mpc = "accept" /\ program = "running"
  /\ backlog # <<>> /\ FreeFDs # {}
  /\ info' = Head(backlog)
  /\ backlog' = Tail(backlog)
  /\ table' = [table EXCEPT ![LowestFree] = Head(backlog)]
  /\ fd' = [fd EXCEPT ![Head(backlog)] = LowestFree]
  /\ mpc' = "lock"
  /\ UNCHANGED <<clientVars, shut, answered, shareVars, exitVars>>

(* worker->addClient(info): lock m_spin, push_back and raise m_hasNewClient, *)
(* unlock.                                                                  *)
LockList ==
  /\ mpc = "lock" /\ program = "running"
  /\ m_spin = "free"
  /\ m_spin' = "main"
  /\ mpc' = "push"
  /\ UNCHANGED <<clientVars, socketVars, info, fd, backlog, m_addClientList, m_hasNewClient, exitVars>>

AddClient ==
  /\ mpc = "push" /\ program = "running"
  /\ m_addClientList' = m_addClientList \union {info}
  /\ m_hasNewClient' = TRUE
  /\ m_spin' = "free"
  /\ info' = NoConn
  /\ mpc' = "accept"
  /\ UNCHANGED <<clientVars, socketVars, fd, backlog, exitVars>>

MainStep == Accept \/ LockList \/ AddClient

-----------------------------------------------------------------------------
(* SIGINT.  The handler calls exit(), which runs the destructor of the      *)
(* worker: destroy the spin lock (nothing happens to it), ask for exit,     *)
(* join.  The handler may run in main, wherever main stands, or in the      *)
(* worker thread, where the join returns EDEADLK at once.                   *)

InterruptMain ==
  /\ program = "running"
  /\ m_askForExit' = TRUE
  /\ program' = "joining"
  /\ UNCHANGED <<clientVars, socketVars, mainVars, shareVars>>

InterruptWorker ==
  /\ program = "running"
  /\ m_askForExit' = TRUE
  /\ program' = "gone"
  /\ UNCHANGED <<clientVars, socketVars, mainVars, shareVars>>

(* pthread_join in the destructor, and the end of the process. *)
JoinWorker(exited) ==
  /\ program = "joining"
  /\ exited
  /\ program' = "gone"
  /\ UNCHANGED <<clientVars, socketVars, mainVars, shareVars, m_askForExit>>

(* The worker's block under SpinLocker: take the new clients.               *)
TakeList ==
  /\ m_spin = "free"
  /\ m_addClientList' = IF m_hasNewClient THEN {} ELSE m_addClientList
  /\ m_hasNewClient' = FALSE
  /\ UNCHANGED <<m_spin, clientVars, socketVars, mainVars, exitVars>>

NewClients == IF m_hasNewClient THEN m_addClientList ELSE {}

(* Main goes on, and a message whose first bytes arrived arrives completely *)
(* or the connection ends.                                                  *)
Progress(c) == (Deliver(c) \/ Depart(c)) /\ input[c] = "length"
=============================================================================
