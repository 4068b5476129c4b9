---------------------------- MODULE EpollWorker ----------------------------
(***************************************************************************)
(* class EpollWorker of 9/ioMultiplexingDemo: one thread that serves every *)
(* client through an edge-triggered epoll instance.  The handlers never    *)
(* close a connection themselves: they call shutdown() and leave the close *)
(* to the EPOLLHUP that follows.                                           *)
(*                                                                         *)
(* An edge-triggered entry is reported once for each change of its socket: *)
(* arrival of data, end of file, error, shutdown, and registration while   *)
(* something is there already.                                             *)
(***************************************************************************)
EXTENDS WorkerHost

CONSTANTS
  MaxEvents,    \* WAIT_COUNT
  NoJob         \* no event is being handled

VARIABLES
  wpc,        \* where the worker stands in run
  arm,        \* what each descriptor is registered for: "none", "in", "out"
  owner,      \* data.ptr of each registered descriptor
  edges,      \* the descriptors on the ready list of epoll
  batch,      \* events returned by epoll_wait and not yet handled
  job,        \* the event being handled
  freed       \* the clientInfo objects deleted

workerVars == <<wpc, arm, owner, edges, batch, job, freed>>
vars == <<hostVars, workerVars>>

Init ==
  /\ HostInit
  /\ wpc = "test"
  /\ arm = [f \in FDs |-> "none"]
  /\ owner = [f \in FDs |-> NoConn]
  /\ edges = {}
  /\ batch = {} /\ job = NoJob
  /\ freed = {}

Registered(f) == arm[f] # "none"
Alive == program # "gone"
Goto(label) == Alive /\ wpc' = label

(* The descriptor the handler works on, and the socket behind it now. *)
FD == fd[job.conn]
Socket == table[FD]

-----------------------------------------------------------------------------
(* Faulty variants: definitions of the sections below with one programming  *)
(* error each.  Spec uses none of them; PROJECT.json pairs each one with    *)
(* the property that rejects it.                                            *)

(* The clientInfo is deleted while the descriptor is still registered.      *)
DeregisterAndDelete ==
  /\ wpc = "del" /\ Goto("close")
  /\ freed' = freed \union {job.conn}
  /\ UNCHANGED <<hostVars, arm, owner, edges, batch, job>>

(* recv without MSG_WAITALL: the reply goes out before the request is in. *)
RecvMessageNoWait ==
  /\ wpc = "recvMessage" /\ Goto("rearm")
  /\ UNCHANGED <<hostVars, arm, owner, edges, batch, job, freed>>

(* A loop that does not look at the flag. *)
NeverExit ==
  /\ wpc = "test" /\ Goto("take")
  /\ UNCHANGED <<hostVars, arm, owner, edges, batch, job, freed>>

-----------------------------------------------------------------------------
(* The clients: what they do puts a registered descriptor on the ready list.*)

Notify(c) ==
  edges' = edges \union {f \in FDs : table[f] = c /\ Registered(f)}

ClientStep(c) ==
  \/ Connect(c) /\ UNCHANGED workerVars
  \/ (Deliver(c) \/ Depart(c)) /\ Notify(c)
     /\ UNCHANGED <<wpc, arm, owner, batch, job, freed>>

-----------------------------------------------------------------------------
(* EpollWorker::run.                                                        *)

TestExit ==
  /\ wpc = "test" /\ Goto(IF m_askForExit THEN "closeEp" ELSE "take")
  /\ UNCHANGED <<hostVars, arm, owner, edges, batch, job, freed>>

(* Take the new clients under m_spin and register each one for input. *)
TakeNewClients ==
  /\ wpc = "take" /\ Goto("wait")
  /\ TakeList
  /\ LET new == {fd[c] : c \in NewClients}
     IN  /\ arm' = [f \in FDs |-> IF f \in new THEN "in" ELSE arm[f]]
         /\ owner' = [f \in FDs |-> IF f \in new THEN table[f] ELSE owner[f]]
         /\ edges' = edges \union {f \in new : Readable(table[f])}
  /\ UNCHANGED <<batch, job, freed>>

(* EPOLLHUP (and EPOLLERR) come with whatever else there is to report; the  *)
(* code compares for equality, so they go to the last branch.               *)
EventOf(f) == IF table[f] \in shut \/ Broken(table[f]) THEN "hup" ELSE arm[f]

ReadyFDs == {f \in edges : EventOf(f) # "in" \/ Readable(table[f])}

(* epoll_wait; it returns nothing only when nothing is ready for 10 ms. *)
EpollWait ==
  /\ wpc = "wait"
  /\ \E some \in SUBSET ReadyFDs :
       /\ Cardinality(some) <= MaxEvents
       /\ some = {} => ReadyFDs = {}
       /\ batch' = {[conn |-> owner[f], event |-> EventOf(f)] : f \in some}
       /\ edges' = edges \ some
       /\ Goto(IF some = {} THEN "test" ELSE "dispatch")
  /\ UNCHANGED <<hostVars, arm, owner, job, freed>>

Handler(event) ==
  CASE event = "in" -> "recvLength" [] event = "out" -> "send" [] event = "hup" -> "del"

Dispatch ==
  /\ wpc = "dispatch"
  /\ \/ batch = {} /\ Goto("test") /\ UNCHANGED <<batch, job>>
     \/ \E e \in batch : job' = e /\ batch' = batch \ {e} /\ Goto(Handler(e.event))
  /\ UNCHANGED <<hostVars, arm, owner, edges, freed>>

(* recv of the length; without one the second recv asks for no bytes. *)
RecvLength ==
  /\ wpc = "recvLength"
  /\ Readable(Socket)
  /\ Goto(IF input[Socket] = "none" THEN "rearm" ELSE "recvMessage")
  /\ UNCHANGED <<hostVars, arm, owner, edges, batch, job, freed>>

(* recv of the message; -1 is an error before the first byte of it. *)
RecvMessage ==
  /\ wpc = "recvMessage"
  /\ input[Socket] = "full" \/ peer[Socket] # "open"
  /\ \/ Goto("rearm")
     \/ input[Socket] = "length" /\ Broken(Socket) /\ Goto("shutdown")
  /\ UNCHANGED <<hostVars, arm, owner, edges, batch, job, freed>>

(* EPOLL_CTL_MOD: the socket is writable, so it is ready again. *)
Rearm ==
  /\ wpc = "rearm" /\ Goto("dispatch")
  /\ arm' = [arm EXCEPT ![FD] = "out"]
  /\ edges' = edges \union {FD}
  /\ job' = NoJob
  /\ UNCHANGED <<hostVars, owner, batch, freed>>

Send ==
  /\ wpc = "send" /\ Goto("shutdown")
  /\ answered' = [c \in Conns |-> IF c = Socket THEN answered[c] + 1 ELSE answered[c]]
  /\ UNCHANGED <<clientVars, table, shut, mainVars, shareVars, exitVars, arm, owner, edges, batch, job, freed>>

(* shutdown(clientfd, SHUT_RDWR), after the reply or after an error. *)
Shutdown ==
  /\ wpc = "shutdown" /\ Goto("dispatch")
  /\ shut' = shut \union {Socket}
  /\ Notify(Socket)
  /\ job' = NoJob
  /\ UNCHANGED <<clientVars, table, answered, mainVars, shareVars, exitVars, arm, owner, batch, freed>>

(* The branch for EPOLLHUP: EPOLL_CTL_DEL, close, delete. *)
Deregister ==
  /\ wpc = "del" /\ Goto("close")
  /\ arm' = [arm EXCEPT ![FD] = "none"]
  /\ owner' = [owner EXCEPT ![FD] = NoConn]
  /\ edges' = edges \ {FD}
  /\ UNCHANGED <<hostVars, batch, job, freed>>

Close ==
  /\ wpc = "close" /\ Goto("delete")
  /\ table' = [table EXCEPT ![FD] = NoConn]
  /\ UNCHANGED <<clientVars, shut, answered, mainVars, shareVars, exitVars, arm, owner, edges, batch, job, freed>>

DeleteInfo ==
  /\ wpc = "delete" /\ Goto("dispatch")
  /\ freed' = freed \union {job.conn}
  /\ job' = NoJob
  /\ UNCHANGED <<hostVars, arm, owner, edges, batch>>

CloseEpoll ==
  /\ wpc = "closeEp" /\ Goto("exited")
  /\ arm' = [f \in FDs |-> "none"]
  /\ owner' = [f \in FDs |-> NoConn]
  /\ edges' = {}
  /\ UNCHANGED <<hostVars, batch, job, freed>>

WorkerStep ==
  \/ TestExit \/ TakeNewClients \/ EpollWait \/ Dispatch \/ RecvLength \/ RecvMessage
  \/ Rearm \/ Send \/ Shutdown \/ Deregister \/ Close \/ DeleteInfo \/ CloseEpoll

-----------------------------------------------------------------------------
Host == (MainStep \/ InterruptMain \/ InterruptWorker) /\ UNCHANGED workerVars
Join == JoinWorker(wpc = "exited") /\ UNCHANGED workerVars

Next == (\E c \in Conns : ClientStep(c)) \/ Host \/ Join \/ WorkerStep

Spec == Init /\ [][Next]_vars

-----------------------------------------------------------------------------
(* A registered descriptor, an undispatched event and the running handler   *)
(* all mean the client they were made for: the number is not reused before  *)
(* the clientInfo that carries it is finished with, and that clientInfo is  *)
(* not used after its delete.                                               *)
OwnDescriptor ==
  /\ \A f \in FDs :
       Registered(f) => owner[f] \notin freed \union {NoConn} /\ table[f] = owner[f]
  /\ \A e \in batch : e.conn \notin freed /\ table[fd[e.conn]] = e.conn
  /\ job # NoJob => job.conn \notin freed /\ (Socket = job.conn \/ wpc = "delete")
=============================================================================
