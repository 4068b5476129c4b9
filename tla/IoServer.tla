------------------------------ MODULE IoServer ------------------------------
(***************************************************************************)
(* 9/ioMultiplexingDemo as a whole: main picks one of the three workers    *)
(* by its argument and hands every client to it.  WorkerHost, extended     *)
(* here, is main; the three workers are instances over the variables they  *)
(* have in common and their own tables.                                    *)
(*                                                                         *)
(* Whatever the worker, the program promises the same to its clients.      *)
(***************************************************************************)
EXTENDS WorkerHost

CONSTANTS
  MaxEvents,  \* WAIT_COUNT of EpollWorker
  NoJob,      \* EpollWorker handles no event
  Timeouts    \* what tv_sec of SelectWorker may hold

ASSUME MaxEventsAssumption == MaxEvents \in Nat \ {0}
ASSUME NoJobAssumption == NoJob \notin [conn : Conns, event : {"in", "out", "hup"}]
ASSUME TimeoutsAssumption == Timeouts \subseteq {"refused", "short", "endless"} /\ Timeouts # {}

VARIABLES
  ioMode,                                          \* argv[1]
  wpc, freed,                                      \* all workers
  arm, owner, edges, batch, job,                   \* EpollWorker
  todo, curr, clrfds,                              \* PollWorker and SelectWorker
  cinfoMap, events, revents,                       \* PollWorker
  cinfoList, readfds, writefds, rfds, wfds, timeout \* SelectWorker

runVars == <<wpc, freed>>
epollVars == <<arm, owner, edges, batch, job>>
loopVars == <<todo, curr, clrfds>>
pollVars == <<cinfoMap, events, revents>>
selectVars == <<cinfoList, readfds, writefds, rfds, wfds, timeout>>
workerVars == <<runVars, epollVars, loopVars, pollVars, selectVars>>
vars == <<ioMode, hostVars, workerVars>>

Ep == INSTANCE EpollWorker
Po == INSTANCE PollWorker
Se == INSTANCE SelectWorker

Init ==
  /\ ioMode \in {"select", "poll", "epoll"}
  /\ Ep!Init /\ Po!Init /\ Se!Init

(* A step of the program when it runs the worker of one mode; the tables of *)
(* the others do not exist.                                                 *)
InSelect(A) == ioMode = "select" /\ A /\ UNCHANGED <<ioMode, epollVars, pollVars>>
InPoll(A) == ioMode = "poll" /\ A /\ UNCHANGED <<ioMode, epollVars, selectVars>>
InEpoll(A) == ioMode = "epoll" /\ A /\ UNCHANGED <<ioMode, loopVars, pollVars, selectVars>>

ClientStep(c) ==
  InSelect(Se!ClientStep(c)) \/ InPoll(Po!ClientStep(c)) \/ InEpoll(Ep!ClientStep(c))

WorkerStep == InSelect(Se!WorkerStep) \/ InPoll(Po!WorkerStep) \/ InEpoll(Ep!WorkerStep)

Main == MainStep /\ UNCHANGED <<ioMode, workerVars>>
Interrupt == (InterruptMain \/ InterruptWorker) /\ UNCHANGED <<ioMode, workerVars>>
Join == JoinWorker(wpc = "exited") /\ UNCHANGED <<ioMode, workerVars>>

Next == (\E c \in Conns : ClientStep(c)) \/ Main \/ Interrupt \/ Join \/ WorkerStep

Spec == Init /\ [][Next]_vars

(* Both threads run when they can, and a message whose first bytes arrived  *)
(* arrives completely or the connection ends.  Nobody has to connect, send  *)
(* or press Ctrl-C.                                                         *)
FairSpec ==
  /\ Spec
  /\ WF_vars(Main)
  /\ WF_vars(Join)
  /\ WF_vars(WorkerStep)
  /\ \A c \in Conns : WF_vars(Progress(c) /\ ClientStep(c))

-----------------------------------------------------------------------------
(* A descriptor number in the tables of the worker, in an event it has not  *)
(* handled or in the handler that runs means the client it was put there    *)
(* for, although accept may hand the number out again the moment it is      *)
(* closed; and no clientInfo is used after its delete.                      *)
OwnDescriptor ==
  /\ ioMode = "select" => Se!OwnDescriptor
  /\ ioMode = "poll" => Po!OwnDescriptor
  /\ ioMode = "epoll" => Ep!OwnDescriptor

(* Every open connection that was accepted is in somebody's hands: main     *)
(* holds it, it is on the list of new clients, or the worker would notice   *)
(* what happens to it; and SelectWorker keeps its sets in step.             *)
NoClientForgotten ==
  /\ \A c \in Conns :
       Accepted(c) /\ Open(c) =>
         \/ c = info
         \/ c \in m_addClientList
         \/ c \in cinfoList
         \/ \E f \in FDs : cinfoMap[f] = c
         \/ \E f \in FDs : owner[f] = c
         \/ job # NoJob /\ job.conn = c /\ wpc = "close"
         \/ ioMode = "epoll" /\ wpc = "exited"
  /\ ioMode = "select" => Se!SetsInStep

(* The program keeps the promise of the service to every client, whatever   *)
(* worker it runs: one answer at most, not before the request is complete   *)
(* or the client left, and a close only after the answer or the departure.  *)
(* PollWorker is not patient with a client that has sent nothing yet.       *)
Service == INSTANCE ClientService WITH
  asked <- {c \in Conns : input[c] = "full"},
  left <- {c \in Conns : peer[c] \in {"fin", "reset"}},
  patient <- ioMode # "poll",
  stage <- [c \in Conns |->
              IF Closed(c) THEN "closed"
              ELSE IF answered[c] > 1 THEN "answered again"
              ELSE IF answered[c] = 1 THEN "answered"
              ELSE IF Accepted(c) THEN "accepted" ELSE "away"]

ImplementsService == Service!Spec

(* What stands between a client and SelectWorker: a descriptor that an      *)
(* error of recv left in readfds and that select now refuses, or a timeout  *)
(* other than the 10 ms that were meant.                                    *)
StaleBit ==
  \E f \in readfds : table[f] = NoConn /\ \E c \in freed : fd[c] = f /\ peer[c] = "reset"

(* A client that completed its request or went away is dealt with: its      *)
(* connection is closed and its clientInfo deleted, unless the program ends *)
(* or SelectWorker is stuck.  In EpollWorker the close depends on the       *)
(* EPOLLHUP that the worker's own shutdown causes; PollWorker lets go of    *)
(* every client.                                                            *)
FinishedIsClosed ==
  []<>(\A c \in Conns :
         Accepted(c) /\ (ioMode = "poll" \/ input[c] = "full" \/ peer[c] # "open") =>
           \/ c \in freed /\ Closed(c)
           \/ m_askForExit
           \/ ioMode = "select" /\ (StaleBit \/ timeout # "short"))

(* SIGINT ends the program, unless it found main inside addClient with      *)
(* m_spin held, or SelectWorker waits in a select without end.              *)
ExitUnlessLocked ==
  []<>(\/ program # "joining"
       \/ m_spin # "free"
       \/ ioMode = "select" /\ timeout # "short")
=============================================================================
