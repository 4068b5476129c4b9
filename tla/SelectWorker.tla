---------------------------- MODULE SelectWorker ----------------------------
(***************************************************************************)
(* class SelectWorker of 9/ioMultiplexingDemo: one thread that serves      *)
(* every client through select().  The worker keeps its clients in         *)
(* cinfoList and, beside it, two descriptor sets that it must keep in step *)
(* with that list by hand.                                                 *)
(*                                                                         *)
(* tv_sec of the timeout is read without having been written: each call of *)
(* select may be refused for it, wait 10 ms or wait without end.           *)
(***************************************************************************)
EXTENDS WorkerHost

CONSTANT Timeouts   \* what tv_sec may hold: "refused", "short", "endless"

VARIABLES
  wpc,                \* where the worker stands in run
  cinfoList,          \* its clients
  readfds, writefds,  \* the descriptors it listens on
  rfds, wfds,         \* the descriptors select found ready
  timeout,            \* the timeout of the next select
  todo,               \* the clients the loop has not looked at yet
  curr,               \* the client it is looking at
  clrfds,             \* the descriptors to be closed behind the loop
  freed               \* the clientInfo objects deleted

fdSets == <<readfds, writefds>>
results == <<rfds, wfds, timeout>>
listVars == <<cinfoList, freed>>
workerVars == <<wpc, listVars, fdSets, results, todo, curr, clrfds>>
vars == <<hostVars, workerVars>>

Init ==
  /\ HostInit
  /\ wpc = "test"
  /\ cinfoList = {} /\ freed = {}
  /\ readfds = {} /\ writefds = {}
  /\ rfds = {} /\ wfds = {} /\ timeout = "short"   \* set before each select
  /\ todo = {} /\ curr = NoConn /\ clrfds = {}

Alive == program # "gone"
Goto(label) == Alive /\ wpc' = label

(* The descriptor of the client in hand, and the socket behind it.          *)
FD == fd[curr]
Socket == table[FD]
Count(c) == answered' = [d \in Conns |-> IF d = c THEN answered[d] + 1 ELSE answered[d]]

-----------------------------------------------------------------------------
(* Faulty variants: definitions of the sections below with one programming  *)
(* error each.  Spec uses none of them; PROJECT.json pairs each one with    *)
(* the property that rejects it.                                            *)

(* The FD_CLR of writefds is missing. *)
SendWithoutClear ==
  /\ wpc = "send" /\ Goto("loop")
  /\ Count(Socket)
  /\ clrfds' = clrfds \union {FD}
  /\ curr' = NoConn
  /\ UNCHANGED <<clientVars, table, shut, mainVars, shareVars, exitVars, listVars, fdSets, results, todo>>

-----------------------------------------------------------------------------
(* SelectWorker::run.                                                       *)

TestExit ==
  /\ wpc = "test" /\ Goto(IF m_askForExit THEN "exited" ELSE "take")
  /\ UNCHANGED <<hostVars, listVars, fdSets, results, todo, curr, clrfds>>

(* Take the new clients under m_spin and listen for their input; with       *)
(* nobody in the list, sleep and start again.                               *)
TakeNewClients ==
  /\ wpc = "take"
  /\ TakeList
  /\ cinfoList' = cinfoList \union NewClients
  /\ readfds' = readfds \union {fd[c] : c \in NewClients}
  /\ timeout' \in Timeouts
  /\ Goto(IF cinfoList' = {} THEN "test" ELSE "select")
  /\ UNCHANGED <<freed, writefds, rfds, wfds, todo, curr, clrfds>>

(* select looks at the descriptors up to getMaxFD.  It fails on one that is *)
(* not open.                                                                *)
Watched(fds) == {f \in fds : \E c \in cinfoList : f <= fd[c]}
BadDescriptor == \E f \in Watched(readfds \union writefds) : table[f] = NoConn
ReadyToRead == {f \in Watched(readfds) : Readable(table[f])}
ReadyToWrite == Watched(writefds)

SelectFails ==
  /\ wpc = "select" /\ Goto("test")
  /\ timeout = "refused" \/ BadDescriptor
  /\ UNCHANGED <<hostVars, listVars, fdSets, results, todo, curr, clrfds>>

Select ==
  /\ wpc = "select" /\ Goto("loop")
  /\ timeout # "refused" /\ ~ BadDescriptor
  /\ timeout = "endless" => ReadyToRead \union ReadyToWrite # {}
  /\ rfds' = ReadyToRead
  /\ wfds' = ReadyToWrite
  /\ todo' = cinfoList
  /\ UNCHANGED <<hostVars, listVars, fdSets, timeout, curr, clrfds>>

(* One turn of the loop over cinfoList. *)
Examine ==
  /\ wpc = "loop"
  /\ \E c \in todo :
       /\ todo' = todo \ {c}
       /\ \/ fd[c] \in rfds /\ Goto("recvLength") /\ curr' = c
          \/ fd[c] \in wfds \ rfds /\ Goto("send") /\ curr' = c
          \/ fd[c] \notin rfds \union wfds /\ Goto("loop") /\ UNCHANGED curr
  /\ UNCHANGED <<hostVars, listVars, fdSets, results, clrfds>>

LoopDone ==
  /\ wpc = "loop" /\ todo = {} /\ Goto("clear")
  /\ UNCHANGED <<hostVars, listVars, fdSets, results, todo, curr, clrfds>>

(* From listening for input to listening for output.                        *)
ListenForOutput ==
  /\ readfds' = readfds \ {FD}
  /\ writefds' = writefds \union {FD}

(* recv of the length; without one the second recv asks for no bytes. *)
RecvLength ==
  /\ wpc = "recvLength"
  /\ Readable(Socket)
  /\ IF input[Socket] = "none"
       THEN Goto("loop") /\ ListenForOutput /\ curr' = NoConn
       ELSE Goto("recvMessage") /\ UNCHANGED <<fdSets, curr>>
  /\ UNCHANGED <<hostVars, listVars, results, todo, clrfds>>

(* recv of the message; -1 is an error before the first byte of it, after   *)
(* which the descriptor is closed but stays in readfds.                     *)
RecvMessage ==
  /\ wpc = "recvMessage" /\ Goto("loop")
  /\ input[Socket] = "full" \/ peer[Socket] # "open"
  /\ \/ ListenForOutput /\ UNCHANGED clrfds
     \/ /\ input[Socket] = "length" /\ Broken(Socket)
        /\ clrfds' = clrfds \union {FD} /\ UNCHANGED fdSets
  /\ curr' = NoConn
  /\ UNCHANGED <<hostVars, listVars, results, todo>>

Send ==
  /\ wpc = "send" /\ Goto("loop")
  /\ Count(Socket)
  /\ writefds' = writefds \ {FD}
  /\ clrfds' = clrfds \union {FD}
  /\ curr' = NoConn
  /\ UNCHANGED <<clientVars, table, shut, mainVars, shareVars, exitVars, listVars, readfds, results, todo>>

(* Behind the loop, for each descriptor of clrfds: shutdown and close ...   *)
Close ==
  /\ wpc = "clear" /\ Goto("forget")
  /\ \E c \in cinfoList :
       /\ fd[c] \in clrfds
       /\ curr' = c
       /\ shut' = shut \union {table[fd[c]]}
       /\ table' = [table EXCEPT ![fd[c]] = NoConn]
  /\ UNCHANGED <<clientVars, answered, mainVars, shareVars, exitVars, listVars, fdSets, results, todo, clrfds>>

(* ... then delete the clientInfo and take it out of cinfoList.             *)
Forget ==
  /\ wpc = "forget" /\ Goto("clear")
  /\ freed' = freed \union {curr}
  /\ cinfoList' = cinfoList \ {curr}
  /\ clrfds' = clrfds \ {FD}
  /\ curr' = NoConn
  /\ UNCHANGED <<hostVars, fdSets, results, todo>>

ClearDone ==
  /\ wpc = "clear" /\ clrfds = {} /\ Goto("test")
  /\ UNCHANGED <<hostVars, listVars, fdSets, results, todo, curr, clrfds>>

WorkerStep ==
  \/ TestExit \/ TakeNewClients \/ SelectFails \/ Select \/ Examine \/ LoopDone
  \/ RecvLength \/ RecvMessage \/ Send \/ Close \/ Forget \/ ClearDone

-----------------------------------------------------------------------------
Join == JoinWorker(wpc = "exited") /\ UNCHANGED workerVars

ClientStep(c) == (Connect(c) \/ Deliver(c) \/ Depart(c)) /\ UNCHANGED workerVars
Host == (MainStep \/ InterruptMain \/ InterruptWorker) /\ UNCHANGED workerVars

Next == (\E c \in Conns : ClientStep(c)) \/ Host \/ Join \/ WorkerStep

Spec == Init /\ [][Next]_vars

-----------------------------------------------------------------------------
(* The descriptor in a clientInfo of cinfoList means that client's socket   *)
(* until the worker itself closes it, although a stale bit, a number that   *)
(* accept hands out again and the list of new clients all name descriptors. *)
OwnDescriptor ==
  \A c \in cinfoList :
    /\ c \notin freed
    /\ ~ (wpc = "forget" /\ curr = c) => table[fd[c]] = c

(* The list and the sets agree: a client of cinfoList is listened to in     *)
(* exactly one set until it is to be closed, and a bit outlives its client  *)
(* only after an error of recv.                                             *)
SetsInStep ==
  /\ \A c \in cinfoList : fd[c] \in readfds \union writefds \union clrfds
  /\ readfds \intersect writefds = {}
  /\ \A f \in readfds \union writefds :
       \/ \E c \in cinfoList : fd[c] = f
       \/ f \in readfds /\ \E c \in freed : fd[c] = f /\ peer[c] = "reset"
=============================================================================
