----------------------------- MODULE PollWorker -----------------------------
(***************************************************************************)
(* class PollWorker of 9/ioMultiplexingDemo: one thread that serves every  *)
(* client through poll().  The loop after poll looks at every entry of the *)
(* list, the ones for which nothing was reported included.                 *)
(***************************************************************************)
EXTENDS WorkerHost

VARIABLES
  wpc,        \* where the worker stands in run
  cinfoMap,   \* the clientInfo of each descriptor of the list, or NoConn
  events,     \* what each entry of fdlst listens for; "none" when not listed
  revents,    \* what poll reported for it
  todo,       \* the entries the loop has not looked at yet
  curr,       \* the entry it is looking at, or NoConn
  clrfds,     \* the descriptors to be closed behind the loop
  freed       \* the clientInfo objects deleted

workerVars == <<wpc, cinfoMap, events, revents, todo, curr, clrfds, freed>>
vars == <<hostVars, workerVars>>

Init ==
  /\ HostInit
  /\ wpc = "test"
  /\ cinfoMap = [f \in FDs |-> NoConn]
  /\ events = [f \in FDs |-> "none"]
  /\ revents = [f \in FDs |-> "none"]
  /\ todo = {} /\ curr = NoConn /\ clrfds = {} /\ freed = {}

Listed == {f \in FDs : events[f] # "none"}
Socket == table[curr]
Alive == program # "gone"
Goto(label) == Alive /\ wpc' = label
HoldCurrent == UNCHANGED <<cinfoMap, revents, todo, freed>>

-----------------------------------------------------------------------------
(* Faulty variants: definitions of the sections below with one programming  *)
(* error each.  Spec uses none of them; PROJECT.json pairs each one with    *)
(* the property that rejects it.                                            *)

(* Taking the new clients assigns the list of clients instead of extending it. *)
TakeReplacing ==
  /\ wpc = "take"
  /\ TakeList
  /\ LET new == {fd[c] : c \in NewClients}
     IN  /\ cinfoMap' = [f \in FDs |-> IF f \in new THEN table[f] ELSE NoConn]
         /\ events' = [f \in FDs |-> IF f \in new THEN "in" ELSE "none"]
  /\ Goto(IF \A f \in FDs : cinfoMap'[f] = NoConn THEN "test" ELSE "poll")
  /\ UNCHANGED <<revents, todo, curr, clrfds, freed>>

-----------------------------------------------------------------------------
(* PollWorker::run.                                                         *)

TestExit ==
  /\ wpc = "test" /\ Goto(IF m_askForExit THEN "exited" ELSE "take")
  /\ UNCHANGED <<hostVars, cinfoMap, events, revents, todo, curr, clrfds, freed>>

(* Take the new clients under m_spin and list each one for input; with      *)
(* nobody in the list, sleep and start again.                               *)
TakeNewClients ==
  /\ wpc = "take"
  /\ TakeList
  /\ LET new == {fd[c] : c \in NewClients}
     IN  /\ cinfoMap' = [f \in FDs |-> IF f \in new THEN table[f] ELSE cinfoMap[f]]
         /\ events' = [f \in FDs |-> IF f \in new THEN "in" ELSE events[f]]
  /\ Goto(IF \A f \in FDs : cinfoMap'[f] = NoConn THEN "test" ELSE "poll")
  /\ UNCHANGED <<revents, todo, curr, clrfds, freed>>

(* poll returns with what is ready, or after 10 ms with nothing.  A broken  *)
(* connection is readable and writable.                                     *)
Reported(f) ==
  IF events[f] = "out" \/ (events[f] = "in" /\ Readable(table[f])) THEN events[f] ELSE "none"

Poll ==
  /\ wpc = "poll" /\ Goto("loop")
  /\ revents' = [f \in FDs |-> Reported(f)]
  /\ todo' = Listed
  /\ UNCHANGED <<hostVars, cinfoMap, events, curr, clrfds, freed>>

(* One turn of the loop over fdlst: POLLIN, POLLOUT, or anything else,      *)
(* which goes to the list of descriptors to be closed.                      *)
Examine ==
  /\ wpc = "loop"
  /\ \E f \in todo :
       /\ todo' = todo \ {f}
       /\ \/ revents[f] = "in" /\ Goto("recvLength") /\ curr' = f /\ UNCHANGED clrfds
          \/ revents[f] = "out" /\ Goto("send") /\ curr' = f /\ UNCHANGED clrfds
          \/ revents[f] = "none" /\ Goto("loop") /\ clrfds' = clrfds \union {f} /\ UNCHANGED curr
  /\ UNCHANGED <<hostVars, cinfoMap, events, revents, freed>>

LoopDone ==
  /\ wpc = "loop" /\ todo = {} /\ Goto("clear")
  /\ UNCHANGED <<hostVars, cinfoMap, events, revents, todo, curr, clrfds, freed>>

(* recv of the length; without one the second recv asks for no bytes. *)
RecvLength ==
  /\ wpc = "recvLength"
  /\ Readable(Socket)
  /\ IF input[Socket] = "none"
       THEN Goto("loop") /\ events' = [events EXCEPT ![curr] = "out"] /\ curr' = NoConn
       ELSE Goto("recvMessage") /\ UNCHANGED <<events, curr>>
  /\ UNCHANGED <<hostVars, clrfds>> /\ HoldCurrent

(* recv of the message; -1 is an error before the first byte of it. *)
RecvMessage ==
  /\ wpc = "recvMessage" /\ Goto("loop")
  /\ input[Socket] = "full" \/ peer[Socket] # "open"
  /\ \/ events' = [events EXCEPT ![curr] = "out"] /\ UNCHANGED clrfds
     \/ /\ input[Socket] = "length" /\ Broken(Socket)
        /\ clrfds' = clrfds \union {curr} /\ UNCHANGED events
  /\ curr' = NoConn
  /\ UNCHANGED hostVars /\ HoldCurrent

Send ==
  /\ wpc = "send" /\ Goto("loop")
  /\ answered' = [c \in Conns |-> IF c = Socket THEN answered[c] + 1 ELSE answered[c]]
  /\ clrfds' = clrfds \union {curr}
  /\ curr' = NoConn
  /\ UNCHANGED <<clientVars, table, shut, mainVars, shareVars, exitVars, events>> /\ HoldCurrent

(* Behind the loop, for each descriptor of clrfds: shutdown and close ...   *)
Close ==
  /\ wpc = "clear" /\ Goto("forget")
  /\ \E f \in clrfds :
       /\ curr' = f
       /\ shut' = shut \union ({table[f]} \ {NoConn})
       /\ table' = [table EXCEPT ![f] = NoConn]
  /\ UNCHANGED <<clientVars, answered, mainVars, shareVars, exitVars, events, clrfds>> /\ HoldCurrent

(* ... then delete the clientInfo and take the entry out of the list.       *)
Forget ==
  /\ wpc = "forget" /\ Goto("clear")
  /\ freed' = freed \union {cinfoMap[curr]}
  /\ cinfoMap' = [cinfoMap EXCEPT ![curr] = NoConn]
  /\ events' = [events EXCEPT ![curr] = "none"]
  /\ clrfds' = clrfds \ {curr}
  /\ curr' = NoConn
  /\ UNCHANGED <<hostVars, revents, todo>>

ClearDone ==
  /\ wpc = "clear" /\ clrfds = {} /\ Goto("test")
  /\ UNCHANGED <<hostVars, cinfoMap, events, revents, todo, curr, clrfds, freed>>

WorkerStep ==
  \/ TestExit \/ TakeNewClients \/ Poll \/ Examine \/ LoopDone \/ RecvLength \/ RecvMessage
  \/ Send \/ Close \/ Forget \/ ClearDone

-----------------------------------------------------------------------------
Join == JoinWorker(wpc = "exited") /\ UNCHANGED workerVars

ClientStep(c) == (Connect(c) \/ Deliver(c) \/ Depart(c)) /\ UNCHANGED workerVars
Host == (MainStep \/ InterruptMain \/ InterruptWorker) /\ UNCHANGED workerVars

Next == (\E c \in Conns : ClientStep(c)) \/ Host \/ Join \/ WorkerStep

Spec == Init /\ [][Next]_vars

-----------------------------------------------------------------------------
(* An entry of the list means the socket of its clientInfo until the worker *)
(* itself closes it, and the list and the map have the same descriptors.    *)
OwnDescriptor ==
  \A f \in FDs :
    /\ f \in Listed <=> cinfoMap[f] # NoConn
    /\ f \in Listed => cinfoMap[f] \notin freed
    /\ f \in Listed /\ ~ (wpc = "forget" /\ curr = f) => table[f] = cinfoMap[f]

(* "The socket has an error, the connection is closed, or poll was used     *)
(* illegally": what the worker closes without an answer has left.           *)
ClosedForReason ==
  \A f \in clrfds : table[f] # NoConn => answered[table[f]] > 0 \/ peer[table[f]] # "open"
=============================================================================
