-------------------------------- MODULE Pipes --------------------------------
(***************************************************************************)
(* 4/pipeDemo: father and child exchange one message each over two pipes;  *)
(* and 4/namedPipeSvr, 4/namedPipeClient: one message through a FIFO that  *)
(* any number of readers and writers may open.                             *)
(*                                                                         *)
(* A read waits as long as somebody holds the other end for writing, so    *)
(* what counts is who still holds which end: both processes hold all four  *)
(* of them after fork.                                                     *)
(***************************************************************************)
EXTENDS Naturals, FiniteSets

CONSTANTS
  FifoServers,  \* the runs of namedPipeSvr
  FifoClients   \* the runs of namedPipeClient

ASSUME PipeAssumption ==
  /\ IsFiniteSet(FifoServers) /\ IsFiniteSet(FifoClients)
  /\ FifoServers \intersect FifoClients = {}

VARIABLES
  \* pipeDemo
  pipePc,              \* where father and child stand
  readers, writers,    \* who holds the ends of each pipe
  full,                \* a message is in the pipe
  \* the FIFO
  fifoPc,              \* where each process stands
  fifoData             \* messages in the FIFO

pipeVars == <<pipePc, readers, writers, full>>
fifoVars == <<fifoPc, fifoData>>

Family == {"father", "child"}
In(p) == IF p = "father" THEN "toFather" ELSE "toChild"
Out(p) == IF p = "father" THEN "toChild" ELSE "toFather"
PipeNames == {"toFather", "toChild"}
FifoProcs == FifoServers \union FifoClients

PipeInit ==
  /\ pipePc = [p \in Family |-> IF p = "father" THEN "fork" ELSE "none"]
  /\ readers = [n \in PipeNames |-> {"father"}]
  /\ writers = [n \in PipeNames |-> {"father"}]
  /\ full = [n \in PipeNames |-> FALSE]

FifoInit ==
  /\ fifoPc = [p \in FifoProcs |-> "off"]
  /\ fifoData = 0

PipeAt(p, label, next) ==
  pipePc[p] = label /\ pipePc' = [pipePc EXCEPT ![p] = next]
Without(ends, p) == [n \in PipeNames |-> ends[n] \ {p}]

-----------------------------------------------------------------------------
(* Faulty variants: definitions of the sections below with one programming  *)
(* error each.  PipeSpec uses none of them; PROJECT.json pairs each one     *)
(* with the property that rejects it.                                       *)

(* Each process keeps the writing end of the pipe it reads from. *)
CloseOneEnd(p) ==
  /\ PipeAt(p, "close", IF p = "child" THEN "write" ELSE "read")
  /\ readers' = [readers EXCEPT ![Out(p)] = @ \ {p}]
  /\ UNCHANGED <<writers, full>>

-----------------------------------------------------------------------------
(* pipeDemo. *)

PipeFork ==
  \/ /\ pipePc["father"] = "fork"
     /\ pipePc' = [p \in Family |-> "close"]
     /\ readers' = [n \in PipeNames |-> Family]
     /\ writers' = [n \in PipeNames |-> Family]
     /\ UNCHANGED full
  \/ PipeAt("father", "fork", "ended") /\ UNCHANGED <<readers, writers, full>>

CloseUnused(p) ==
  /\ PipeAt(p, "close", IF p = "child" THEN "write" ELSE "read")
  /\ readers' = [readers EXCEPT ![Out(p)] = @ \ {p}]
  /\ writers' = [writers EXCEPT ![In(p)] = @ \ {p}]
  /\ UNCHANGED full

(* Exit closes what is open. *)
PipeExit(p) ==
  /\ readers' = Without(readers, p)
  /\ writers' = Without(writers, p)

(* Writing to a pipe without readers is a SIGPIPE. *)
PipeWrite(p) ==
  \/ /\ readers[Out(p)] # {}
     /\ PipeAt(p, "write", IF p = "child" THEN "read" ELSE "exit")
     /\ full' = [full EXCEPT ![Out(p)] = TRUE]
     /\ UNCHANGED <<readers, writers>>
  \/ /\ readers[Out(p)] = {}
     /\ PipeAt(p, "write", "ended") /\ PipeExit(p)
     /\ UNCHANGED full

(* At the end of the data read returns 0, which is taken for a message.     *)
PipeRead(p) ==
  /\ full[In(p)] \/ writers[In(p)] = {}
  /\ PipeAt(p, "read", IF p = "child" THEN "exit" ELSE "write")
  /\ full' = [full EXCEPT ![In(p)] = FALSE]
  /\ UNCHANGED <<readers, writers>>

PipeEnd(p) ==
  /\ PipeAt(p, "exit", "ended") /\ PipeExit(p)
  /\ UNCHANGED full

PipeKill(p) ==
  /\ pipePc[p] \in {"close", "read", "write", "exit"}
  /\ PipeAt(p, pipePc[p], "ended") /\ PipeExit(p)
  /\ UNCHANGED full

PipeStep(p) == CloseUnused(p) \/ PipeWrite(p) \/ PipeRead(p) \/ PipeEnd(p)
PipeNext == PipeFork \/ \E p \in Family : PipeStep(p) \/ PipeKill(p)

-----------------------------------------------------------------------------
(* The FIFO.  open waits for the other side; who waits in it counts as a    *)
(* reader or writer, and is let through when the other side comes.          *)

Inside(side) == {p \in side : fifoPc[p] \notin {"off", "ended"}}
Through(side) == IF side = FifoServers THEN "read" ELSE "write"

FifoOpen(p, mine, theirs) ==
  /\ p \in mine /\ fifoPc[p] = "off"
  /\ fifoPc' = [q \in FifoProcs |->
       IF q = p THEN IF Inside(theirs) = {} THEN "open" ELSE Through(mine)
       ELSE IF q \in theirs /\ fifoPc[q] = "open" THEN Through(theirs)
       ELSE fifoPc[q]]
  /\ UNCHANGED fifoData

(* close, also by exit: what is in the FIFO goes with the last process.     *)
FifoLeave(p) ==
  /\ fifoPc' = [fifoPc EXCEPT ![p] = "ended"]
  /\ fifoData' = IF Inside(FifoProcs) = {p} THEN 0 ELSE fifoData

FifoWrite(p) ==
  /\ fifoPc[p] = "write"
  /\ IF Inside(FifoServers) = {}
       THEN FifoLeave(p)
       ELSE fifoPc' = [fifoPc EXCEPT ![p] = "exit"] /\ fifoData' = fifoData + 1

(* One read takes everything there is. *)
FifoRead(p) ==
  /\ fifoPc[p] = "read"
  /\ fifoData > 0 \/ Inside(FifoClients) = {}
  /\ fifoPc' = [fifoPc EXCEPT ![p] = "exit"]
  /\ fifoData' = 0

FifoEnd(p) == fifoPc[p] = "exit" /\ FifoLeave(p)
FifoKill(p) == p \in Inside(FifoProcs) /\ FifoLeave(p)

FifoStep(p) == FifoWrite(p) \/ FifoRead(p) \/ FifoEnd(p)
FifoStart(p) == FifoOpen(p, FifoServers, FifoClients) \/ FifoOpen(p, FifoClients, FifoServers)
FifoNext == \E p \in FifoProcs : FifoStart(p) \/ FifoStep(p) \/ FifoKill(p)

-----------------------------------------------------------------------------
(* The two programs do not meet. *)
PipeSpec ==
  /\ PipeInit /\ FifoInit
  /\ [][\/ PipeNext /\ UNCHANGED fifoVars
        \/ FifoNext /\ UNCHANGED pipeVars]_<<pipeVars, fifoVars>>

-----------------------------------------------------------------------------
(* Nobody waits for the dead: father and child end whenever either of them  *)
(* is killed, and so does every process that got through the open of the    *)
(* FIFO.                                                                    *)
NobodyWaitsForTheDead ==
  []<>(/\ \A p \in Family : pipePc[p] \in {"none", "fork", "ended"}
       /\ \A p \in FifoProcs : fifoPc[p] \in {"off", "open", "ended"})
=============================================================================
