------------------------------ MODULE IpcDemos ------------------------------
(***************************************************************************)
(* The small programs about communication between processes: the message   *)
(* queue, the shared memory, the semaphore, the pipes and the record file. *)
(* They have nothing in common but the scheduler and their size, and are   *)
(* checked in one run: a behaviour is one of the demos.                    *)
(***************************************************************************)
EXTENDS MessageQueue, SharedMemory, SemaphoreDemo, Pipes, InfoSheet

VARIABLE demo   \* the program that runs

vars == <<demo, msgVars, shmVars, semVars, pipeVars, fifoVars, sheetVars>>

Init ==
  /\ demo \in {"messages", "memory", "semaphore", "pipes", "fifo", "infosheet"}
  /\ MsgInit /\ ShmInit /\ SemInit /\ PipeInit /\ FifoInit /\ SheetInit

(* A step of one demo. *)
InMessages(A) ==
  demo = "messages" /\ A
    /\ UNCHANGED <<demo, shmVars, semVars, pipeVars, fifoVars, sheetVars>>
InMemory(A) ==
  demo = "memory" /\ A
    /\ UNCHANGED <<demo, msgVars, semVars, pipeVars, fifoVars, sheetVars>>
InSemaphore(A) ==
  demo = "semaphore" /\ A
    /\ UNCHANGED <<demo, msgVars, shmVars, pipeVars, fifoVars, sheetVars>>
InPipes(A) ==
  demo = "pipes" /\ A
    /\ UNCHANGED <<demo, msgVars, shmVars, semVars, fifoVars, sheetVars>>
InFifo(A) ==
  demo = "fifo" /\ A
    /\ UNCHANGED <<demo, msgVars, shmVars, semVars, pipeVars, sheetVars>>
InSheet(A) ==
  demo = "infosheet" /\ A
    /\ UNCHANGED <<demo, msgVars, shmVars, semVars, pipeVars, fifoVars>>

Next ==
  \/ InMessages(MsgNext) \/ InMemory(ShmNext) \/ InSemaphore(SemNext)
  \/ InPipes(PipeNext) \/ InFifo(FifoNext) \/ InSheet(SheetNext)

Spec == Init /\ [][Next]_vars

(* Every process runs when it can, and a timed wait times out.  Nobody has  *)
(* to start a program or to kill one.                                       *)
FairSpec ==
  /\ Spec
  /\ \A r \in Runs : WF_vars(InMessages(SenderStep(r)))
  /\ \A s \in Slots : WF_vars(InMessages(Post(s)))
  /\ WF_vars(InMessages(Receive))
  /\ \A r \in SemRuns : WF_vars(InSemaphore(ParentOf(r))) /\ WF_vars(InSemaphore(ChildOf(r)))
  /\ \A p \in Family : WF_vars(InPipes(PipeStep(p)))
  /\ \A p \in FifoProcs : WF_vars(InFifo(FifoStep(p)))
=============================================================================
