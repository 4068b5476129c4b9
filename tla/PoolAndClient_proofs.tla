------------------------ MODULE PoolAndClient_proofs ------------------------
(***************************************************************************)
(* Proofs about the two parts of 9/super* that stand alone.                *)
(*                                                                         *)
(* ThreadPool, for every finite set of workers and of task objects.  IInv  *)
(* is the inductive invariant: its parts say which thread is where and     *)
(* what it therefore knows about the shared state.                         *)
(*                                                                         *)
(* SuperClient, for any number of connections and any EPOLL_WAIT_SIZE: a   *)
(* connection sends one request.  ClientInv is the inductive invariant.    *)
(***************************************************************************)
EXTENDS ThreadPool, SuperClient, DataLemmas

-----------------------------------------------------------------------------
(* The thread pool.                                                         *)

(* A worker is inside pickTask's critical section iff it holds m_mutex. *)
MutexInv == \A w \in Workers : pc[w] \in {"test", "wait", "pop"} <=> m_mutex = w

(* Only a worker inside pthread_cond_wait is on the condition variable. *)
CondInv == \A w \in m_cond : pc[w] = "asleep"

(* What a worker learned from the while condition still holds while it      *)
(* keeps the mutex.                                                         *)
WaitInv == \A w \in Workers : pc[w] = "wait" => MustWait

(* A worker holds a task from pop_front to delete. *)
TaskInv == \A w \in Workers : task[w] # NoTask <=> pc[w] \in {"run", "delete"}

(* The owning thread's position and the state of the pool. *)
OwnerInv ==
  /\ owner = "request" => ~m_shutdown
  /\ owner \in {"join", "clear", "destroy", "gone"} => m_shutdown
  /\ owner \in {"clear", "destroy", "gone"} => destructing
  /\ owner = "idle" => ~destructing
  /\ m_shutdown /\ owner # "join" => \A w \in Workers : pc[w] = "exited"
  /\ owner \in {"destroy", "gone"} => m_queue = <<>>

Holders(t) == {w \in Workers : task[w] = t}

(* The life of one task object: unknown, queued, held, freed. *)
Fate(t) ==
  /\ t \notin added =>
       executed[t] = 0 /\ deleted[t] = 0 /\ t \notin Elements(m_queue) /\ Holders(t) = {}
  /\ t \in Elements(m_queue) =>
       executed[t] = 0 /\ deleted[t] = 0 /\ Holders(t) = {}
  /\ \A w \in Holders(t) :
       /\ deleted[t] = 0
       /\ executed[t] = IF pc[w] = "run" THEN 0 ELSE 1
       /\ Holders(t) = {w}
  /\ t \in added /\ t \notin Elements(m_queue) /\ Holders(t) = {} =>
       deleted[t] = 1 /\ executed[t] <= 1

FateInv == Distinct(m_queue) /\ \A t \in Tasks : Fate(t)

ControlInv ==
  /\ TypeOK
  /\ MutexInv
  /\ CondInv
  /\ WaitInv
  /\ TaskInv
  /\ OwnerInv
  /\ NoSleepAfterShutdown

IInv == ControlInv /\ FateInv /\ WorkConserving

-----------------------------------------------------------------------------
(* A pool fresh from its constructor satisfies the control invariant. *)
LEMMA ControlInit == Init => ControlInv
<1> SUFFICES ASSUME Init PROVE ControlInv
  OBVIOUS
<1> USE WorkersAssumption, TasksAssumption DEF Init
<1>1. TypeOK
  BY EmptySeq DEF TypeOK, WorkerLabels, OwnerLabels
<1>2. MutexInv /\ CondInv /\ WaitInv /\ TaskInv /\ OwnerInv /\ NoSleepAfterShutdown
  BY DEF MutexInv, CondInv, WaitInv, TaskInv, OwnerInv, NoSleepAfterShutdown
<1> QED BY <1>1, <1>2 DEF ControlInv

(* The queue stays a sequence of tasks and the counters stay naturals. *)
LEMMA TypeStep == ControlInv /\ [Next]_vars => TypeOK'
<1> SUFFICES ASSUME ControlInv, [Next]_vars PROVE TypeOK'
  OBVIOUS
<1> USE WorkersAssumption, TasksAssumption
    DEF TypeOK, WorkerLabels, OwnerLabels, Goto, threadVars, queueVars, ownerVars, history
<1>0. TypeOK /\ MutexInv /\ TaskInv
  BY DEF ControlInv
<1>1. ASSUME NEW w \in Workers, LockQueue(w) PROVE TypeOK'
  BY <1>0, <1>1 DEF LockQueue
<1>2. ASSUME NEW w \in Workers, TestQueue(w) PROVE TypeOK'
  BY <1>0, <1>2 DEF TestQueue
<1>3. ASSUME NEW w \in Workers, WaitForTask(w) PROVE TypeOK'
  BY <1>0, <1>3 DEF WaitForTask
<1>4. ASSUME NEW w \in Workers, WakeSpuriously(w) PROVE TypeOK'
  BY <1>0, <1>4 DEF WakeSpuriously
<1>5. ASSUME NEW w \in Workers, Relock(w) PROVE TypeOK'
  BY <1>0, <1>5 DEF Relock
<1>6. ASSUME NEW w \in Workers, PopTask(w) PROVE TypeOK'
  <2>1. /\ Head(m_queue) \in Tasks
        /\ Tail(m_queue) \in Seq(Tasks)
        /\ Len(Tail(m_queue)) \in Nat
    BY <1>0, <1>6, HeadTailProperties, LenProperties DEF PopTask
  <2> QED BY <1>0, <1>6, <2>1 DEF PopTask
<1>7. ASSUME NEW w \in Workers, LeaveLoop(w) PROVE TypeOK'
  <2>1. Len(m_queue) \in Nat
    BY <1>0, LenProperties
  <2> QED BY <1>0, <1>7, <2>1 DEF LeaveLoop
<1>8. ASSUME NEW w \in Workers, RunTask(w) PROVE TypeOK'
  <2>1. task[w] \in Tasks
    BY <1>0, <1>8 DEF RunTask, TaskInv
  <2>2. executed' \in [Tasks -> Nat]
    BY <1>0, <1>8, <2>1 DEF RunTask
  <2>3. pc' \in [Workers -> WorkerLabels]
    BY <1>0, <1>8 DEF RunTask
  <2> QED BY <1>0, <1>8, <2>2, <2>3 DEF RunTask
<1>9. ASSUME NEW w \in Workers, DeleteTask(w) PROVE TypeOK'
  <2>1. task[w] \in Tasks
    BY <1>0, <1>9 DEF DeleteTask, TaskInv
  <2>2. deleted' \in [Tasks -> Nat]
    BY <1>0, <1>9, <2>1 DEF DeleteTask
  <2>3. pc' \in [Workers -> WorkerLabels] /\ task' \in [Workers -> Tasks \union {NoTask}]
    BY <1>0, <1>9 DEF DeleteTask
  <2> QED BY <1>0, <1>9, <2>2, <2>3 DEF DeleteTask
<1>10. ASSUME NEW t \in Tasks, NEW priority \in BOOLEAN, AddTask(t, priority) PROVE TypeOK'
  <2>1. m_queue' = Pushed(m_queue, t, priority)
    BY <1>10 DEF AddTask, Pushed
  <2>2. m_queue' \in Seq(Tasks) /\ Len(m_queue') \in Nat
    BY <1>0, <2>1, PushedProperties, LenProperties
  <2>3. m_cond' \in SUBSET Workers
    BY <1>0, <1>10 DEF AddTask, Signal
  <2> QED BY <1>0, <1>10, <2>2, <2>3 DEF AddTask
<1>11. ASSUME EmptyQueue PROVE m_queue' \in Seq(Tasks) /\ m_taskCount' \in Nat
                               /\ deleted' \in [Tasks -> Nat]
  BY <1>0, <1>11 DEF EmptyQueue
<1>12. CASE ClearTask
  BY <1>0, <1>11, <1>12 DEF ClearTask, EmptyQueue
<1>13. CASE CallShutdown
  BY <1>0, <1>13 DEF CallShutdown
<1>14. CASE CallDestructor
  BY <1>0, <1>14 DEF CallDestructor
<1>15. CASE RequestShutdown
  BY <1>0, <1>15 DEF RequestShutdown, Broadcast
<1>16. CASE JoinWorkers
  BY <1>0, <1>16 DEF JoinWorkers
<1>17. CASE ClearInDestructor
  BY <1>0, <1>11, <1>17 DEF ClearInDestructor, EmptyQueue
<1>18. CASE DestroyPool
  BY <1>0, <1>18 DEF DestroyPool
<1>19. CASE UNCHANGED vars
  BY <1>0, <1>19 DEF vars
<1> HIDE DEF TypeOK
<1> QED
  BY <1>1, <1>2, <1>3, <1>4, <1>5, <1>6, <1>7, <1>8, <1>9, <1>10, <1>12, <1>13,
     <1>14, <1>15, <1>16, <1>17, <1>18, <1>19 DEF Next, WorkerStep, OwnerStep, Gone

(* The parts of ControlInv about positions, one action at a time.  Only the *)
(* steps that use more than the moved worker's own label are split further. *)
LEMMA ControlStep == ControlInv /\ [Next]_vars => ControlInv'
<1> SUFFICES ASSUME ControlInv, [Next]_vars PROVE ControlInv'
  OBVIOUS
<1> DEFINE Rest == MutexInv /\ CondInv /\ WaitInv /\ TaskInv /\ OwnerInv /\ NoSleepAfterShutdown
<1> USE WorkersAssumption, TasksAssumption
    DEF MutexInv, CondInv, WaitInv, TaskInv, OwnerInv, NoSleepAfterShutdown,
        Goto, Free, MustWait, threadVars, queueVars, ownerVars, history
<1>0. TypeOK /\ TypeOK'
  BY TypeStep DEF ControlInv
<1>a. Rest
  BY DEF ControlInv
<1>b. /\ m_mutex \in Workers \union {NoThread} /\ m_cond \subseteq Workers
      /\ pc \in [Workers -> WorkerLabels] /\ task \in [Workers -> Tasks \union {NoTask}]
      /\ m_shutdown \in BOOLEAN /\ destructing \in BOOLEAN
  BY <1>0 DEF TypeOK
<1>1. ASSUME NEW w \in Workers, LockQueue(w) PROVE Rest'
  BY <1>a, <1>b, <1>1 DEF LockQueue
<1>2. ASSUME NEW w \in Workers, TestQueue(w) PROVE Rest'
  BY <1>a, <1>b, <1>2 DEF TestQueue
<1>3. ASSUME NEW w \in Workers, WaitForTask(w) PROVE Rest'
  BY <1>a, <1>b, <1>3 DEF WaitForTask
<1>4. ASSUME NEW w \in Workers, WakeSpuriously(w) PROVE Rest'
  BY <1>a, <1>b, <1>4 DEF WakeSpuriously
<1>5. ASSUME NEW w \in Workers, Relock(w) PROVE Rest'
  BY <1>a, <1>b, <1>5 DEF Relock
<1>6. ASSUME NEW w \in Workers, PopTask(w) PROVE Rest'
  <2>1. Head(m_queue) # NoTask
    BY <1>0, <1>6, HeadTailProperties DEF PopTask, TypeOK
  <2>2. owner \notin {"destroy", "gone"}
    BY <1>a, <1>6 DEF PopTask
  <2>3. \A v \in Workers : pc[v] = "wait" => v = w
    BY <1>a, <1>b, <1>6 DEF PopTask
  <2>4. TaskInv'
    BY <1>a, <1>b, <1>6, <2>1 DEF PopTask
  <2>5. MutexInv' /\ CondInv'
    BY <1>a, <1>b, <1>6 DEF PopTask
  <2>6. WaitInv' /\ OwnerInv' /\ NoSleepAfterShutdown'
    BY <1>a, <1>b, <1>6, <2>2, <2>3 DEF PopTask
  <2> QED BY <2>4, <2>5, <2>6
<1>7. ASSUME NEW w \in Workers, LeaveLoop(w) PROVE Rest'
  BY <1>a, <1>b, <1>7 DEF LeaveLoop
<1>8. ASSUME NEW w \in Workers, RunTask(w) PROVE Rest'
  BY <1>a, <1>b, <1>8 DEF RunTask
<1>9. ASSUME NEW w \in Workers, DeleteTask(w) PROVE Rest'
  BY <1>a, <1>b, <1>9 DEF DeleteTask
<1>10. ASSUME NEW t \in Tasks, NEW priority \in BOOLEAN, AddTask(t, priority) PROVE Rest'
  <2>1. owner \notin {"destroy", "gone"} /\ \A v \in Workers : pc[v] # "wait"
    BY <1>a, <1>10 DEF AddTask
  <2>2. m_cond' \subseteq m_cond
    BY <1>10 DEF AddTask, Signal
  <2> QED BY <1>a, <1>b, <1>10, <2>1, <2>2 DEF AddTask
<1>12. ASSUME ClearTask PROVE Rest'
  BY <1>a, <1>b, <1>12 DEF ClearTask, EmptyQueue
<1>13. ASSUME CallShutdown PROVE Rest'
  BY <1>a, <1>b, <1>13 DEF CallShutdown
<1>14. ASSUME CallDestructor PROVE Rest'
  BY <1>a, <1>b, <1>14 DEF CallDestructor
<1>15. ASSUME RequestShutdown PROVE Rest'
  BY <1>a, <1>b, <1>15 DEF RequestShutdown, Broadcast
<1>16. ASSUME JoinWorkers PROVE Rest'
  BY <1>a, <1>b, <1>16 DEF JoinWorkers
<1>17. ASSUME ClearInDestructor PROVE Rest'
  BY <1>a, <1>b, <1>17 DEF ClearInDestructor, EmptyQueue
<1>18. ASSUME DestroyPool PROVE Rest'
  BY <1>a, <1>b, <1>18 DEF DestroyPool
<1>19. ASSUME UNCHANGED vars PROVE Rest'
  BY <1>a, <1>b, <1>19 DEF vars
<1>20. Rest'
  <2> HIDE DEF Rest
  <2> QED
    BY <1>1, <1>2, <1>3, <1>4, <1>5, <1>6, <1>7, <1>8, <1>9, <1>10, <1>12, <1>13,
       <1>14, <1>15, <1>16, <1>17, <1>18, <1>19 DEF Next, WorkerStep, OwnerStep, Gone
<1> QED BY <1>0, <1>20 DEF ControlInv

-----------------------------------------------------------------------------
(* The ownership of task objects.                                           *)

(* The two ways of saying that a task is queued agree. *)
LEMMA InQueueMembers == \A t : InQueue(t) <=> t \in Elements(m_queue)
  BY DEF InQueue, Elements

(* No task object has been handed in yet, so each has an empty history. *)
LEMMA FateInit == Init => FateInv
  BY EmptyQueueMembers, TasksAssumption DEF Init, FateInv, Fate, Holders, Distinct

(* Steps that move a worker between labels other than "run" and leave the   *)
(* queue, the tasks and the counters alone keep every fate.                 *)
LEMMA FateFrame ==
  ASSUME TypeOK, FateInv, UNCHANGED <<m_queue, task, history>>,
         \A w \in Workers : pc[w] = "run" <=> pc'[w] = "run"
  PROVE  FateInv'
<1>1. \A t : Holders(t)' = Holders(t)
  BY DEF Holders
<1>2. Elements(m_queue)' = Elements(m_queue) /\ Distinct(m_queue)'
  BY DEF FateInv, Distinct, Elements
<1>3. ASSUME NEW t \in Tasks PROVE Fate(t)'
  <2>1. Fate(t)
    BY DEF FateInv
  <2>2. Holders(t) \subseteq Workers
    BY DEF Holders
  <2> QED BY <1>1, <1>2, <2>1, <2>2 DEF Fate, history
<1> QED BY <1>2, <1>3 DEF FateInv

(* clearTask frees exactly the queued objects. *)
LEMMA FateEmptyQueue ==
  ASSUME TypeOK, FateInv, EmptyQueue
  PROVE  FateInv'
<1>1. /\ m_queue' = <<>> /\ UNCHANGED <<pc, task, added, executed>>
      /\ deleted' = [t \in Tasks |-> IF t \in Elements(m_queue) THEN deleted[t] + 1 ELSE deleted[t]]
  BY InQueueMembers DEF EmptyQueue, threadVars
<1>2. Elements(m_queue') = {} /\ Distinct(m_queue')
  BY <1>1, EmptyQueueMembers
<1>3. \A t : Holders(t)' = Holders(t)
  BY <1>1 DEF Holders
<1>4. ASSUME NEW t \in Tasks PROVE Fate(t)'
  <2>1. Fate(t) /\ deleted[t] \in Nat /\ executed[t] \in Nat
    BY DEF FateInv, TypeOK
  <2>2. deleted'[t] = IF t \in Elements(m_queue) THEN deleted[t] + 1 ELSE deleted[t]
    BY <1>1
  <2>3. t \notin added => t \notin Elements(m_queue)
    BY <2>1 DEF Fate
  <2> QED BY <1>1, <1>2, <1>3, <2>1, <2>2, <2>3 DEF Fate
<1> QED BY <1>2, <1>4 DEF FateInv

(* A popped task moves from the queue to exactly one worker. *)
LEMMA FatePop ==
  ASSUME ControlInv, FateInv, NEW w \in Workers, PopTask(w)
  PROVE  FateInv'
<1> DEFINE h == Head(m_queue)
<1>1. /\ task' = [task EXCEPT ![w] = h] /\ m_queue' = Tail(m_queue)
      /\ pc' = [pc EXCEPT ![w] = "run"] /\ pc[w] = "pop" /\ m_queue # <<>>
      /\ UNCHANGED <<added, executed, deleted>>
  BY DEF PopTask, Goto, history
<1>2. TypeOK /\ task[w] = NoTask
  BY <1>1 DEF ControlInv, TaskInv
<1>3. /\ h \in Elements(m_queue) /\ h \in Tasks
      /\ Elements(m_queue') = Elements(m_queue) \ {h}
      /\ Distinct(m_queue')
  BY <1>1, <1>2, PoppedProperties DEF FateInv, TypeOK
<1>4. \A v \in Workers : task'[v] = (IF v = w THEN h ELSE task[v])
                         /\ pc'[v] = (IF v = w THEN "run" ELSE pc[v])
  BY <1>1, <1>2 DEF TypeOK
<1> HIDE DEF h
<1>5. ASSUME NEW t \in Tasks PROVE Fate(t)'
  <2>1. Fate(t)
    BY DEF FateInv
  <2>2. CASE t = h
    <3>1. Holders(t)' = {w}
      BY <1>3, <1>4, <2>1, <2>2 DEF Fate, Holders
    <3> QED BY <1>1, <1>3, <1>4, <2>1, <2>2, <3>1 DEF Fate
  <2>3. CASE t # h
    <3>1. Holders(t)' = Holders(t) /\ w \notin Holders(t) /\ Holders(t) \subseteq Workers
      BY <1>2, <1>4, <2>3, TasksAssumption DEF Holders
    <3> QED BY <1>1, <1>3, <1>4, <2>1, <2>3, <3>1 DEF Fate
  <2> QED BY <2>2, <2>3
<1> QED BY <1>3, <1>5 DEF FateInv

(* Running a task keeps its holder and counts one execution. *)
LEMMA FateRun ==
  ASSUME ControlInv, FateInv, NEW w \in Workers, RunTask(w)
  PROVE  FateInv'
<1> DEFINE h == task[w]
<1>1. /\ executed' = [executed EXCEPT ![h] = @ + 1] /\ pc[w] = "run"
      /\ pc' = [pc EXCEPT ![w] = "delete"]
      /\ UNCHANGED <<m_queue, task, added, deleted>>
  BY DEF RunTask, Goto, queueVars
<1>2. TypeOK /\ h \in Tasks
  BY <1>1 DEF ControlInv, TaskInv, TypeOK
<1>3. /\ \A t \in Tasks : executed'[t] = IF t = h THEN executed[t] + 1 ELSE executed[t]
      /\ \A v \in Workers : pc'[v] = IF v = w THEN "delete" ELSE pc[v]
  BY <1>1, <1>2 DEF TypeOK
<1>4. w \in Holders(h) /\ \A t : t # h => w \notin Holders(t)
  BY DEF Holders
<1>5. (\A t : Holders(t)' = Holders(t)) /\ \A t : Holders(t) \subseteq Workers
  BY <1>1 DEF Holders
<1> HIDE DEF h
<1>6. ASSUME NEW t \in Tasks PROVE Fate(t)'
  <2>1. Fate(t) /\ executed[t] \in Nat
    BY <1>2 DEF FateInv, TypeOK
  <2>2. CASE t = h
    <3>1. Holders(t) = {w} /\ executed[t] = 0 /\ deleted[t] = 0
      BY <1>1, <1>4, <2>1, <2>2 DEF Fate
    <3> QED BY <1>1, <1>3, <1>5, <2>1, <2>2, <3>1 DEF Fate
  <2>3. CASE t # h
    BY <1>1, <1>3, <1>4, <1>5, <2>1, <2>3 DEF Fate
  <2> QED BY <2>2, <2>3
<1>7. Distinct(m_queue)'
  BY <1>1 DEF FateInv, Distinct
<1> QED BY <1>6, <1>7 DEF FateInv

(* A worker frees its task after running it and lets go of it. *)
LEMMA FateDelete ==
  ASSUME ControlInv, FateInv, NEW w \in Workers, DeleteTask(w)
  PROVE  FateInv'
<1> DEFINE h == task[w]
<1>1. /\ deleted' = [deleted EXCEPT ![h] = @ + 1] /\ pc[w] = "delete"
      /\ pc' = [pc EXCEPT ![w] = "lock"] /\ task' = [task EXCEPT ![w] = NoTask]
      /\ UNCHANGED <<m_queue, added, executed>>
  BY DEF DeleteTask, Goto, queueVars
<1>2. TypeOK /\ h \in Tasks
  BY <1>1 DEF ControlInv, TaskInv, TypeOK
<1>3. /\ \A t \in Tasks : deleted'[t] = IF t = h THEN deleted[t] + 1 ELSE deleted[t]
      /\ \A v \in Workers : /\ pc'[v] = IF v = w THEN "lock" ELSE pc[v]
                            /\ task'[v] = IF v = w THEN NoTask ELSE task[v]
  BY <1>1, <1>2 DEF TypeOK
<1>4. w \in Holders(h) /\ \A t : t # h => w \notin Holders(t)
  BY DEF Holders
<1> HIDE DEF h
<1>6. ASSUME NEW t \in Tasks PROVE Fate(t)'
  <2>1. Fate(t) /\ deleted[t] \in Nat /\ t # NoTask
    BY <1>2, TasksAssumption DEF FateInv, TypeOK
  <2>2. CASE t = h
    <3>1. Holders(t) = {w} /\ executed[t] = 1 /\ deleted[t] = 0
      BY <1>1, <1>4, <2>1, <2>2 DEF Fate
    <3>2. Holders(t)' = {}
      BY <1>3, <2>1, <3>1 DEF Holders
    <3> QED BY <1>1, <1>3, <2>1, <2>2, <3>1, <3>2 DEF Fate
  <2>3. CASE t # h
    <3>1. Holders(t)' = Holders(t) /\ Holders(t) \subseteq Workers
      BY <1>3, <1>4, <2>1, <2>3 DEF Holders
    <3> QED BY <1>1, <1>3, <1>4, <2>1, <2>3, <3>1 DEF Fate
  <2> QED BY <2>2, <2>3
<1>7. Distinct(m_queue)'
  BY <1>1 DEF FateInv, Distinct
<1> QED BY <1>6, <1>7 DEF FateInv

(* addTask queues an object that nobody has seen before. *)
LEMMA FateAdd ==
  ASSUME TypeOK, FateInv, NEW x \in Tasks, NEW priority \in BOOLEAN, AddTask(x, priority)
  PROVE  FateInv'
<1>1. /\ m_queue' = Pushed(m_queue, x, priority) /\ added' = added \union {x}
      /\ x \notin added /\ UNCHANGED <<pc, task, executed, deleted>>
  BY DEF AddTask, Pushed
<1>2. x \notin Elements(m_queue) /\ executed[x] = 0 /\ deleted[x] = 0 /\ Holders(x) = {}
  BY <1>1 DEF FateInv, Fate
<1>3. Elements(m_queue') = Elements(m_queue) \union {x} /\ Distinct(m_queue')
  <2>1. m_queue \in Seq(Tasks) /\ Distinct(m_queue)
    BY DEF TypeOK, FateInv
  <2>2. Elements(m_queue') = Elements(m_queue) \union {x}
    BY <1>1, <2>1, PushedProperties
  <2>3. Distinct(m_queue')
    BY <1>1, <1>2, <2>1, PushedDistinct
  <2> QED BY <2>2, <2>3
<1>4. \A t : Holders(t)' = Holders(t)
  BY <1>1 DEF Holders
<1>5. ASSUME NEW t \in Tasks PROVE Fate(t)'
  <2>1. Fate(t) /\ Holders(t) \subseteq Workers
    BY DEF FateInv, Holders
  <2>2. CASE t = x
    BY <1>1, <1>2, <1>3, <1>4, <2>2 DEF Fate
  <2>3. CASE t # x
    BY <1>1, <1>3, <1>4, <2>1, <2>3 DEF Fate
  <2> QED BY <2>2, <2>3
<1> QED BY <1>3, <1>5 DEF FateInv

(* Every step keeps the history of every task object in order. *)
LEMMA FateStep == ControlInv /\ FateInv /\ [Next]_vars => FateInv'
<1> SUFFICES ASSUME ControlInv, FateInv, [Next]_vars PROVE FateInv'
  OBVIOUS
<1>0. TypeOK /\ pc \in [Workers -> WorkerLabels]
  BY DEF ControlInv, TypeOK
<1>1. ASSUME NEW w \in Workers,
             LockQueue(w) \/ TestQueue(w) \/ WaitForTask(w) \/ WakeSpuriously(w)
               \/ Relock(w) \/ LeaveLoop(w)
      PROVE  FateInv'
  <2>1. UNCHANGED <<m_queue, task, history>> /\ \A v \in Workers : pc[v] = "run" <=> pc'[v] = "run"
    BY <1>0, <1>1 DEF LockQueue, TestQueue, WaitForTask, WakeSpuriously, Relock, LeaveLoop,
                      Goto, queueVars, WorkerLabels
  <2> QED BY <1>0, <2>1, FateFrame
<1>2. ASSUME CallShutdown \/ CallDestructor \/ RequestShutdown \/ JoinWorkers \/ DestroyPool
               \/ UNCHANGED vars
      PROVE  FateInv'
  <2>1. UNCHANGED <<m_queue, task, history, pc>>
    BY <1>2 DEF CallShutdown, CallDestructor, RequestShutdown, JoinWorkers, DestroyPool,
                vars, threadVars, queueVars
  <2> QED BY <1>0, <2>1, FateFrame
<1>3. ASSUME ClearTask \/ ClearInDestructor PROVE FateInv'
  BY <1>0, <1>3, FateEmptyQueue DEF ClearTask, ClearInDestructor
<1> QED
  BY <1>0, <1>1, <1>2, <1>3, FatePop, FateRun, FateDelete, FateAdd
     DEF Next, WorkerStep, OwnerStep, Gone

-----------------------------------------------------------------------------
(* Counting the alert workers.                                              *)

(* There are finitely many alert workers, so they can be counted. *)
LEMMA AlertFinite ==
  IsFiniteSet(AlertWorkers) /\ Cardinality(AlertWorkers) \in Nat
<1>1. AlertWorkers \in SUBSET Workers
  BY DEF AlertWorkers
<1> QED BY <1>1, WorkersAssumption, FS_Subset, FS_CardinalityType

(* A step that only makes workers alert can only raise their number. *)
LEMMA MoreAlert ==
  ASSUME \A w \in Workers : Alert(w) => Alert(w)'
  PROVE  Cardinality(AlertWorkers) <= Cardinality(AlertWorkers')
<1>1. AlertWorkers' \in SUBSET Workers
  BY DEF AlertWorkers
<1>2. IsFiniteSet(AlertWorkers')
  BY <1>1, WorkersAssumption, FS_Subset
<1>3. AlertWorkers \in SUBSET AlertWorkers'
  BY DEF AlertWorkers
<1> QED BY <1>2, <1>3, FS_Subset

(* The counting argument.  Sleeping starts only with an empty queue; a pop   *)
(* costs one task and one alert worker; a signal adds one of each.           *)
LEMMA CapacityStep == ControlInv /\ WorkConserving /\ [Next]_vars => WorkConserving'
<1> SUFFICES ASSUME ControlInv, WorkConserving, [Next]_vars PROVE WorkConserving'
  OBVIOUS
<1>0. TypeOK /\ pc \in [Workers -> WorkerLabels] /\ m_cond \subseteq Workers
      /\ m_queue \in Seq(Tasks) /\ Len(m_queue) \in Nat
      /\ CondInv /\ WaitInv /\ NoSleepAfterShutdown
  BY LenProperties DEF ControlInv, TypeOK
<1>a. Cardinality(AlertWorkers) \in Nat /\ Cardinality(AlertWorkers') \in Nat
  <2>1. AlertWorkers' \in SUBSET Workers
    BY DEF AlertWorkers
  <2> QED BY <2>1, AlertFinite, WorkersAssumption, FS_Subset, FS_CardinalityType
<1>1. ASSUME \A v \in Workers : Alert(v) => Alert(v)', m_queue' = m_queue,
             m_cond' # {} => m_cond # {}
      PROVE  WorkConserving'
  BY <1>0, <1>a, <1>1, MoreAlert DEF WorkConserving
<1>2. ASSUME m_queue' = <<>> PROVE WorkConserving'
  BY <1>a, <1>2, EmptySeq DEF WorkConserving
<1>3. ASSUME NEW w \in Workers, LockQueue(w) \/ Relock(w) \/ RunTask(w) \/ DeleteTask(w)
                                  \/ WakeSpuriously(w)
      PROVE  WorkConserving'
  <2>1. m_queue' = m_queue /\ (m_cond' # {} => m_cond # {})
    BY <1>3 DEF LockQueue, Relock, RunTask, DeleteTask, WakeSpuriously, queueVars
  <2>2. \A v \in Workers : Alert(v) => Alert(v)'
    BY <1>0, <1>3 DEF LockQueue, Relock, RunTask, DeleteTask, WakeSpuriously, Alert, Goto, WorkerLabels
  <2> QED BY <1>1, <2>1, <2>2
<1>4. ASSUME NEW w \in Workers, TestQueue(w) PROVE WorkConserving'
  <2>1. m_queue' = m_queue /\ m_cond' = m_cond
    BY <1>4 DEF TestQueue, queueVars
  <2>2. CASE MustWait
    BY <1>2, <2>1, <2>2 DEF MustWait
  <2>3. CASE ~MustWait
    <3>1. \A v \in Workers : Alert(v) => Alert(v)'
      BY <1>0, <1>4, <2>3 DEF TestQueue, Alert, Goto
    <3> QED BY <1>1, <2>1, <3>1
  <2> QED BY <2>2, <2>3
<1>5. ASSUME NEW w \in Workers, WaitForTask(w) PROVE WorkConserving'
  <2>1. m_queue' = <<>>
    BY <1>0, <1>5 DEF WaitForTask, WaitInv, MustWait, queueVars
  <2> QED BY <1>2, <2>1
<1>6. ASSUME NEW w \in Workers, PopTask(w) PROVE WorkConserving'
  <2>1. m_cond' = m_cond /\ w \notin m_cond /\ Len(m_queue') = Len(m_queue) - 1
    BY <1>0, <1>6, HeadTailProperties DEF PopTask, CondInv
  <2>2. w \in AlertWorkers /\ AlertWorkers' = AlertWorkers \ {w}
    BY <1>0, <1>6 DEF PopTask, AlertWorkers, Alert, Goto
  <2>3. Cardinality(AlertWorkers') = Cardinality(AlertWorkers) - 1
    BY <2>2, AlertFinite, FS_RemoveElement
  <2> QED BY <1>0, <1>a, <2>1, <2>3 DEF WorkConserving
<1>7. ASSUME NEW w \in Workers, LeaveLoop(w) PROVE WorkConserving'
  <2>1. CASE m_queue = <<>>
    BY <1>2, <1>7, <2>1 DEF LeaveLoop
  <2>2. CASE m_shutdown
    BY <1>0, <1>7, <2>2 DEF LeaveLoop, NoSleepAfterShutdown, WorkConserving
  <2> QED BY <1>7, <2>1, <2>2 DEF LeaveLoop
<1>8. ASSUME NEW t \in Tasks, NEW priority \in BOOLEAN, AddTask(t, priority) PROVE WorkConserving'
  <2>1. m_queue' = Pushed(m_queue, t, priority) /\ pc' = pc /\ Signal
    BY <1>8 DEF AddTask, Pushed
  <2>2. Len(m_queue') = Len(m_queue) + 1
    BY <1>0, <2>1, PushedProperties
  <2>3. CASE m_cond' = {}
    BY <2>3 DEF WorkConserving
  <2>4. CASE m_cond' # {}
    <3>1. PICK w \in m_cond : m_cond' = m_cond \ {w}
      BY <2>1, <2>4 DEF Signal
    <3>2. w \notin AlertWorkers /\ AlertWorkers' = AlertWorkers \union {w}
      BY <1>0, <2>1, <3>1 DEF AlertWorkers, Alert, CondInv
    <3>3. Cardinality(AlertWorkers') = Cardinality(AlertWorkers) + 1
      BY <3>2, AlertFinite, FS_AddElement
    <3> QED BY <1>0, <1>a, <2>2, <3>1, <3>3 DEF WorkConserving
  <2> QED BY <2>3, <2>4
<1>9. ASSUME ClearTask \/ ClearInDestructor PROVE WorkConserving'
  BY <1>2, <1>9 DEF ClearTask, ClearInDestructor, EmptyQueue
<1>10. ASSUME CallShutdown \/ CallDestructor \/ JoinWorkers \/ DestroyPool \/ UNCHANGED vars
       PROVE  WorkConserving'
  <2>1. m_queue' = m_queue /\ m_cond' = m_cond /\ pc' = pc
    BY <1>10 DEF CallShutdown, CallDestructor, JoinWorkers, DestroyPool, vars, threadVars, queueVars
  <2>2. \A v \in Workers : Alert(v) => Alert(v)'
    BY <2>1 DEF Alert
  <2> QED BY <1>1, <2>1, <2>2
<1>11. CASE RequestShutdown
  BY <1>11 DEF RequestShutdown, Broadcast, WorkConserving
<1> QED
  BY <1>3, <1>4, <1>5, <1>6, <1>7, <1>8, <1>9, <1>10, <1>11
     DEF Next, WorkerStep, OwnerStep, Gone

-----------------------------------------------------------------------------
(* The inductive invariant and the theorems.                                *)

(* The inductive invariant holds in every reachable state. *)
LEMMA Invariance == Spec => []IInv
<1>1. Init => IInv
  <2>1. Init => WorkConserving
    BY DEF Init, WorkConserving
  <2> QED BY <2>1, ControlInit, FateInit DEF IInv
<1>2. IInv /\ [Next]_vars => IInv'
  BY ControlStep, FateStep, CapacityStep DEF IInv
<1> QED BY <1>1, <1>2, PTL DEF Spec

(* The state always has the declared types. *)
THEOREM PoolTypeCorrect == Spec => []TypeOK
<1>1. IInv => TypeOK
  BY DEF IInv, ControlInv
<1> QED BY <1>1, Invariance, PTL

(* One signal per addTask is enough: no task waits beside a sleeping worker *)
(* without an alert worker that will reach it, for any number of workers.   *)
THEOREM PoolWorkConserving == Spec => []WorkConserving
<1>1. IInv => WorkConserving
  BY DEF IInv
<1> QED BY <1>1, Invariance, PTL

(* The broadcast of shutdown() reaches every worker. *)
THEOREM PoolNoSleepAfterShutdown == Spec => []NoSleepAfterShutdown
<1>1. IInv => NoSleepAfterShutdown
  BY DEF IInv, ControlInv
<1> QED BY <1>1, Invariance, PTL

(* No task object is shared, run twice, freed twice or used after free. *)
THEOREM PoolTaskOwnership == Spec => []TaskOwnership
<1>1. ASSUME IInv PROVE TaskOwnership
  <2>0. TypeOK /\ FateInv
    BY <1>1 DEF IInv, ControlInv
  <2>1. \A i, j \in 1 .. Len(m_queue) : m_queue[i] = m_queue[j] => i = j
    BY <2>0 DEF FateInv, Distinct
  <2>2. ASSUME NEW v \in Workers, NEW w \in Workers, task[v] = task[w], task[v] # NoTask
        PROVE  v = w
    <3>1. task[v] \in Tasks /\ v \in Holders(task[v]) /\ w \in Holders(task[v])
      BY <2>0, <2>2 DEF TypeOK, Holders
    <3> QED BY <2>0, <3>1 DEF FateInv, Fate
  <2>3. ASSUME NEW w \in Workers PROVE ~ InQueue(task[w])
    <3>1. Elements(m_queue) \subseteq Tasks
      BY <2>0, MemberNonEmpty DEF TypeOK
    <3>2. w \in Holders(task[w])
      BY DEF Holders
    <3> QED BY <2>0, <3>1, <3>2, InQueueMembers DEF FateInv, Fate
  <2>4. ASSUME NEW t \in Tasks
        PROVE  /\ executed[t] <= 1
               /\ deleted[t] <= 1
               /\ InQueue(t) => executed[t] = 0 /\ deleted[t] = 0
               /\ (\E w \in Workers : task[w] = t) => deleted[t] = 0
    <3>1. Fate(t)
      BY <2>0 DEF FateInv
    <3>2. CASE t \notin added
      BY <3>1, <3>2, InQueueMembers DEF Fate, Holders
    <3>3. CASE t \in Elements(m_queue)
      BY <3>1, <3>3, InQueueMembers DEF Fate, Holders
    <3>4. CASE Holders(t) # {} /\ t \notin Elements(m_queue)
      BY <3>1, <3>4, InQueueMembers DEF Fate, Holders
    <3>5. CASE t \in added /\ t \notin Elements(m_queue) /\ Holders(t) = {}
      BY <3>1, <3>5, InQueueMembers DEF Fate, Holders
    <3> QED BY <3>2, <3>3, <3>4, <3>5
  <2> QED BY <2>1, <2>2, <2>3, <2>4 DEF TaskOwnership
<1> QED BY <1>1, Invariance, PTL

(* After ~ThreadPool no thread and no task object is left behind. *)
THEOREM PoolCleanTeardown == Spec => []CleanTeardown
<1>1. ASSUME IInv, owner = "gone"
      PROVE  /\ \A w \in Workers : pc[w] = "exited"
             /\ m_cond = {} /\ m_queue = <<>>
             /\ \A t \in added : deleted[t] = 1
  <2>1. (\A w \in Workers : pc[w] = "exited") /\ m_cond = {} /\ m_queue = <<>>
    BY <1>1 DEF IInv, ControlInv, OwnerInv, NoSleepAfterShutdown
  <2>2. ASSUME NEW t \in added PROVE deleted[t] = 1
    <3>1. t \in Tasks /\ Fate(t)
      BY <1>1, <2>2 DEF IInv, ControlInv, TypeOK, FateInv
    <3>2. t \notin Elements(m_queue)
      BY <2>1, EmptyQueueMembers
    <3>3. Holders(t) = {}
      BY <1>1, <2>1, <3>1, TasksAssumption DEF IInv, ControlInv, TaskInv, Holders
    <3> QED BY <3>1, <3>2, <3>3 DEF Fate
  <2> QED BY <2>1, <2>2
<1>2. IInv => CleanTeardown
  BY <1>1 DEF CleanTeardown
<1> QED BY <1>2, Invariance, PTL

(* Once m_shutdown is set no worker takes a task, and none comes back. *)
THEOREM PoolNoStartAfterShutdown == Spec => NoStartAfterShutdown
<1> DEFINE Step == m_shutdown =>
                     \A w \in Workers : /\ task[w] = NoTask => task'[w] = NoTask
                                        /\ pc[w] = "exited" => pc'[w] = "exited"
<1>1. ASSUME IInv, [Next]_vars PROVE Step
  <2>1. SUFFICES ASSUME m_shutdown, NEW w \in Workers
                 PROVE  /\ task[w] = NoTask => task'[w] = NoTask
                        /\ pc[w] = "exited" => pc'[w] = "exited"
    OBVIOUS
  <2>2. pc \in [Workers -> WorkerLabels] /\ task \in [Workers -> Tasks \union {NoTask}]
        /\ CondInv
    BY <1>1 DEF IInv, ControlInv, TypeOK
  <2>3. ASSUME NEW v \in Workers, WorkerStep(v) \/ WakeSpuriously(v)
        PROVE  /\ task[w] = NoTask => task'[w] = NoTask
               /\ pc[w] = "exited" => pc'[w] = "exited"
    BY <2>1, <2>2, <2>3
       DEF WorkerStep, LockQueue, TestQueue, WaitForTask, WakeSpuriously, Relock, PopTask,
           LeaveLoop, RunTask, DeleteTask, Goto, WorkerLabels
  <2>4. ASSUME ~ \E v \in Workers : WorkerStep(v) \/ WakeSpuriously(v)
        PROVE  UNCHANGED <<pc, task>>
    BY <1>1, <2>4
       DEF Next, AddTask, ClearTask, EmptyQueue, CallShutdown, CallDestructor, OwnerStep,
           RequestShutdown, JoinWorkers, ClearInDestructor, DestroyPool, Gone, vars, threadVars
  <2> QED BY <2>3, <2>4
<1>2. IInv /\ [Next]_vars => [Step]_vars
  BY <1>1
<1> QED BY <1>2, Invariance, PTL DEF Spec, NoStartAfterShutdown

(* The pool, with all its locking, implements the abstract executor.        *)
THEOREM PoolImplementsExecutor == Spec => ImplementsExecutor
<1>1. Init => Executor!Init
  BY DEF Init, Executor!Init, Phase
<1>2. ASSUME IInv, [Next]_vars PROVE [Executor!Next]_(Executor!execVars)
  <2>0. /\ TypeOK /\ pc \in [Workers -> WorkerLabels]
        /\ task \in [Workers -> Tasks \union {NoTask}]
        /\ OwnerInv /\ TaskInv
    BY <1>2 DEF IInv, ControlInv, TypeOK
  <2> USE DEF Phase, queueVars, ownerVars, threadVars, history
  <2>1. ASSUME NEW w \in Workers,
               LockQueue(w) \/ TestQueue(w) \/ WaitForTask(w) \/ WakeSpuriously(w)
                 \/ Relock(w) \/ LeaveLoop(w) \/ RunTask(w)
        PROVE  UNCHANGED Executor!execVars
    BY <2>1 DEF LockQueue, TestQueue, WaitForTask, WakeSpuriously, Relock, LeaveLoop,
                RunTask, Executor!execVars
  <2>2. ASSUME NEW w \in Workers, PopTask(w) PROVE Executor!Begin(w)
    BY <2>0, <2>2 DEF PopTask, Executor!Begin, TaskInv, OwnerInv
  <2>3. ASSUME NEW w \in Workers, DeleteTask(w) PROVE Executor!Finish(w)
    BY <2>0, <2>3 DEF DeleteTask, Executor!Finish, TaskInv
  <2>4. ASSUME NEW t \in Tasks, NEW priority \in BOOLEAN, AddTask(t, priority)
        PROVE  Executor!Submit(t, priority)
    BY <2>0, <2>4 DEF AddTask, Executor!Submit, OwnerInv, TypeOK
  <2>5. ASSUME ClearTask \/ ClearInDestructor PROVE Executor!Discard
    BY <2>0, <2>5 DEF ClearTask, ClearInDestructor, EmptyQueue, Executor!Discard, OwnerInv, TypeOK
  <2>6. ASSUME CallShutdown \/ CallDestructor \/ JoinWorkers \/ UNCHANGED vars
        PROVE  UNCHANGED Executor!execVars
    BY <2>0, <2>6 DEF CallShutdown, CallDestructor, JoinWorkers, vars, OwnerInv, TypeOK,
                      Executor!execVars
  <2>7. ASSUME RequestShutdown PROVE Executor!Close
    BY <2>0, <2>7 DEF RequestShutdown, Executor!Close, OwnerInv, TypeOK
  <2>8. ASSUME DestroyPool PROVE Executor!Vanish
    <3>1. m_shutdown /\ m_queue = <<>> /\ \A w \in Workers : task[w] = NoTask
      BY <2>0, <2>8 DEF DestroyPool, OwnerInv, TaskInv
    <3> QED BY <2>8, <3>1 DEF DestroyPool, Executor!Vanish
  <2> QED
    BY <1>2, <2>1, <2>2, <2>3, <2>4, <2>5, <2>6, <2>7, <2>8
       DEF Next, WorkerStep, OwnerStep, Gone, Executor!Next
<1> QED BY <1>1, <1>2, Invariance, PTL DEF Spec, ImplementsExecutor, Executor!Spec

-----------------------------------------------------------------------------
(* The client.  An event for output is the only way to a send, and an entry *)
(* stays registered for output until its request is out.  That one send     *)
(* finds no second such event needs that an answer of epoll_wait names a    *)
(* connection once, hence that it is on the ready list once, although       *)
(* everything that happens to its socket puts it there again.               *)

Labels == {"connect", "add", "wait", "dispatch", "send", "mod", "recv", "cleanup", "closeEp", "done"}
InLoop == mainPc \notin {"cleanup", "done"}
Handling == {"send", "mod", "recv"}
Events == [conn : Conns, event : {"out", "in"}]

ClientTypeOK ==
  /\ mainPc \in Labels
  /\ sock \in [Conns -> {"none", "open", "closed", "leaked"}]
  /\ queryMap \subseteq Conns
  /\ entry \in [Conns -> {"none", "out", "in"}]
  /\ sent \in [Conns -> {0, 1}]
  /\ server \in [Conns -> {"none", "open", "replied", "served", "closed", "reset"}]
  /\ mainPc \in {"add"} \union Handling => curr \in Conns

(* The ready list and the answer of epoll_wait name a connection once.      *)
ListInv ==
  /\ rdlist \in Seq(Conns) /\ Distinct(rdlist)
  /\ \A c \in Elements(rdlist) : entry[c] # "none"
  /\ batch \in Seq(Events)
  /\ \A i, j \in 1 .. Len(batch) : batch[i].conn = batch[j].conn => i = j
  /\ \A i \in 1 .. Len(batch) :
       /\ batch[i].event = entry[batch[i].conn]
       /\ mainPc \in Handling => batch[i].conn # curr
  /\ mainPc \in {"connect", "add", "wait"} => batch = <<>>

(* How far each connection is.                                              *)
RequestInv ==
  /\ \A c \in Conns : sock[c] = "none" => entry[c] = "none"
  /\ \A c \in Conns :
       entry[c] # "in" /\ ~ (mainPc = "mod" /\ curr = c) => sent[c] = 0
  /\ mainPc = "add" => entry[curr] = "none" /\ sock[curr] = "open"
  /\ mainPc \in {"send", "mod"} => entry[curr] = "out"
  /\ mainPc = "mod" => sent[curr] = 1

(* A reply is to a request.                                                 *)
ReplyInv == \A c \in Conns : Replied(c) \/ c \in replies => sent[c] = 1

ClientInv == ClientTypeOK /\ ReplyInv /\ (InLoop => ListInv /\ RequestInv)

-----------------------------------------------------------------------------
LEMMA InvInit == ASSUME ClientInit PROVE ClientInv
<1>1. rdlist = <<>> /\ Distinct(rdlist) /\ Elements(rdlist) = {} /\ rdlist \in Seq(Conns)
  BY EmptyQueueMembers DEF ClientInit
<1>2. batch = <<>> /\ Len(batch) = 0 /\ batch \in Seq(Events)
  BY DEF ClientInit
<1>3. ListInv
  BY <1>1, <1>2 DEF ListInv, ClientInit, Handling
<1> QED BY <1>3 DEF ClientInit, ClientInv, ClientTypeOK, ReplyInv, RequestInv, Labels, Handling, Replied

(* A connection that joins the ready list, or does not because it has no    *)
(* entry or is there already.                                               *)
LEMMA WakeList ==
  ASSUME rdlist \in Seq(Conns), Distinct(rdlist), NEW c \in Conns, Wake(c)
  PROVE  /\ rdlist' \in Seq(Conns) /\ Distinct(rdlist')
         /\ \A d \in Elements(rdlist') : d \in Elements(rdlist) \/ (d = c /\ entry[c] # "none")
<1>1. CASE rdlist' = rdlist
  BY <1>1
<1>2. CASE rdlist' # rdlist
  <2>1. rdlist' = Append(rdlist, c) /\ entry[c] # "none" /\ ~ OnList(c)
    BY <1>2 DEF Wake, Registered
  <2>2. c \notin Elements(rdlist)
    BY <2>1 DEF OnList, Elements
  <2> PICK front \in BOOLEAN : front = FALSE
    OBVIOUS
  <2>3. rdlist' = Pushed(rdlist, c, front)
    BY <2>1 DEF Pushed
  <2> QED BY <2>1, <2>2, <2>3, PushedProperties, PushedDistinct
<1> QED BY <1>1, <1>2

(* The loop that opens the connections, and what main does with nothing in  *)
(* hand.                                                                    *)
LEMMA ConnectStep ==
  ASSUME ClientInv, Connect \/ Register \/ SocketFails \/ ConnectFails \/ AllConnected
  PROVE  ClientInv'
<1>0. ClientTypeOK /\ ReplyInv /\ ListInv /\ RequestInv
  BY DEF ClientInv, InLoop, Connect, Register, SocketFails, ConnectFails, AllConnected, At
<1>1. batch' = <<>> /\ batch = <<>> /\ UNCHANGED <<sent, replies>>
  BY <1>0 DEF ListInv, Connect, Register, SocketFails, ConnectFails, AllConnected, At
<1>2. CASE Connect
  <2>1. PICK c \in Conns :
          /\ sock[c] = "none" /\ mainPc' = "add" /\ curr' = c
          /\ sock' = [sock EXCEPT ![c] = "open"] /\ server' = [server EXCEPT ![c] = "open"]
          /\ queryMap' = queryMap \union {c}
          /\ UNCHANGED <<entry, rdlist>> /\ mainPc = "connect"
    BY <1>2 DEF Connect, NextConn, At, kernelSame
  <2>2. ListInv'
    BY <1>0, <1>1, <2>1 DEF ListInv, Handling
  <2>3. RequestInv'
    BY <1>0, <1>1, <2>1 DEF RequestInv, ClientTypeOK
  <2>4. ClientTypeOK' /\ ReplyInv'
    BY <1>0, <1>1, <2>1 DEF ClientTypeOK, ReplyInv, Replied, Labels
  <2> QED BY <2>2, <2>3, <2>4 DEF ClientInv
<1>3. CASE Register
  <2> PICK c \in Conns : c = curr
    BY <1>0, <1>3 DEF ClientTypeOK, Register, At
  <2>1. /\ mainPc = "add" /\ mainPc' = "connect" /\ entry' = [entry EXCEPT ![c] = "out"]
        /\ rdlist' = Append(rdlist, c) /\ UNCHANGED <<sock, queryMap, server>>
        /\ entry[c] = "none" /\ sock[c] = "open"
    BY <1>0, <1>3 DEF Register, At, querySame, RequestInv
  <2>2. /\ rdlist' \in Seq(Conns) /\ Distinct(rdlist')
        /\ Elements(rdlist') = Elements(rdlist) \union {c}
    <3>1. c \notin Elements(rdlist) /\ rdlist \in Seq(Conns) /\ Distinct(rdlist)
      BY <1>0, <2>1 DEF ListInv
    <3> PICK front \in BOOLEAN : front = FALSE
      OBVIOUS
    <3>2. rdlist' = Pushed(rdlist, c, front)
      BY <2>1 DEF Pushed
    <3> QED BY <3>1, <3>2, PushedProperties, PushedDistinct
  <2>3. ListInv'
    <3>1. \A d \in Elements(rdlist') : entry'[d] # "none"
      <4>1. Elements(rdlist) \subseteq Conns
        BY <1>0, MemberNonEmpty DEF ListInv
      <4> QED BY <1>0, <2>1, <2>2, <4>1 DEF ListInv, ClientTypeOK
    <3> QED BY <1>0, <1>1, <2>1, <2>2, <3>1 DEF ListInv, Handling
  <2>4. RequestInv'
    BY <1>0, <1>1, <2>1 DEF RequestInv, ClientTypeOK
  <2>5. ClientTypeOK' /\ ReplyInv'
    BY <1>0, <1>1, <2>1 DEF ClientTypeOK, ReplyInv, Replied, Labels, Handling
  <2> QED BY <2>3, <2>4, <2>5 DEF ClientInv
<1>4. CASE SocketFails \/ ConnectFails \/ AllConnected
  <2>1. /\ mainPc = "connect" /\ mainPc' = "wait" /\ UNCHANGED <<queryMap, entry, rdlist, server, curr>>
        /\ sock' = sock \/ \E c \in Conns : sock' = [sock EXCEPT ![c] = "leaked"]
    BY <1>4 DEF SocketFails, ConnectFails, AllConnected, At, kernelSame, querySame, NextConn
  <2>2. ListInv'
    BY <1>0, <1>1, <2>1 DEF ListInv, Handling
  <2>3. RequestInv' /\ ClientTypeOK'
    BY <1>0, <1>1, <2>1 DEF RequestInv, ClientTypeOK, Labels, Handling
  <2>4. ReplyInv'
    BY <1>0, <1>1, <2>1 DEF ReplyInv, Replied
  <2> QED BY <2>2, <2>3, <2>4 DEF ClientInv
<1> QED BY <1>2, <1>3, <1>4

(* The numbers up to k, cut after the first n.                              *)
LEMMA CutInterval ==
  ASSUME NEW k \in Nat, NEW n \in 0 .. k
  PROVE  /\ n \in Nat /\ k - n \in Nat
         /\ \A i \in 1 .. n : i \in 1 .. k
         /\ \A i \in 1 .. k - n : i \in Int /\ n + i \in 1 .. k
OBVIOUS

LEMMA AsSequence ==
  ASSUME NEW S, NEW m \in Nat, NEW s \in [1 .. m -> S]
  PROVE  s \in Seq(S) /\ Len(s) = m
BY SeqDef

(* Of two numbers neither of which is smaller, both are the same.           *)
LEMMA NeitherSmaller ==
  ASSUME NEW k \in Nat, NEW pos, \A i \in 1 .. k : pos[i] \in Int,
         \A i, j \in 1 .. k : i < j => pos[i] < pos[j],
         NEW i \in 1 .. k, NEW j \in 1 .. k, pos[i] = pos[j]
  PROVE  i = j
<1>1. i \in Int /\ j \in Int /\ pos[i] \in Int /\ pos[j] \in Int
  OBVIOUS
<1>2. CASE i < j
  BY <1>1, <1>2
<1>3. CASE j < i
  <2>1. pos[j] < pos[i]
    BY <1>3
  <2> QED BY <1>1, <2>1
<1> QED BY <1>1, <1>2, <1>3

(* epoll_wait: each connection is reported once.                            *)
LEMMA WaitStep == ASSUME ClientInv, EpollWait PROVE ClientInv'
<1>0. ClientTypeOK /\ ReplyInv /\ ListInv /\ RequestInv /\ mainPc = "wait" /\ mainPc' = "dispatch"
  BY DEF ClientInv, InLoop, EpollWait, At
<1>1. UNCHANGED <<sock, queryMap, entry, curr, sent, replies, server>>
  BY DEF EpollWait, querySame
<1> PICK ready : ready = {i \in DOMAIN rdlist : entry[rdlist[i]] = "out" \/ Readable(rdlist[i])}
  OBVIOUS
<1> PICK k : k = Cardinality(ready)
  OBVIOUS
<1>2. /\ ready \subseteq 1 .. Len(rdlist) /\ Len(rdlist) \in Nat /\ k \in Nat
      /\ \A i \in 1 .. Len(rdlist) : rdlist[i] \in Conns /\ entry[rdlist[i]] \in {"in", "out"}
      /\ \A i, j \in 1 .. Len(rdlist) : rdlist[i] = rdlist[j] => i = j
  <2>1. rdlist \in Seq(Conns) /\ Len(rdlist) \in Nat /\ DOMAIN rdlist = 1 .. Len(rdlist)
    BY <1>0 DEF ListInv
  <2>2. IsFiniteSet(ready)
    <3>1. IsFiniteSet(1 .. Len(rdlist))
      BY <2>1, FS_Interval
    <3> QED BY <2>1, <3>1, FS_Subset
  <2>3. \A i \in 1 .. Len(rdlist) : rdlist[i] \in Conns /\ rdlist[i] \in Elements(rdlist)
    BY <2>1, ElementOfSeq DEF Elements
  <2> QED BY <1>0, <2>1, <2>2, <2>3, FS_CardinalityType DEF ListInv, ClientTypeOK, Distinct
<1>3. PICK pos \in [1 .. k -> ready] :
        /\ \A i, j \in 1 .. k : i < j => pos[i] < pos[j]
        /\ LET n == IF Len(pos) < WaitSize THEN Len(pos) ELSE WaitSize
           IN  /\ batch' = [i \in 1 .. n |-> [conn |-> rdlist[pos[i]], event |-> entry[rdlist[pos[i]]]]]
               /\ rdlist' = [i \in 1 .. Len(pos) - n |-> rdlist[pos[n + i]]]
  BY <1>2 DEF EpollWait, InOrder
<1>4. Len(pos) = k
  BY <1>2, <1>3
<1>5. PICK n \in 0 .. k :
        /\ batch' = [i \in 1 .. n |-> [conn |-> rdlist[pos[i]], event |-> entry[rdlist[pos[i]]]]]
        /\ rdlist' = [i \in 1 .. k - n |-> rdlist[pos[n + i]]]
  <2> PICK n : n = IF k < WaitSize THEN k ELSE WaitSize
    OBVIOUS
  <2>1. n \in 0 .. k
    BY <1>2, WaitSizeAssumption
  <2> QED BY <1>3, <1>4, <2>1
<1>6. /\ \A i \in 1 .. k : rdlist[pos[i]] \in Conns /\ entry[rdlist[pos[i]]] \in {"in", "out"}
      /\ \A i, j \in 1 .. k : rdlist[pos[i]] = rdlist[pos[j]] => i = j
  <2>1. ASSUME NEW i \in 1 .. k PROVE pos[i] \in 1 .. Len(rdlist) /\ pos[i] \in Int
    <3>1. pos[i] \in ready
      OBVIOUS
    <3>2. ready \subseteq 1 .. Len(rdlist) /\ Len(rdlist) \in Nat
      BY <1>2
    <3> QED BY <3>1, <3>2
  <2>2. ASSUME NEW i \in 1 .. k, NEW j \in 1 .. k, pos[i] = pos[j] PROVE i = j
    <3>1. k \in Nat /\ \A a \in 1 .. k : pos[a] \in Int
      BY <1>2, <2>1
    <3>2. \A a, b \in 1 .. k : a < b => pos[a] < pos[b]
      BY <1>3
    <3> QED BY <2>2, <3>1, <3>2, NeitherSmaller
  <2>3. ASSUME NEW i \in 1 .. k, NEW j \in 1 .. k, rdlist[pos[i]] = rdlist[pos[j]] PROVE i = j
    <3>1. pos[i] = pos[j]
      BY <1>2, <2>1, <2>3
    <3> QED BY <2>2, <3>1
  <2>4. ASSUME NEW i \in 1 .. k
        PROVE  rdlist[pos[i]] \in Conns /\ entry[rdlist[pos[i]]] \in {"in", "out"}
    BY <1>2, <2>1
  <2> QED BY <2>3, <2>4
<1>7. /\ rdlist' \in Seq(Conns) /\ Len(rdlist') = k - n
      /\ \A i \in 1 .. k - n : rdlist'[i] = rdlist[pos[n + i]] /\ n + i \in 1 .. k
  <2>1. k - n \in Nat /\ \A i \in 1 .. k - n : i \in Int /\ n + i \in 1 .. k
    BY <1>2, CutInterval
  <2>2. rdlist' \in [1 .. k - n -> Conns]
    BY <1>5, <1>6, <2>1
  <2>3. PICK m \in Nat : m = k - n
    BY <2>1
  <2>4. rdlist' \in Seq(Conns)
    BY <2>2, <2>3, AsSequence
  <2> QED BY <1>5, <2>1, <2>2, <2>4
<1>8. Distinct(rdlist') /\ \A c \in Elements(rdlist') : entry[c] # "none"
  <2>1. ASSUME NEW i \in 1 .. k - n, NEW j \in 1 .. k - n, rdlist'[i] = rdlist'[j] PROVE i = j
    <3>1. n + i = n + j
      BY <1>6, <1>7, <2>1
    <3>2. n \in Int /\ i \in Int /\ j \in Int
      BY <1>2, CutInterval
    <3> QED BY <3>1, <3>2
  <2>2. \A i \in 1 .. k - n : entry[rdlist'[i]] # "none"
    BY <1>6, <1>7
  <2> QED BY <1>7, <2>1, <2>2 DEF Distinct, Elements
<1>9. /\ batch' \in Seq(Events) /\ Len(batch') = n
      /\ \A i \in 1 .. n : /\ batch'[i].conn = rdlist[pos[i]] /\ batch'[i].event = entry[rdlist[pos[i]]]
                           /\ i \in 1 .. k
  <2>1. n \in Nat /\ \A i \in 1 .. n : i \in 1 .. k
    BY <1>2, CutInterval
  <2>2. batch' \in [1 .. n -> Events]
    BY <1>5, <1>6, <2>1 DEF Events
  <2>3. batch' \in Seq(Events)
    BY <2>1, <2>2, AsSequence
  <2> QED BY <1>5, <2>1, <2>2, <2>3
<1>10. /\ \A i, j \in 1 .. n : batch'[i].conn = batch'[j].conn => i = j
       /\ \A i \in 1 .. n : batch'[i].event = entry[batch'[i].conn]
  <2>1. ASSUME NEW i \in 1 .. n, NEW j \in 1 .. n, batch'[i].conn = batch'[j].conn PROVE i = j
    <3>1. i \in 1 .. k /\ j \in 1 .. k /\ rdlist[pos[i]] = rdlist[pos[j]]
      BY <1>9, <2>1
    <3> QED BY <1>6, <3>1
  <2> QED BY <1>9, <2>1
<1>11. ListInv'
  BY <1>0, <1>1, <1>7, <1>8, <1>9, <1>10 DEF ListInv, Handling
<1>12. ClientTypeOK' /\ ReplyInv' /\ RequestInv'
  BY <1>0, <1>1 DEF ClientTypeOK, ReplyInv, Replied, RequestInv, Labels, Handling
<1> QED BY <1>11, <1>12 DEF ClientInv

(* The next event of the answer goes to its handler.                        *)
LEMMA DispatchStep == ASSUME ClientInv, Dispatch PROVE ClientInv'
<1>0. ClientTypeOK /\ ReplyInv /\ ListInv /\ RequestInv /\ mainPc = "dispatch" /\ batch # <<>>
  BY DEF ClientInv, InLoop, Dispatch
<1> PICK c : c = batch[1].conn
  OBVIOUS
<1>1. /\ batch[1] \in Events /\ Len(batch) \in Nat \ {0}
      /\ batch[1].event = entry[c] /\ c \in Conns
      /\ Head(batch) = batch[1]
  <2>1. Len(batch) \in Nat \ {0} /\ batch \in Seq(Events)
    BY <1>0, EmptySeq DEF ListInv
  <2>2. 1 \in 1 .. Len(batch) /\ batch[1] \in Events
    BY <2>1, ElementOfSeq
  <2>3. batch[1].conn \in Conns /\ batch[1].event = entry[batch[1].conn] /\ Head(batch) = batch[1]
    BY <1>0, <2>1, <2>2 DEF ListInv, Events
  <2> QED BY <2>1, <2>2, <2>3
<1>2. /\ mainPc' = IF entry[c] = "out" THEN "send" ELSE "recv"
      /\ curr' = c /\ batch' = Tail(batch)
      /\ UNCHANGED <<sock, queryMap, entry, rdlist, sent, replies, server>>
  BY <1>1 DEF Dispatch, querySame, kernelSame
<1>3. /\ batch' \in Seq(Events) /\ Len(batch') = Len(batch) - 1
      /\ \A i \in 1 .. Len(batch) - 1 : batch'[i] = batch[i + 1] /\ i + 1 \in 1 .. Len(batch)
      /\ 1 \in 1 .. Len(batch)
  BY <1>0, <1>1, <1>2 DEF ListInv
<1>4. /\ \A i, j \in 1 .. Len(batch') : batch'[i].conn = batch'[j].conn => i = j
      /\ \A i \in 1 .. Len(batch') : batch'[i].event = entry[batch'[i].conn] /\ batch'[i].conn # c
  <2>1. \A i, j \in 1 .. Len(batch) : batch[i].conn = batch[j].conn => i = j
    BY <1>0 DEF ListInv
  <2>2. ASSUME NEW i \in 1 .. Len(batch'), NEW j \in 1 .. Len(batch'), batch'[i].conn = batch'[j].conn
        PROVE  i = j
    <3>1. i + 1 = j + 1
      BY <1>3, <2>1, <2>2
    <3> QED BY <1>1, <1>3, <3>1
  <2>3. ASSUME NEW i \in 1 .. Len(batch') PROVE batch'[i].event = entry[batch'[i].conn] /\ batch'[i].conn # c
    <3>1. i + 1 # 1
      BY <1>1, <1>3
    <3>2. batch[i + 1].event = entry[batch[i + 1].conn] /\ batch[i + 1].conn # c
      BY <1>0, <1>3, <2>1, <3>1 DEF ListInv
    <3> QED BY <1>3, <3>2
  <2> QED BY <2>2, <2>3
<1>5. ListInv'
  BY <1>0, <1>2, <1>3, <1>4 DEF ListInv, Handling
<1>6. ClientTypeOK' /\ ReplyInv' /\ RequestInv'
  BY <1>0, <1>1, <1>2 DEF ClientTypeOK, ReplyInv, Replied, RequestInv, Labels, Handling
<1> QED BY <1>5, <1>6 DEF ClientInv

(* The handlers, each with one connection in hand.  Nothing of the answer   *)
(* that is left is about it.                                                *)
LEMMA ListKept ==
  ASSUME ClientTypeOK, ListInv, NEW c \in Conns, Wake(c) \/ UNCHANGED rdlist
  PROVE  /\ rdlist' \in Seq(Conns) /\ Distinct(rdlist')
         /\ \A d \in Elements(rdlist') : d \in Conns /\ entry[d] # "none"
<1>1. rdlist \in Seq(Conns) /\ Distinct(rdlist) /\ \A d \in Elements(rdlist) : entry[d] # "none"
  BY DEF ListInv
<1>2. Elements(rdlist) \subseteq Conns
  BY <1>1, MemberNonEmpty
<1>3. CASE Wake(c)
  BY <1>1, <1>2, <1>3, WakeList
<1>4. CASE UNCHANGED rdlist
  BY <1>1, <1>2, <1>4
<1> QED BY <1>3, <1>4

LEMMA HandlerStep ==
  ASSUME ClientInv, Send \/ SendFails \/ Modify \/ Read
  PROVE  ClientInv'
<1>0. ClientTypeOK /\ ReplyInv /\ ListInv /\ RequestInv /\ mainPc \in Handling
  BY DEF ClientInv, InLoop, Send, SendFails, Modify, Read, At, Handling
<1> PICK c \in Conns : c = curr
  BY <1>0 DEF ClientTypeOK
<1>1. batch' = batch /\ UNCHANGED <<sock, queryMap, server>>
  BY DEF Send, SendFails, Modify, Read, querySame
<1>2. CASE Send
  <2>1. /\ mainPc = "send" /\ mainPc' = "mod" /\ curr' = curr
        /\ sent' = [sent EXCEPT ![c] = @ + 1] /\ UNCHANGED <<entry, rdlist, replies>>
    BY <1>2 DEF Send, kernelSame
  <2>2. entry[c] = "out" /\ sent[c] = 0
    BY <1>0, <2>1 DEF RequestInv
  <2>3. sent' \in [Conns -> {0, 1}] /\ sent'[c] = 1 /\ \A d \in Conns \ {c} : sent'[d] = sent[d]
    BY <1>0, <2>1, <2>2 DEF ClientTypeOK
  <2>4. ListInv'
    BY <1>0, <1>1, <2>1 DEF ListInv, Handling
  <2>5. RequestInv'
    BY <1>0, <1>1, <2>1, <2>2, <2>3 DEF RequestInv
  <2>6. ClientTypeOK' /\ ReplyInv'
    BY <1>0, <1>1, <2>1, <2>3 DEF ClientTypeOK, ReplyInv, Replied, Labels, Handling
  <2> QED BY <2>4, <2>5, <2>6 DEF ClientInv
<1>3. CASE SendFails \/ Read
  <2>1. /\ mainPc \in {"send", "recv"} /\ mainPc' = "dispatch" /\ curr' = NoConn
        /\ Wake(c) /\ UNCHANGED <<entry, sent>>
        /\ replies' = replies \/ (replies' = replies \union {c} /\ Replied(c))
    BY <1>3 DEF SendFails, Read, At
  <2>2. ListInv'
    BY <1>0, <1>1, <2>1, ListKept DEF ListInv, Handling
  <2>3. RequestInv'
    BY <1>0, <1>1, <2>1 DEF RequestInv
  <2>4. ClientTypeOK' /\ ReplyInv'
    BY <1>0, <1>1, <2>1 DEF ClientTypeOK, ReplyInv, Replied, Labels, Handling
  <2> QED BY <2>2, <2>3, <2>4 DEF ClientInv
<1>4. CASE Modify
  <2>1. /\ mainPc = "mod" /\ mainPc' = "dispatch" /\ curr' = NoConn
        /\ entry' = [entry EXCEPT ![c] = "in"]
        /\ Wake(c) \/ UNCHANGED rdlist
        /\ UNCHANGED <<sent, replies>>
    BY <1>4 DEF Modify, At
  <2>2. /\ entry' \in [Conns -> {"none", "out", "in"}] /\ entry'[c] = "in"
        /\ \A d \in Conns \ {c} : entry'[d] = entry[d]
        /\ entry[c] = "out" /\ sent[c] = 1 /\ sock[c] # "none"
    BY <1>0, <2>1 DEF ClientTypeOK, RequestInv
  <2>3. \A d \in Elements(rdlist') : entry'[d] # "none"
    BY <1>0, <2>1, <2>2, ListKept
  <2>4. \A i \in 1 .. Len(batch) : batch[i].conn \in Conns \ {c} /\ batch[i].event = entry[batch[i].conn]
    <3>1. batch \in Seq(Events)
      BY <1>0 DEF ListInv
    <3>2. ASSUME NEW i \in 1 .. Len(batch) PROVE batch[i].conn \in Conns
      <4>1. batch[i] \in Events
        BY <3>1, ElementOfSeq
      <4> QED BY <4>1 DEF Events
    <3> QED BY <1>0, <3>2 DEF ListInv
  <2>5. ListInv'
    BY <1>0, <1>1, <2>1, <2>2, <2>3, <2>4, ListKept DEF ListInv, Handling
  <2>6. RequestInv'
    BY <1>0, <1>1, <2>1, <2>2 DEF RequestInv
  <2>7. ClientTypeOK' /\ ReplyInv'
    BY <1>0, <1>1, <2>1, <2>2 DEF ClientTypeOK, ReplyInv, Replied, Labels, Handling
  <2> QED BY <2>5, <2>6, <2>7 DEF ClientInv
<1> QED BY <1>2, <1>3, <1>4

(* What main does with nothing in hand, and the way out of the loop.        *)
LEMMA IdleStep ==
  ASSUME ClientInv, BatchDone \/ StopLoop \/ CloseOne \/ CloseEpoll
  PROVE  ClientInv'
<1>0. ClientTypeOK /\ ReplyInv /\ mainPc \in {"dispatch", "wait", "cleanup"}
      /\ UNCHANGED <<sent, replies, server, curr>>
  BY DEF ClientInv, BatchDone, StopLoop, CloseOne, CloseEpoll, At
<1>1. ReplyInv'
  BY <1>0 DEF ReplyInv, Replied
<1>2. CASE BatchDone
  <2>1. /\ mainPc = "dispatch" /\ mainPc' = "wait" /\ batch = <<>>
        /\ UNCHANGED <<batch, sock, queryMap, entry, rdlist>>
    BY <1>2 DEF BatchDone, At, querySame, kernelSame
  <2>2. ListInv /\ RequestInv
    BY <2>1 DEF ClientInv, InLoop
  <2>3. ClientTypeOK' /\ ListInv' /\ RequestInv'
    BY <1>0, <2>1, <2>2 DEF ClientTypeOK, ListInv, RequestInv, Labels, Handling
  <2> QED BY <1>1, <2>3 DEF ClientInv
<1>3. CASE StopLoop \/ CloseOne \/ CloseEpoll
  <2>1. mainPc' \in {"cleanup", "done"}
    BY <1>3 DEF StopLoop, CloseOne, CloseEpoll, At
  <2>2. /\ sock' = sock \/ \E c \in Conns : sock' = [sock EXCEPT ![c] = "closed"]
        /\ queryMap' \subseteq Conns
        /\ entry' \in [Conns -> {"none", "out", "in"}]
    <3>1. CASE StopLoop
      BY <1>0, <3>1 DEF StopLoop, querySame, kernelSame, ClientTypeOK
    <3>2. CASE CloseEpoll
      BY <1>0, <3>2 DEF CloseEpoll, querySame, ClientTypeOK
    <3>3. CASE CloseOne
      <4>1. PICK c \in queryMap : /\ sock' = [sock EXCEPT ![c] = "closed"]
                                  /\ entry' = [entry EXCEPT ![c] = "none"]
                                  /\ queryMap' = queryMap \ {c}
        BY <3>3 DEF CloseOne
      <4> QED BY <1>0, <4>1 DEF ClientTypeOK
    <3> QED BY <1>3, <3>1, <3>2, <3>3
  <2>3. ClientTypeOK'
    BY <1>0, <2>1, <2>2 DEF ClientTypeOK, Labels, Handling
  <2> QED BY <1>1, <2>1, <2>3 DEF ClientInv, InLoop
<1> QED BY <1>2, <1>3

(* The other end: it answers a request, it closes, it breaks the connection.*)
LEMMA OtherStep ==
  ASSUME ClientInv, (\E c \in Conns : ServerStep(c)) \/ Interrupt \/ UNCHANGED clientVars
  PROVE  ClientInv'
<1>0. ClientTypeOK /\ ReplyInv /\ UNCHANGED <<mainPc, sock, queryMap, entry, batch, curr, sent, replies>>
  BY DEF ClientInv, ServerStep, Interrupt, clientVars, querySame, kernelSame
<1>1. CASE Interrupt \/ UNCHANGED clientVars
  <2>1. UNCHANGED <<rdlist, server>>
    BY <1>1 DEF Interrupt, clientVars, kernelSame
  <2> QED BY <1>0, <2>1 DEF ClientInv, ClientTypeOK, ReplyInv, Replied, InLoop, ListInv, RequestInv, Handling
<1>2. CASE \E c \in Conns : ServerStep(c)
  <2>1. PICK c \in Conns : ServerStep(c)
    BY <1>2
  <2>2. PICK to \in {"replied", "served", "closed", "reset"} :
          /\ server' = [server EXCEPT ![c] = to]
          /\ to \in {"replied", "served"} => sent[c] = 1
    BY <1>0, <2>1 DEF ServerStep, Reply, Disconnect, ClientTypeOK, ReplyInv, Replied
  <2>3. Wake(c) \/ UNCHANGED rdlist
    BY <2>1 DEF ServerStep, Reply, Disconnect
  <2>4. ClientTypeOK' /\ ReplyInv'
    BY <1>0, <2>2 DEF ClientTypeOK, ReplyInv, Replied, Labels, Handling
  <2>5. ASSUME InLoop PROVE ListInv' /\ RequestInv'
    <3>1. ListInv /\ RequestInv
      BY <2>5 DEF ClientInv
    <3>2. ListInv'
      BY <1>0, <2>3, <3>1, ListKept DEF ListInv, Handling
    <3>3. RequestInv'
      BY <1>0, <3>1 DEF RequestInv
    <3> QED BY <3>2, <3>3
  <2> QED BY <1>0, <2>4, <2>5 DEF ClientInv, InLoop
<1> QED BY <1>1, <1>2

LEMMA InvNext == ClientInv /\ [ClientNext]_clientVars => ClientInv'
<1> SUFFICES ASSUME ClientInv, [ClientNext]_clientVars PROVE ClientInv'
  OBVIOUS
<1>1. CASE MainStep
  BY <1>1, ConnectStep, WaitStep, DispatchStep, HandlerStep, IdleStep DEF MainStep
<1>2. CASE (\E c \in Conns : ServerStep(c)) \/ Interrupt \/ UNCHANGED clientVars
  BY <1>2, OtherStep
<1> QED BY <1>1, <1>2 DEF ClientNext

-----------------------------------------------------------------------------
(* The ready list and the answers of epoll_wait name a connection once, and *)
(* the requests and replies are as far as the entries say.                  *)
THEOREM ClientInvariant == ClientSpec => []ClientInv
<1>1. ClientInit => ClientInv
  BY InvInit
<1> QED BY <1>1, InvNext, PTL DEF ClientSpec

(* A connection never sends a second request, whatever its entry becomes    *)
(* ready for again, and it never counts a reply to no request.              *)
THEOREM RequestsAreSingle == ClientSpec => []OneRequest
<1>1. ClientInv => OneRequest
  <2> SUFFICES ASSUME ClientInv, NEW c \in Conns PROVE sent[c] <= 1 /\ (c \in replies => sent[c] = 1)
    BY DEF OneRequest
  <2>1. sent[c] \in {0, 1} /\ (c \in replies => sent[c] = 1)
    BY DEF ClientInv, ClientTypeOK, ReplyInv
  <2> QED BY <2>1
<1> QED BY <1>1, ClientInvariant, PTL
=============================================================================
