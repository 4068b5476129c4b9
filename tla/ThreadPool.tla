----------------------------- MODULE ThreadPool -----------------------------
(***************************************************************************)
(* class ThreadPool of 9/superSvr/threadpool.{h,cpp}.                       *)
(*                                                                         *)
(* Worker threads run ThreadPool::run, which calls pickTask in a loop.     *)
(* pickTask is split where another thread can get in between: taking       *)
(* m_mutex, testing the while condition, pthread_cond_wait, the part after *)
(* the loop.  addTask and clearTask touch shared state only while they     *)
(* hold m_mutex and never wait on it, so each is one step that needs the   *)
(* mutex free.  The thread that owns the pool may call shutdown() and then *)
(* runs the destructor; any thread may call addTask and clearTask until    *)
(* the destructor starts, which is the lifetime rule of a C++ object.      *)
(*                                                                         *)
(* A member of Tasks is one __task_t object: addTask allocates a fresh one *)
(* for every call, so it is handed in at most once.                        *)
(***************************************************************************)
EXTENDS Naturals, Sequences, FiniteSets

CONSTANTS
  Workers,    \* the threads the constructor starts
  Tasks,      \* the __task_t objects that may be allocated
  NoTask,     \* the NULL that pickTask returns
  NoThread    \* nobody holds m_mutex

ASSUME WorkersAssumption == IsFiniteSet(Workers) /\ NoThread \notin Workers
ASSUME TasksAssumption == IsFiniteSet(Tasks) /\ NoTask \notin Tasks

VARIABLES
  m_mutex,      \* the worker inside pickTask's critical section, or NoThread
  m_cond,       \* the workers asleep in pthread_cond_wait
  m_queue,      \* m_queue: the tasks nobody has picked
  m_taskCount,  \* m_taskCount: the count that taskCount() reports
  m_shutdown,   \* m_shutdown
  pc,           \* where each worker stands in run and pickTask
  task,         \* the local variable task of each worker
  owner,        \* where the owning thread stands in shutdown and ~ThreadPool
  destructing,  \* the owning thread is inside ~ThreadPool
  added,        \* the tasks handed to addTask so far
  executed,     \* how often the function of each task was called
  deleted       \* how often each task object was deleted

threadVars == <<m_mutex, m_cond, pc>>
queueVars == <<m_queue, m_taskCount>>
ownerVars == <<m_shutdown, owner, destructing>>
history == <<added, executed, deleted>>
vars == <<threadVars, queueVars, ownerVars, task, history>>

WorkerLabels == {"lock", "test", "wait", "asleep", "pop", "run", "delete", "exited"}
OwnerLabels == {"idle", "request", "join", "clear", "destroy", "gone"}

Free == m_mutex = NoThread

InQueue(t) == \E i \in 1 .. Len(m_queue) : m_queue[i] = t

(* ThreadPool::ThreadPool: the workers are started and head for pickTask. *)
Init ==
  /\ m_mutex = NoThread
  /\ m_cond = {}
  /\ m_queue = <<>>
  /\ m_taskCount = 0
  /\ m_shutdown = FALSE
  /\ pc = [w \in Workers |-> "lock"]
  /\ task = [w \in Workers |-> NoTask]
  /\ owner = "idle"
  /\ destructing = FALSE
  /\ added = {}
  /\ executed = [t \in Tasks |-> 0]
  /\ deleted = [t \in Tasks |-> 0]

Goto(w, label) == pc' = [pc EXCEPT ![w] = label]

-----------------------------------------------------------------------------
(* Faulty variants: definitions of the sections below with one programming  *)
(* error each.  Spec uses none of them; PROJECT.json pairs each one with    *)
(* the property that rejects it.                                            *)

(* PopTask that reads the front but forgets pop_front. *)
PopTaskKeepsFront(w) ==
  /\ pc[w] = "pop"
  /\ m_queue # <<>> /\ ~m_shutdown
  /\ task' = [task EXCEPT ![w] = Head(m_queue)]
  /\ m_mutex' = NoThread
  /\ Goto(w, "run")
  /\ UNCHANGED <<m_cond, queueVars, ownerVars, history>>

(* addTask that signals only when the queue was empty before. *)
SignalFirstOnly ==
  IF m_queue = <<>> /\ m_cond # {}
    THEN \E w \in m_cond : m_cond' = m_cond \ {w}
    ELSE UNCHANGED m_cond

(* addTask that does not signal. *)
SignalNobody == UNCHANGED m_cond

(* A while condition that does not mention m_shutdown. *)
MustWaitIgnoresShutdown == m_queue = <<>>

(* shutdown() that does not join the workers. *)
JoinNobody ==
  /\ owner = "join"
  /\ owner' = IF destructing THEN "clear" ELSE "idle"
  /\ UNCHANGED <<threadVars, queueVars, m_shutdown, destructing, task, history>>

(* ~ThreadPool that does not call clearTask(). *)
ClearNothing ==
  /\ owner = "clear"
  /\ owner' = "destroy"
  /\ UNCHANGED <<threadVars, queueVars, m_shutdown, destructing, task, history>>

-----------------------------------------------------------------------------
(* The worker threads.                                                      *)

(* MutexLocker locker(&m_mutex) at the start of pickTask. *)
LockQueue(w) ==
  /\ pc[w] = "lock"
  /\ Free
  /\ m_mutex' = w
  /\ Goto(w, "test")
  /\ UNCHANGED <<m_cond, queueVars, ownerVars, task, history>>

MustWait == m_queue = <<>> /\ ~m_shutdown

(* The condition of the while loop of pickTask. *)
TestQueue(w) ==
  /\ pc[w] = "test"
  /\ Goto(w, IF MustWait THEN "wait" ELSE "pop")
  /\ UNCHANGED <<m_mutex, m_cond, queueVars, ownerVars, task, history>>

(* pthread_cond_wait releases the mutex and falls asleep in one step. *)
WaitForTask(w) ==
  /\ pc[w] = "wait"
  /\ m_cond' = m_cond \union {w}
  /\ m_mutex' = NoThread
  /\ Goto(w, "asleep")
  /\ UNCHANGED <<queueVars, ownerVars, task, history>>

(* pthread_cond_wait may return without a signal. *)
WakeSpuriously(w) ==
  /\ w \in m_cond
  /\ m_cond' = m_cond \ {w}
  /\ UNCHANGED <<m_mutex, pc, queueVars, ownerVars, task, history>>

(* pthread_cond_wait returns only with the mutex held again, and the loop   *)
(* tests its condition once more.                                           *)
Relock(w) ==
  /\ pc[w] = "asleep"
  /\ w \notin m_cond
  /\ Free
  /\ m_mutex' = w
  /\ Goto(w, "test")
  /\ UNCHANGED <<m_cond, queueVars, ownerVars, task, history>>

(* The part of pickTask after the loop: take the first task unless the pool *)
(* is shutting down, refresh the count, unlock.                             *)
PopTask(w) ==
  /\ pc[w] = "pop"
  /\ m_queue # <<>> /\ ~m_shutdown
  /\ task' = [task EXCEPT ![w] = Head(m_queue)]
  /\ m_queue' = Tail(m_queue)
  /\ m_taskCount' = Len(m_queue')
  /\ m_mutex' = NoThread
  /\ Goto(w, "run")
  /\ UNCHANGED <<m_cond, ownerVars, history>>

(* Otherwise pickTask returns NULL, and run leaves its loop. *)
LeaveLoop(w) ==
  /\ pc[w] = "pop"
  /\ m_queue = <<>> \/ m_shutdown
  /\ m_taskCount' = Len(m_queue)
  /\ m_mutex' = NoThread
  /\ Goto(w, "exited")
  /\ UNCHANGED <<m_cond, m_queue, task, ownerVars, history>>

(* task->fun(task->arg).  run catches every exception, so the worker goes   *)
(* on to the delete whether the function returns or throws.                 *)
RunTask(w) ==
  /\ pc[w] = "run"
  /\ executed' = [executed EXCEPT ![task[w]] = @ + 1]
  /\ Goto(w, "delete")
  /\ UNCHANGED <<m_mutex, m_cond, queueVars, ownerVars, task, added, deleted>>

(* delete task; task = NULL; and back to pickTask. *)
DeleteTask(w) ==
  /\ pc[w] = "delete"
  /\ deleted' = [deleted EXCEPT ![task[w]] = @ + 1]
  /\ task' = [task EXCEPT ![w] = NoTask]
  /\ Goto(w, "lock")
  /\ UNCHANGED <<m_mutex, m_cond, queueVars, ownerVars, added, executed>>

-----------------------------------------------------------------------------
(* The public interface.                                                    *)

(* pthread_cond_signal: wakes a sleeper if there is one. *)
Signal ==
  \/ /\ m_cond = {}
     /\ UNCHANGED m_cond
  \/ \E w \in m_cond : m_cond' = m_cond \ {w}

AddTask(t, priority) ==
  /\ ~destructing
  /\ t \notin added
  /\ Free
  /\ added' = added \union {t}
  /\ m_queue' = IF priority THEN <<t>> \o m_queue ELSE Append(m_queue, t)
  /\ m_taskCount' = Len(m_queue')
  /\ Signal
  /\ UNCHANGED <<m_mutex, pc, ownerVars, task, executed, deleted>>

(* clearTask deletes every queued task object. *)
EmptyQueue ==
  /\ Free
  /\ deleted' = [t \in Tasks |-> IF InQueue(t) THEN deleted[t] + 1 ELSE deleted[t]]
  /\ m_queue' = <<>>
  /\ m_taskCount' = 0
  /\ UNCHANGED <<threadVars, m_shutdown, task, added, executed>>

ClearTask ==
  /\ ~destructing
  /\ EmptyQueue
  /\ UNCHANGED <<owner, destructing>>

(* shutdown() returns at once when the pool is already shut down. *)
CallShutdown ==
  /\ owner = "idle"
  /\ ~m_shutdown
  /\ owner' = "request"
  /\ UNCHANGED <<threadVars, queueVars, m_shutdown, destructing, task, history>>

(* ~ThreadPool calls shutdown(), then clearTask(). *)
CallDestructor ==
  /\ owner = "idle"
  /\ destructing' = TRUE
  /\ owner' = IF m_shutdown THEN "clear" ELSE "request"
  /\ UNCHANGED <<threadVars, queueVars, m_shutdown, task, history>>

(* pthread_cond_broadcast. *)
Broadcast == m_cond' = {}

(* The locked block of shutdown(): set the flag and wake every sleeper. *)
RequestShutdown ==
  /\ owner = "request"
  /\ Free
  /\ m_shutdown' = TRUE
  /\ Broadcast
  /\ owner' = "join"
  /\ UNCHANGED <<m_mutex, pc, queueVars, destructing, task, history>>

(* The pthread_join loop of shutdown(). *)
JoinWorkers ==
  /\ owner = "join"
  /\ \A w \in Workers : pc[w] = "exited"
  /\ owner' = IF destructing THEN "clear" ELSE "idle"
  /\ UNCHANGED <<threadVars, queueVars, m_shutdown, destructing, task, history>>

ClearInDestructor ==
  /\ owner = "clear"
  /\ EmptyQueue
  /\ owner' = "destroy"
  /\ UNCHANGED destructing

(* pthread_mutex_destroy and pthread_cond_destroy: the pool is gone. *)
DestroyPool ==
  /\ owner = "destroy"
  /\ owner' = "gone"
  /\ UNCHANGED <<threadVars, queueVars, m_shutdown, destructing, task, history>>

(* The program goes on without the pool. *)
Gone == owner = "gone" /\ UNCHANGED vars

-----------------------------------------------------------------------------
WorkerStep(w) ==
  \/ LockQueue(w) \/ TestQueue(w) \/ WaitForTask(w) \/ Relock(w)
  \/ PopTask(w) \/ LeaveLoop(w) \/ RunTask(w) \/ DeleteTask(w)

OwnerStep == RequestShutdown \/ JoinWorkers \/ ClearInDestructor \/ DestroyPool

Next ==
  \/ \E w \in Workers : WorkerStep(w) \/ WakeSpuriously(w)
  \/ \E t \in Tasks, priority \in BOOLEAN : AddTask(t, priority)
  \/ ClearTask
  \/ CallShutdown
  \/ CallDestructor
  \/ OwnerStep
  \/ Gone

Spec == Init /\ [][Next]_vars

(* The scheduler runs every thread that can run, and task functions return. *)
(* Nobody is obliged to call the public interface or to wake spuriously.    *)
FairSpec ==
  /\ Spec
  /\ \A w \in Workers : WF_vars(WorkerStep(w))
  /\ WF_vars(OwnerStep)
-----------------------------------------------------------------------------
TypeOK ==
  /\ m_mutex \in Workers \union {NoThread}
  /\ m_cond \in SUBSET Workers
  /\ m_queue \in Seq(Tasks)
  /\ m_taskCount \in Nat
  /\ m_shutdown \in BOOLEAN
  /\ pc \in [Workers -> WorkerLabels]
  /\ task \in [Workers -> Tasks \union {NoTask}]
  /\ owner \in OwnerLabels
  /\ destructing \in BOOLEAN
  /\ added \in SUBSET Tasks
  /\ executed \in [Tasks -> Nat]
  /\ deleted \in [Tasks -> Nat]

(* A worker that neither sleeps nor is busy with a task: it is on its way   *)
(* to the queue.                                                            *)
Alert(w) ==
  \/ pc[w] \in {"lock", "test", "pop"}
  \/ pc[w] = "asleep" /\ w \notin m_cond

AlertWorkers == {w \in Workers : Alert(w)}

(* No task is stuck behind busy workers while another worker sleeps: as     *)
(* long as somebody sleeps in pthread_cond_wait there is an alert worker    *)
(* for every queued task.  This is what the one signal per addTask has to   *)
(* achieve, whatever the interleaving of wake-ups, spurious wake-ups and    *)
(* workers that finish a task in between.                                   *)
WorkConserving == m_cond # {} => Len(m_queue) <= Cardinality(AlertWorkers)

(* The broadcast of shutdown() is not lost: once m_shutdown is set no       *)
(* worker sleeps or is about to sleep, so the joins can return.             *)
NoSleepAfterShutdown ==
  m_shutdown => m_cond = {} /\ \A w \in Workers : pc[w] # "wait"

(* Every task object has at most one holder, is run at most once and is     *)
(* deleted at most once, never while the queue or a worker still refers to  *)
(* it (pickTask, run and clearTask pass raw pointers around).               *)
TaskOwnership ==
  /\ \A i, j \in 1 .. Len(m_queue) : m_queue[i] = m_queue[j] => i = j
  /\ \A v, w \in Workers : task[v] = task[w] /\ task[v] # NoTask => v = w
  /\ \A w \in Workers : ~ InQueue(task[w])
  /\ \A t \in Tasks :
       /\ executed[t] <= 1
       /\ deleted[t] <= 1
       /\ InQueue(t) => executed[t] = 0 /\ deleted[t] = 0
       /\ (\E w \in Workers : task[w] = t) => deleted[t] = 0

(* When ~ThreadPool has returned, no thread is left that could touch the    *)
(* destroyed mutex, and every task object ever handed in has been freed     *)
(* exactly once, whether or not it was run.                                 *)
CleanTeardown ==
  owner = "gone" =>
    /\ \A w \in Workers : pc[w] = "exited"
    /\ m_cond = {} /\ m_queue = <<>>
    /\ \A t \in added : deleted[t] = 1

(* shutdown() is final: after m_shutdown no worker starts another task, and *)
(* a worker that left never comes back.                                     *)
NoStartAfterShutdown ==
  [][m_shutdown =>
       \A w \in Workers :
         /\ task[w] = NoTask => task'[w] = NoTask
         /\ pc[w] = "exited" => pc'[w] = "exited"]_vars

(* A queued task does not wait for ever: it is run, unless the queue is     *)
(* cleared or the pool shut down first.                                     *)
QueuedIsServed ==
  \A t \in Tasks : InQueue(t) ~> (executed[t] = 1 \/ deleted[t] = 1 \/ m_shutdown)

(* shutdown() returns and, in the destructor, the pool goes away. *)
ShutdownReturns == m_shutdown ~> (owner = "gone" \/ (owner = "idle" /\ ~destructing))

-----------------------------------------------------------------------------
(* The pool implements TaskExecutor. *)
Phase ==
  CASE owner = "gone" -> "gone"
    [] owner # "gone" /\ m_shutdown -> "closed"
    [] OTHER -> "open"

Executor == INSTANCE TaskExecutor
  WITH pending <- m_queue, running <- task, phase <- Phase

(* Tasks start in queue order with priority tasks in front, one per worker, *)
(* only while the pool is open: every step is a step of TaskExecutor.       *)
ImplementsExecutor == Executor!Spec
=============================================================================
