---------------------------- MODULE TaskExecutor ----------------------------
(***************************************************************************)
(* What the thread pool of 9/superSvr promises its callers, without locks, *)
(* condition variables or counters: tasks wait in a line, an idle worker   *)
(* takes the first of the line while the pool is open, a worker holds at   *)
(* most one task, and nothing waits or runs once the pool is gone.         *)
(* ThreadPool implements this module; EpollSvr is built on it.             *)
(***************************************************************************)
EXTENDS Sequences

CONSTANTS
  Workers,   \* the worker threads
  Tasks,     \* what can be handed to the pool
  NoTask     \* a worker that holds nothing

VARIABLES
  pending,   \* the line of tasks nobody has started
  running,   \* the task each worker holds, or NoTask
  phase      \* "open", "closed" (no task starts any more) or "gone"

execVars == <<pending, running, phase>>

Init ==
  /\ pending = <<>>
  /\ running = [w \in Workers |-> NoTask]
  /\ phase = "open"

(* A task joins the end of the line or, with priority, its front.  A closed *)
(* pool still accepts tasks: they stay in line until they are discarded.    *)
Submit(t, priority) ==
  /\ phase # "gone"
  /\ pending' = IF priority THEN <<t>> \o pending ELSE Append(pending, t)
  /\ UNCHANGED <<running, phase>>

(* Only an open pool starts tasks, and only the first of the line. *)
Begin(w) ==
  /\ phase = "open"
  /\ running[w] = NoTask
  /\ pending # <<>>
  /\ running' = [running EXCEPT ![w] = Head(pending)]
  /\ pending' = Tail(pending)
  /\ UNCHANGED phase

Finish(w) ==
  /\ running[w] # NoTask
  /\ running' = [running EXCEPT ![w] = NoTask]
  /\ UNCHANGED <<pending, phase>>

Discard ==
  /\ phase # "gone"
  /\ pending' = <<>>
  /\ UNCHANGED <<running, phase>>

Close ==
  /\ phase = "open"
  /\ phase' = "closed"
  /\ UNCHANGED <<pending, running>>

(* The pool disappears only when no task waits or runs. *)
Vanish ==
  /\ phase = "closed"
  /\ pending = <<>>
  /\ \A w \in Workers : running[w] = NoTask
  /\ phase' = "gone"
  /\ UNCHANGED <<pending, running>>

Next ==
  \/ \E t \in Tasks, priority \in BOOLEAN : Submit(t, priority)
  \/ \E w \in Workers : Begin(w) \/ Finish(w)
  \/ Discard
  \/ Close
  \/ Vanish

Spec == Init /\ [][Next]_execVars
=============================================================================
