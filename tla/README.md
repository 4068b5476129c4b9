# Verification of LinuxNetworkDemo

LinuxNetworkDemo is a collection of small Linux programs that show one
facility of the system each: processes, signals, IPC, threads and locks,
sockets, and the select / poll / epoll servers. This directory holds TLA+
models of every program in which processes, threads, signals or a peer can meet,
TLC configurations that check them on small instances, and proofs that TLAPS
checks for every value of the constants.

Every definition is translated from the C++ source; `map` in `PROJECT.json`
gives the lines of each one. In prose, line numbers are of the repository at
this commit.

## 1. Inventory

### 9/superSvr: epoll server on a thread pool

| Part | State | Operations | Interaction |
|---|---|---|---|
| `ThreadPool` (`threadpool.cpp`) | `m_mutex`, `m_cond`, `m_queue`, `m_taskCount`, `m_shutdown`, the worker threads | constructor, `addTask`, `clearTask`, `shutdown`, destructor, `pickTask`, `run` | any thread adds tasks; workers run them and delete the task object |
| `EpollSvr` (`epollSvr.cpp`) | `m_newClientList`, `m_hasNewClient`, `m_spin`, `m_askForExit`, the interest list of the epoll instance | `start`, `stop`, `run_listen`, `run_epoll`, `addClientQuery` | the listening thread hands `ClientQuery` objects to the epoll thread; the epoll thread puts handlers into the pool |
| `ClientQuery` | socket, epoll registration | `init`, `doQuery`, `doQueryResponse` | a handler runs in a pool thread and re-arms the socket, or takes it out of epoll and closes it |

Hard: lost wake-ups of the pool; two workers in handlers of one client
(prevented by `EPOLLONESHOT`); descriptor numbers reused by `accept` the moment
a handler closes one; deletion of the queries at exit while handlers may run;
`stop()` against a listening thread blocked in `accept`. Correct means: each
task object is run at most once and freed exactly once; no worker sleeps while
a task waits; a connection is in one pair of hands and its number means its own
socket; a complete request is answered; stopping terminates.

### 9/superClient: epoll client

One thread opens `clientCount` connections and drives them through an
edge-triggered epoll instance: each is registered for output, `doWrite` sends
the request and registers it for input, `doRead` reads the reply and calls
`shutdown()`. State: the map of `QueryInfo`, the epoll instance with its ready
list, the flag of the SIGINT handler. Hard: an edge is reported once, so a reply
that comes between `send` and `EPOLL_CTL_MOD` must not be lost; the loop tests
`EPOLLOUT`, then `EPOLLIN`, and only then the branch that closes, which a
hung-up socket (readable and writable) never reaches, so nothing is closed
before SIGINT and every `shutdown()` makes a finished entry ready again. Correct
means: one request per connection, every reply read, everything closed at the
end.

### 9/ioMultiplexingDemo: three single-threaded servers

`main` accepts connections and passes a `clientInfo` to the worker chosen on
the command line: `SelectWorker`, `PollWorker` or `EpollWorker`, one thread each.
Shared: `m_addClientList` and `m_hasNewClient` under the spin lock `m_spin`, and
`m_askForExit`. A SIGINT handler calls `exit()`, whose static destructors stop
and join the worker. Hard: the same descriptor reuse as above, here with the
worker's own tables (`readfds`/`writefds`, `fdlst`/`cinfoMap`, `epoll_event::data`)
kept in step by hand; in `EpollWorker` the close depends on the `EPOLLHUP` that
the worker's own `shutdown()` provokes from an edge-triggered entry; an
uninitialised `tv_sec` in `SelectWorker`; SIGINT while `main` holds `m_spin`.
Correct means: one reply at most per client and not before its request; the
connection closed once, after the reply or the client's departure; no record
used after its delete; nobody forgotten; the program ends when told to.

### 4/threadDemo: a ticket office

`TicketWindow` threads sell tickets of a `TicketDB`. `main` puts tickets in and
wakes the windows through one broadcast (`TicketDB::addTicket`); a window first
waits in `waitPutTicket`, then buys in a loop until told to leave. The databases
differ in their lock: mutex, spin lock, rwlock, or an `std::atomic_bool` driven by
compare-exchange. Hard: two locks taken in opposite orders, the single
broadcast, a lock release through compare-exchange whose expected value a failed
turn overwrites. Correct means: tickets are neither lost nor sold twice, no
window sells before the release or sleeps through it, the sale ends.

### 7/tcpSvr, 7/tcpClient: a process per connection

The parent accepts and forks; the child receives, replies, shuts down, exits; a
SIGCHLD handler calls `wait()` until no child is left. The client forks twice per
connection so that the grandchild is adopted by init. Hard: merged SIGCHLDs,
`wait()` without `WNOHANG` inside a handler, fork failing at the process limit
(in the client, the process in the middle then goes on as a second launcher; in the
server, the connection stays open and takes a descriptor for good),
processes killed at any time. Correct means: no zombie stays, a connection is
handed from parent to child, one silent client holds up nobody it need not,
and each turn of the launcher starts its client.

### 4/*: processes, signals and IPC; 3/infosheet

| Program | State | Operations | Hard | Correct means |
|---|---|---|---|---|
| 4/createprocess, 4/forkDemo | children, a pending SIGCHLD, the handler | fork, vfork, system, exit, `wait` / `waitpid` | children end before, while and after the handler runs; the signal interrupts the fork loop | every child is reaped, every program ends |
| 4/signalDemo | three children, an alarm, one `pause()` | fork, `alarm`, handlers | all signals may come before the `pause()` | the program ends unless they all did |
| 4/msgSend, 4/msgRcv | one message queue for all runs | `msgsnd`, `wait`, the Exit message, `msgrcv` | several runs over one queue, a full queue, fork failing, kills | a run's Exit is behind its last message; nobody waits without need |
| 4/shmSvr, 4/shmClient | a segment and a semaphore under two keys | get, attach, write, `semop`, read, remove | the two keys are looked up in two calls, and a server removes both | what is read was written |
| 4/semDemo | one semaphore | SETVAL, post, timed wait, IPC_RMID | the post, the timeout and other runs on the same key | every run ends |
| 4/pipeDemo, 4/namedPipe* | who holds which end | pipe, fork, close, read, write; open of a FIFO | an end left open hides the death of its other holder | nobody waits for the dead |
| 3/infosheet | a file of records | append (`-w`), change through a mapping (`-m`), print | two calls for one append, several stores for one change | commands that do not meet do not damage each other |

### Not programs with state

| Program | Why it is not modelled |
|---|---|
| 3/readfile, 3/writefile | one pass of system calls: pure I/O |
| 2/* | hello world, a string length in static and shared libraries |
| 7/udpSvr, 7/udpClient | empty programs |

## 2. Modules

| Module | Models | State and steps |
|---|---|---|
| `TaskExecutor` | what a pool promises | tasks in line, task of each worker, open / closed / gone |
| `ThreadPool` | class `ThreadPool` | the pthread mutex (holder), condition variable (set of sleepers), queue, counters, a program counter per worker and one for the thread that owns the pool |
| `EpollSvr` | `EpollSvr` and `ClientQuery` | descriptor table, interest list, listening thread, epoll thread, handlers in the pool (an instance of `TaskExecutor`), the thread that calls `stop()`, the clients |
| `SuperClient` | 9/superClient | one program counter, sockets, `queryMap`, registrations, the ready list, the events returned; the server is the environment |
| `WorkerHost` | `main` of the multiplexing demo, `addClient`, SIGINT, sockets and clients | extended by the three below |
| `EpollWorker`, `PollWorker`, `SelectWorker` | `run` of each class | a program counter, the worker's tables, the events not yet handled |
| `ClientService` | what a server promises each client | refined by `IoServer` |
| `IoServer` | the whole program of 9/ioMultiplexingDemo | `ioMode` is the command line; the host and the worker it chose |
| `TicketOffice` | the office over the mutex, spin and rwlock databases | both locks, sleepers, `m_ticketCount`, program counters |
| `AtomicTicketOffice` | the office over `AtomicTicketDB` | every compare-exchange is a step, `m_now` is the expected value of each locker |
| `ForkServer` | tcpSvr | parent, SIGCHLD bit and handler, a child per connection |
| `DoubleFork` | the launcher of tcpClient | the launchers as a stack (whoever waits does nothing else), clients alive and started |
| `ChildProcesses` | createprocess, forkDemo, signalDemo | the program chosen, its main thread, children, pending SIGCHLD, handler, alarm |
| `ProcessDemos` | | `ForkServer`, `DoubleFork`, `ChildProcesses` side by side: a behaviour is one of them |
| `MessageQueue` | msgSend and its children, msgRcv | several runs over one bounded queue |
| `SharedMemory` | shmSvr, shmClient | ids each process holds, segments and semaphores made, what the keys name, the value, who was told |
| `SemaphoreDemo` | semDemo | parent and child of each run, the semaphore of the key |
| `Pipes` | pipeDemo, namedPipeSvr, namedPipeClient | holders of the ends, what is in the pipe, where each process stands |
| `InfoSheet` | infosheet `-w` and `-m` | the file as half records with their author, where each command stands |
| `IpcDemos` | | the five modules above side by side |
| `DataLemmas` | | lemmas on sequences without repetition and on sums of a function's values |
| `*_proofs` | | the proofs of section 5 |
| `MC*` | | instances for TLC |

Program counters carry the names of the calls they stand before. A step is
split where another thread, the kernel or a signal can get in between and the
difference can be seen; a critical section that never waits is one step that
needs its lock free. `addTask`, for instance, takes and releases `m_mutex` around
statements that touch nothing else, so it is one step (`AddTask`), while
`pickTask` is `LockQueue`, `TestQueue`, `WaitForTask`, `Relock`, `PopTask`.

The kernel is modelled as far as the code depends on it: a table from descriptor
numbers to sockets with "lowest free number" for `accept`, readiness of sockets,
one-shot and edge-triggered entries, condition variables that may wake without
a signal, one pending bit per signal, IPC objects that a key may stop to name. What a
client sent is "none", "length" (with perhaps a part of the message) or "full".
A definition that models only the kernel is marked external in the map.

Each module has a section of faulty variants: a handler with a plausible
programming error. No specification uses them. Each property of a passing run is
paired in `PROJECT.json` (`mutants`) with one variant that it rejects.

## 3. Runs

| Run | Instance | Shows |
|---|---|---|
| `pool` | 3 workers, 3 task objects | `WorkConserving`: one signal per `addTask` is enough; `NoSleepAfterShutdown`; `TaskOwnership`: no object run twice, freed twice or used after its delete; `CleanTeardown`; `ImplementsExecutor`; `QueuedIsServed` and `ShutdownReturns` |
| `svr_safety` | 2 clients, 2 numbers, 2 workers, symmetric | `OneAttendant`, `NoClientLost`, `OwnDescriptor`, `NoUseAfterDelete`, `ReplyFollowsRequest` |
| `svr_live` | 2 clients, 1 number, 1 worker | `RequestAnswered`, `StopReturns`; `accept` fails for want of a number. Descriptors are the only thing that runs out here |
| `superclient` | 3 connections, 2 events at a time | `OneRequest`; `RepliedOrCancelled`: no reply lost behind its one edge or starved by finished connections, and SIGINT closes everything |
| `io` | the program in its three modes, 2 clients, 2 numbers, any `tv_sec` | `OwnDescriptor`, `NoClientForgotten`, `ImplementsService`, `FinishedIsClosed`, `ExitUnlessLocked` |
| `iopoll_idle` | 1 client | violation: a client that has sent nothing yet is closed |
| `tickets` | 3 windows, 3 tickets | `TicketsConserved`; `ReleaseSeen`: no sale before the release, nobody sleeps through it; `SaleEnds` |
| `tickets_embrace` | 1 window, 2 tickets | violation: `addTicket` and `waitPutTicket` block each other |
| `atomic` | 3 windows, 2 tickets, symmetric | `ExclusiveUnlessIntruded`, `FlagNotLeaked`, `NoTicketLost` |
| `atomic_mutex` | 2 windows, 2 tickets | violation: two threads are inside the atomic lock |
| `procs` | tcpSvr: 3 clients, 2 children, 2 open connections; tcpClient: 4 turns, 3 to 5 processes; each demo of `ChildProcesses` | `NoZombieForgotten`, `HandedOver`, `RequestAnswered`, `BacklogMoves`; `ClientsCounted`; `ChildrenReaped`, `ProgramEnds` |
| `ipc` | 2 runs of msgSend with 2 children of 2 messages on a queue of 2; 2 servers and 2 clients of memory and FIFO; 3 runs of semDemo; 3 commands on 2 records | `ExitIsLast`, `MessagesEnd`; `ArrivedIsWritten`; `SemRunEnds`; `NobodyWaitsForTheDead`; `RecordsKept` |

`io`, `procs` and `ipc` check several programs in one run: a variable
(`ioMode`, `prog`, `demo`) fixed in the initial state, or by the first step,
says which one a behaviour is of. The programs share nothing but the scheduler,
so the states are the sum, not the product.

The bounds and why they are enough:

- Two clients are the least that can meet on one descriptor number, and two
  numbers let both be served at once; with `FDs = {1}` the second client always
  gets the number of the first. Nothing in the servers counts clients. More ready
  connections than `EPOLL_WAIT_MAX`, or more handlers than workers, come about in
  no run: that nobody is lost then is proved (`NobodyIsLost`), that everybody is
  answered is not shown. `svr_live` with two numbers takes about four minutes, and
  is left at one for that reason.
- Two workers may both want one `ClientQuery`. Three pool workers let a signal
  race with a worker that returns from another task while a third one sleeps; the
  proofs cover every number.
- Three connections of superClient and two events at a time: a finished pair can
  fill a whole answer of `epoll_wait` while the third one waits on the ready list.
- Three windows: addTicket enters over one, releases the lock of a second, and a
  third enters. Two tickets let an old count overwrite a newer one; two windows
  behind the test with the last ticket take the count below zero.
- Three clients of the forking server: one child exits, one keeps the handler
  waiting, one client stands in the backlog; or `fork` fails for two of them, which
  fills the parent's table (`MaxFiles`), and `accept` fails for the third.
- Four turns of the launcher with room for three to five processes: either fork
  fails at any depth, and a second launcher leaves a third.
- Two runs of msgSend: the receiver of one takes the Exit of the other. Its hundred
  children are reduced to two and the three messages of each to two
  (`Messages`), the least that has a message behind the first; the queue holds
  two so that it fills. Three runs of
  semDemo: one resets and one removes the semaphore of the third. Three commands
  on the sheet: two meet while a third, elsewhere, must not notice.

Apart from `Messages` and the sizes above the models have no artificial counter
bounds: connections, tasks, tickets and runs are used up, and the remaining loops
return to earlier states. Deadlock is not checked in runs of systems that may stop
(`CHECK_DEADLOCK FALSE`): every client may be gone, the program may have ended.
`pool` checks it, and allows a finished pool to stutter.

### What the violation runs show

- `tickets_embrace`: `addTicket` of the mutex (spin, rwlock) database calls
  `TicketDB::addTicket`, which takes `m_mutexCond`, with the database lock held;
  `waitPutTicket` takes them in the other order (`ticketWindow.cpp:17-19`).
- `atomic_mutex`: `compare_exchange_strong` overwrites `m_now` when it fails, so the
  second turn of the spinning `tryLock` (`atomicTicketDB.cpp:33`) succeeds on a lock
  that another thread holds. The passing run `atomic` shows what is left:
  exclusion until that happens, a flag that never stays set, no lost ticket. What
  is not left, too: `buyTicket` reads the count for its test and again to subtract
  (`atomicTicketDB.cpp:88`, `:91`), so two windows inside can sell the last ticket
  twice and take the count to -1.
- `iopoll_idle`: the loop of `PollWorker::run` also visits entries with
  `revents == 0`, and its last branch, commented as the one for errors, closes them.

### What passing properties exclude by name

In each of these the code does not have the property, so the property says so:

- `FinishedIsClosed` of `IoServer` excludes, in mode select, `StaleBit`: after an
  error of `recv` the descriptor is closed but stays in `readfds`, and while a
  client with a higher number is listed every `select` fails with `EBADF`; and a
  `tv_sec` other than the intended one, which is read uninitialised
  (`selectWorker.cpp:122`).
- `ExitUnlessLocked` excludes SIGINT while `main` is inside `addClient`: the
  handler's `exit()` joins a worker that spins for `m_spin` for ever.
- `ImplementsService` calls the program patient with silent clients only when the
  mode is not poll (`iopoll_idle`).
- `HandedOver` names the connections for which `fork` failed: `clientfd` stays
  open in the parent (`7/tcpSvr/main.cpp:269`).
- `BacklogMoves` excludes a child whose client owes it a message, for which `wait()`
  in the SIGCHLD handler holds up `accept`; and a parent whose descriptors are all
  taken by connections `fork` failed for: `accept` then returns -1 for ever
  (`7/tcpSvr/main.cpp:219`) and the loop is busy reporting it.
- `NoTicketLost` claims an exact account, and a count that is not negative, only
  until `addTicket` has entered over a taken lock.
- `ClientsCounted` counts what a failed inner fork duplicates: the process in the
  middle goes on with the loop (`7/tcpClient/main.cpp:93`).
- `ProgramEnds` excludes signalDemo with the alarm and every SIGCHLD before its
  `pause()`, which then never returns.
- `StopReturns` excludes a listening thread blocked in `accept()`.
- `NoClientLost` names the connections that doQuery shuts down on an error and
  nobody closes (`epollSvr.cpp:76`).
- `RequestAnswered` of `EpollSvr` excludes the case that every number is held by a
  client that never completes its message.
- `SaleEnds` excludes a window that reaches `waitPutTicket` after the last sale.
- `ArrivedIsWritten` excludes a semaphore that was moved for another segment: a
  server removes both objects between the two look-ups of another process.
- `RecordsKept` excludes the one record in which two commands met, or a command
  died between its stores, and everything once a write was cut short.
- `MessagesEnd` excludes a full queue nobody reads, and a receiver for whom no
  Exit is on its way.
- `RepliedOrCancelled` counts the socket of a failed `connect` as leaked; nothing
  is claimed to be closed before SIGINT, and the loop is busy until then.

Other behaviour of the code that no property is about: in `AtomicTicketOffice`, a
window whose `queryTicket` finds the lock taken reads -1 and sleeps after the
only broadcast, and behind an intrusion a destructor's exchange may fail again
each time other threads turn the flag, so no liveness is claimed there, not even
that the spinning ends; `shmat` returning -1 crashes its
caller ("crashed" in `SharedMemory`). Outside the models, the destructors of the
three workers destroy the spin lock before they join the thread that uses it
(`epollWorker.cpp:30`); the result of `pthread_create` is compared with -1, which
it never returns (`threadpool.cpp:45`); two threads that call `shutdown()` at once
both join (`threadpool.cpp:96`), but no program does.

## 4. Fairness

Weak fairness of each thread's or process's next step, never of a choice inside
it: the scheduler runs every thread that can run. A thread blocked in `accept`,
`recv`, `msgsnd`, `read`, `open`, on a lock or in a join has no enabled step, so
nothing is assumed of it. No fairness for starting a program, connecting,
sending, leaving, Ctrl-C, killing, `addTask` or spurious wake-ups: nobody has to
do these. Two assumptions are about the outside: a message whose first bytes
arrived arrives completely or the connection ends (`EpollSvr` and the three
workers, which wait for it in `recv(MSG_WAITALL)`), and an alarm that is set
rings, a timed wait times out. The first hides two behaviours of the code that no
property covers: a client that stops in the middle of a message holds up `stop()`
of the epoll server, and every other client of the single-threaded workers
(`pollWorker.cpp:149`). `ForkServer` does without the first: a client may
stay silent for ever. The spin locks get no fairness of their own; a waiting
thread competes only with critical sections of a few statements that end, and
those of the models are single steps or held by a fair thread. `QueuedIsServed`
rests on finitely many tasks: a stream of priority tasks may overtake for ever.

Several liveness properties have the form `[]<>(settled)`: from every state the
system comes to one in which everybody who may wait for something waits for what
the property names. It is stronger than a leads-to per process where a process
can be started again at any time, and it is cheaper to check.

## 5. Proofs

Each theorem below holds for every value of the constants that satisfies the
named assumptions of the module it is about: finite sets of connections,
descriptors or threads, and null values that are no element of the sets they
stand beside; in `IoServer`, that the null job is no event record.

`PoolAndClient_proofs` holds the proofs about `ThreadPool` and, in its second half,
those about `SuperClient`, whose specification is called `ClientSpec`. The theorems
about the programs of `ProcessDemos` and `IpcDemos` are about each program's own
specification; `EachDemoAlone` and `EachProgramAlone` carry them over to the
compositions that TLC runs.

| Module | Theorem | Statement |
|---|---|---|
| `PoolAndClient_proofs` | `PoolTypeCorrect` | `Spec => []TypeOK` |
| | `PoolWorkConserving` | while a worker sleeps there is an alert worker for every queued task |
| | `PoolNoSleepAfterShutdown` | no worker sleeps once `m_shutdown` is set and the broadcast is out |
| | `PoolTaskOwnership` | no object shared, run twice, freed twice or used after its delete |
| | `PoolCleanTeardown` | after the destructor: all workers gone, all objects freed once |
| | `PoolNoStartAfterShutdown` | the action property: shutdown is final |
| | `PoolImplementsExecutor` | `Spec => TaskExecutor!Spec` under the refinement mapping of `ThreadPool` |
| | `RequestsAreSingle` | superClient sends one request per connection, and takes no reply but to it |
| `EpollSvr_proofs` | `NoneDeletedInUse` | `stop()` deletes a `ClientQuery` only when no event, job or worker can reach it |
| | `ServerTypeCorrect` | `Spec => []TypeOK` |
| | `NeverTwoAttendants` | a connection is looked after in one place at most |
| | `DescriptorsAreOwn` | a handler's or entry's number denotes its own client's socket |
| | `ReplyOnceAfterRequest` | one reply at most, and not before the request or the client's end |
| | `NobodyIsLost` | while the server runs, a connection is attended, closed or given up after a reset |
| `TicketOffice_proofs` | `ReleaseIsSeen` | no sale before the release, and nobody sleeps through its one broadcast |
| | `TicketsAreConserved` | what the windows sold and what is left add up to what was put in |
| `AtomicTicketOffice_proofs` | `LockUnlessIntruded` | the atomic variable excludes until `addTicket` enters over a lock |
| | `FlagIsReleased` | the flag is clear whenever nobody is inside, intrusions or not |
| | `NoTicketIsLost` | over the atomic database as many tickets are sold as left it, all of them there; after an intrusion perhaps more, never fewer |
| `ProcessDemos_proofs` | `ZombiesAreReaped` | a zombie is about to be reaped, or a SIGCHLD is pending |
| | `ConnectionsHandedOver` | the parent keeps a connection only while it deals with it or when fork failed |
| | `NoZombieStays` | for each way of reaping, a child that exited is reaped or about to be |
| | `ClientsAreCounted` | each turn of the launcher is taken once, and once more per launcher that a failed fork left behind |
| | `EachDemoAlone` | the composition implements each of its three programs |
| `IpcDemos_proofs` | `ExitComesLast` | a run's Exit comes after everything its children posted |
| | `ArrivedDataIsWritten` | a server reads what was written, unless the semaphore was moved for another segment |
| | `RecordsAreKept` | commands that do not meet do not damage each other |
| | `EachProgramAlone` | the composition implements each of its programs |
| `IoServer_proofs` | `EachOwnDescriptor` | in every table, event and handler of the three workers a number means the client it was put there for |
| | `NoClientIsForgotten` | an open connection is held by `main`, queued, or listened to by the worker |
| | `ServiceImplemented` | `Spec => ImplementsService`: each client's life is one of `ClientService`, in all three modes |

### The inductive invariants

None of these is inductive alone.

- **ThreadPool.** `IInv` has three parts, each proved preserved with the earlier
  ones at hand. `ControlInv` ties program counters to shared state: the mutex has
  the one holder that is inside `pickTask` (`MutexInv`), sleepers stand at the
  wait (`CondInv`), a worker about to wait still has to, because it holds the
  mutex (`WaitInv`), a worker has a task exactly while it runs or deletes one
  (`TaskInv`), and how far the owner got (`OwnerInv`). `FateInv`: each task object
  is in exactly one stage of its life (never added, queued once, in the hands of
  one worker, freed), which needs that the queue has no repetition, hence
  `DataLemmas`. `WorkConserving` itself: `addTask` adds a task and wakes one
  sleeper, `PopTask` removes one of each.
- **EpollSvr, deletion.** `StopInv`: the epoll thread deletes last, a batch is
  empty outside the dispatch loop, and a pool that is gone holds nothing.
- **EpollSvr, places.** "One attendant" and "own descriptor" need each other: an
  event finds no second attendant because its entry was the only armed one, a
  number has one entry because it is not reused while anybody goes by it, and it
  is not reused because whoever goes by it is the only attendant of a connection
  that is still open. `PlaceInv` says both at once, over `ListInv` (the hand-over
  of the two lists under the spin lock), `FdInv` (what a number and an entry are
  worth) and `WorkInv` (no two events, jobs or workers share a connection).
- **EpollSvr, replies.** `ReplyInv` carries "no reply yet" and "the request was
  read or the client is gone" along the way from entry to event, job and handler.
- **EpollSvr, nobody lost.** A connection would be lost when an `epoll_ctl` call
  on its way fails, which the code only reports. `FateInv` says why none does:
  whoever is on a list has no entry yet, and whoever is being read has one until
  `close(epfd)`. The one exception is `doQuery`'s error path, and a worker gets
  there only behind a reset in the middle of a message.
- **TicketOffice.** `CondLock` and `CountLock` give each lock to the threads whose
  program counters are inside. `main` holds the lock of the database from the
  tickets to the broadcast, and a window between its test for tickets and its
  sleep holds `m_mutexCond`, which the broadcast needs.
- **Both offices, tickets.** `TicketsConserved` and `NoTicketLost` are sums over all
  windows. `DataLemmas` proves how such a sum changes when one value does
  (`SumFunctionChange`), although the sum is a fold: a smallest set for which the
  equation fails would, without one element, be a smaller one
  (`MinimalSubset`, `SumUnfold`). A sale then moves one ticket from the count to
  the sum because what a window read under the lock still holds when it writes;
  over the atomic database an intrusion breaks just that, and `SalesInv` keeps
  the inequalities that are left (`CountInv`, and `BuyerInv` for what a window has
  read and not yet written back). Before the tickets are put in nobody gets past
  the test, so `addTicket` overwrites no sale.
- **AtomicTicketOffice.** `TryInv`: a window about to try expects a clear flag, so
  only `main`, which repeats a failed exchange, can enter over a set one.
  `FlagInv`: until it does, a thread inside has set the flag and expects the value
  its release will find.
- **ForkServer, ChildProcesses.** `ParentInv`, `BacklogInv` and `KidInv` relate the
  parent's program counter to the pending SIGCHLD bit: a child that ends sets the
  bit unless the handler is still going to call `wait()` again.
- **DoubleFork.** `TreeShape`: in the stack of launchers each one but the top waits
  for the one above it, in the turn it forked it in. `TreeInv` is the
  account of each turn: clients started, launchers left behind and launchers
  still to take it (`Takers`) are one more than the launchers left behind in
  earlier turns (`Orphaned`).
- **MessageQueue.** `MsgInv` counts: what a child posted is what was received of it
  plus what is queued of it (`Count`), and behind a run's Exit nothing is counted,
  because its children had ended. The lemmas say how `Count` changes under
  `Append` and `Tail`.
- **SharedMemory.** `ShmInv`: a client gets to `semop` only with a segment it wrote,
  and a server that waits on the semaphore of the key set it to 1 itself, so a 0
  was made by such a client.
- **InfoSheet.** As long as no write was cut short, positions are even, so two
  commands are in one record or in none in common (`SheetPlaces`). `SheetRecords`
  adds that a `-w` still to write where another one wrote has met it, and that
  a `-m` between its stores finds its head or met who replaced it.
- **IoServer.** `HostInv` is what `main`, the kernel and the queue of new clients
  guarantee whatever the worker: a number in use belongs to one open socket, and a
  client that is accepted is in `main`'s hands, queued or the worker's.
  `EpInv`, `PoInv` and `SeInv` say of each place of the worker's program counter what its
  tables hold, and speak of a connection only through whether the host still
  holds it (`Holds`), the client waits for its request to be read (`Waiting`), the
  message is complete (`Complete`) or the connection has ended (`Broken`), so that
  one lemma (`HostMoves`) carries them over every step that is not the worker's.
  The refinement then reads each step as serving, answering or closing
  (`Serves`, `Answers`, `Closes`) or as a stutter.
- **SuperClient.** That the one send of a connection finds no second event for
  output needs that an answer of `epoll_wait` names it once, hence that the ready
  list does (`ListInv`), and that an entry stays registered for output only while
  nothing was sent (`RequestInv`). After SIGINT only `ReplyInv` and the types remain.

### Model-checked only

The liveness properties: liveness under fairness and `ENABLED` are outside what
TLAPS does here. Every safety invariant, action property and refinement that a
passing run checks is also a theorem. No module declares a RECURSIVE operator.

## 6. Abstractions

- Data is reduced to what the properties tell apart: lengths, buffers, addresses
  and printed lines do not occur.
- `recv` of the message fails only when nothing of it had arrived; a broken
  connection may or may not have delivered a part, so both outcomes are steps.
- The order in which the workers of the multiplexing demo go through their lists
  is arbitrary in the models; the code's order is one of them.
- `main` of the multiplexing demo constructs a `SelectWorker` whatever the mode
  (`9/ioMultiplexingDemo/main.cpp:78`); where it stays idle it is left out.
- The ready list of `SuperClient` is first in, first out, as in Linux.
- In `ForkServer` the two calls of `recv` are one step and so are shutdown, close
  and `_exit`: nobody else touches the socket of a child.
- A signal handler stays installed and `accept` is restarted behind it: `signal()`
  of glibc has BSD semantics. The comments of the programs expect it to be reset
  (`4/signalDemo/main.cpp:13`), and tcpSvr installs its handler again
  (`7/tcpSvr/main.cpp:144`), which then changes nothing. `ChildProcesses` and
  `ForkServer` rely on this.
- `accept` of the forking server fails only for want of a descriptor, before it
  takes a connection from the backlog, as in Linux. How many descriptors are left
  beside those always open is `MaxFiles`.
- `DoubleFork` kills nobody, and a client started is one step: what it sends is
  the business of `ForkServer`.
- A pending `semop` or timed wait is completed in the call that brings the value.
- Of `infosheet`, `-p` and `-r` only read and are left out.
- `do_exec` of createprocess replaces the child by another program and is left out.
- Failures of socket, bind, listen, `epoll_create`, `poll`, `pthread_create` and of
  memory allocation are left out.
- `run_epoll` and `buyTicket` end without a return; only the outcome of an
  unoptimised build is modelled.
- `printf` inside the signal handlers is not re-entrant; output is not modelled.

## 7. What is not modelled, and what is left

Code without a caller: `ThreadPool::getInstance`, `TicketDB::removeTicket`,
`getSem` of semDemo, `blockProSig` and `blockThreadSig` of signalDemo. Programs
without state that others could see: the last table of section 1. What lies
outside the models in the programs that are modelled is named at the end of
section 3 and in section 6.

Left for proofs: safety invariants of `SemaphoreDemo` and `Pipes`, of which only
liveness is stated so far.

## 8. Running

    tlc -config pool.cfg MCThreadPool.tla      # a run: module and cfg as in PROJECT.json
    tlapm PoolAndClient_proofs.tla             # the proofs
