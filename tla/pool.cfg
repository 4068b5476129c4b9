\* Three workers and three task objects, no symmetry: a signal may race with a
\* worker that comes back from another task, and two workers may sleep at once.
CONSTANTS
  Workers = {w1, w2, w3}
  Tasks = {t1, t2, t3}
  NoTask = NoTask
  NoThread = NoThread
SPECIFICATION FairSpec
INVARIANTS
  WorkConserving
  NoSleepAfterShutdown
  TaskOwnership
  CleanTeardown
PROPERTIES
  ImplementsExecutor
  QueuedIsServed
  ShutdownReturns
