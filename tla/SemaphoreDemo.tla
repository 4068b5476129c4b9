--------------------------- MODULE SemaphoreDemo ---------------------------
(***************************************************************************)
(* 4/semDemo: a parent posts a System V semaphore that its child waits for *)
(* with a timeout.  The semaphore belongs to a key, not to the process, so *)
(* two runs of the program at the same time work on one semaphore: each    *)
(* sets it to 0 at its start, takes the posts of the other, and removes it *)
(* at its end.  Ids count the semaphores made for the key.                 *)
(***************************************************************************)
EXTENDS Naturals, FiniteSets

CONSTANT SemRuns   \* the times semDemo is started

ASSUME SemAssumption == IsFiniteSet(SemRuns)

VARIABLES
  semParent,  \* where each parent stands
  semChild,   \* where its child stands
  keyID,      \* the semaphore each run got
  made,       \* how many semaphores were created
  alive,      \* the key names the last one
  val         \* its value

semVars == <<semParent, semChild, keyID, made, alive, val>>

SemInit ==
  /\ semParent = [r \in SemRuns |-> "off"]
  /\ semChild = [r \in SemRuns |-> "none"]
  /\ keyID = [r \in SemRuns |-> 0]
  /\ made = 0 /\ alive = FALSE /\ val = 0

Mine(r) == alive /\ keyID[r] = made
ParentAt(r, label, next) ==
  semParent[r] = label /\ semParent' = [semParent EXCEPT ![r] = next]
ChildAt(r, labels, next) ==
  semChild[r] \in labels /\ semChild' = [semChild EXCEPT ![r] = next]

-----------------------------------------------------------------------------
(* Faulty variants: definitions of the sections below with one programming  *)
(* error each.  SemSpec uses none of them; PROJECT.json pairs each one with *)
(* the property that rejects it.                                            *)

(* semop instead of semtimedop: the wait has no end of its own. *)
NoTimeout(r) == FALSE

-----------------------------------------------------------------------------
(* The parent: semget with IPC_CREAT, setSem 0, fork ...                    *)

SemGet(r) ==
  /\ ParentAt(r, "off", "set")
  /\ made' = IF alive THEN made ELSE made + 1
  /\ val' = IF alive THEN val ELSE 0
  /\ alive' = TRUE
  /\ keyID' = [keyID EXCEPT ![r] = made']
  /\ UNCHANGED <<semChild>>

SetSem0(r) ==
  /\ ParentAt(r, "set", "fork")
  /\ val' = IF Mine(r) THEN 0 ELSE val
  /\ UNCHANGED <<semChild, keyID, made, alive>>

SemFork(r) ==
  /\ \/ ParentAt(r, "fork", "add") /\ semChild' = [semChild EXCEPT ![r] = "sub"]
     \/ ParentAt(r, "fork", "ended") /\ UNCHANGED semChild
  /\ UNCHANGED <<keyID, made, alive, val>>

(* ... sleep, semAdd: lost when the semaphore is gone ...                   *)
SemAdd(r) ==
  /\ ParentAt(r, "add", "waitpid")
  /\ val' = IF Mine(r) THEN val + 1 ELSE val
  /\ UNCHANGED <<semChild, keyID, made, alive>>

(* ... waitpid, semDel: whoever waits gets an error.                        *)
WaitPid(r) ==
  /\ semChild[r] = "ended"
  /\ ParentAt(r, "waitpid", "del")
  /\ UNCHANGED <<semChild, keyID, made, alive, val>>

SemDel(r) ==
  /\ ParentAt(r, "del", "ended")
  /\ alive' = (alive /\ ~ Mine(r))
  /\ UNCHANGED <<semChild, keyID, made, val>>

ParentOf(r) == SetSem0(r) \/ SemFork(r) \/ SemAdd(r) \/ WaitPid(r) \/ SemDel(r)

-----------------------------------------------------------------------------
(* The child: semtimedop is granted, refused because the semaphore is gone, *)
(* or times out.                                                            *)

SemGranted(r) ==
  /\ Mine(r) /\ val > 0
  /\ ChildAt(r, {"sub"}, "ended")
  /\ val' = val - 1
  /\ UNCHANGED <<semParent, keyID, made, alive>>

SemRefused(r) ==
  /\ ~ Mine(r)
  /\ ChildAt(r, {"sub"}, "ended")
  /\ UNCHANGED <<semParent, keyID, made, alive, val>>

SemTimeout(r) ==
  /\ Mine(r) /\ val = 0
  /\ ChildAt(r, {"sub"}, "ended")
  /\ UNCHANGED <<semParent, keyID, made, alive, val>>

ChildOf(r) == SemGranted(r) \/ SemRefused(r) \/ SemTimeout(r)

SemKill(r) ==
  /\ \/ semParent[r] \notin {"off", "ended"} /\ ParentAt(r, semParent[r], "ended")
        /\ UNCHANGED semChild
     \/ ChildAt(r, {"sub"}, "ended") /\ UNCHANGED semParent
  /\ UNCHANGED <<keyID, made, alive, val>>

-----------------------------------------------------------------------------
SemNext == \E r \in SemRuns : SemGet(r) \/ ParentOf(r) \/ ChildOf(r) \/ SemKill(r)

SemSpec == SemInit /\ [][SemNext]_semVars

-----------------------------------------------------------------------------
(* Every run ends, although the post its child waits for may be wiped out   *)
(* by the reset of another run, taken by its child, or never come.          *)
SemRunEnds ==
  []<>(\A r \in SemRuns : semParent[r] \in {"off", "ended"} /\ semChild[r] \in {"none", "ended"})
=============================================================================
