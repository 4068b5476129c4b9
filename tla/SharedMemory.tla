---------------------------- MODULE SharedMemory ----------------------------
(***************************************************************************)
(* 4/shmSvr and 4/shmClient: the client fills a shared memory segment, the *)
(* server reads it, and a semaphore tells the server when.  Both find the  *)
(* two objects by their keys and create what is missing; the server removes*)
(* both at its end.  The programs are started by hand, as often as one     *)
(* likes, so a key may mean another object from one call to the next: ids  *)
(* count the objects made for a key.                                       *)
(*                                                                         *)
(* A segment that was removed can be attached as long as somebody is       *)
(* attached to it.  The server sets the semaphore to 1 and waits for 0;    *)
(* the client subtracts 1.  The kernel completes the operations that wait  *)
(* for a value in the call that brings it about.                           *)
(***************************************************************************)
EXTENDS Naturals, FiniteSets

CONSTANTS
  ShmServers,  \* the runs of shmSvr
  ShmClients   \* the runs of shmClient

ASSUME ShmAssumption ==
  IsFiniteSet(ShmServers) /\ IsFiniteSet(ShmClients) /\ ShmServers \intersect ShmClients = {}

VARIABLES
  shmPc,     \* where each process stands
  shmID,     \* the segment each process got for the key, or 0
  semID,     \* the semaphore each process got for the key, or 0
  shmMade, semMade,    \* how many objects were created
  shmLive, semLive,    \* the key names the last one created
  semval,    \* the value of the last semaphore
  filled,    \* the segments that were written to the end
  told       \* the servers whose wait for 0 was granted

shmVars == <<shmPc, shmID, semID, shmMade, semMade, shmLive, semLive, semval, filled, told>>

ShmProcs == ShmServers \union ShmClients

ShmInit ==
  /\ shmPc = [p \in ShmProcs |-> "off"]
  /\ shmID = [p \in ShmProcs |-> 0] /\ semID = [p \in ShmProcs |-> 0]
  /\ shmMade = 0 /\ semMade = 0
  /\ shmLive = FALSE /\ semLive = FALSE
  /\ semval = 0
  /\ filled = {} /\ told = {}

ShmGoto(p, label) == shmPc' = [shmPc EXCEPT ![p] = label]
ShmAt(p, label, next) == shmPc[p] = label /\ ShmGoto(p, next)
SegmentsSame == UNCHANGED <<shmID, shmMade, shmLive, filled>>
SemaphoreSame == UNCHANGED <<semID, semMade, semLive, semval, told>>

(* What a process can still use by the id it holds.                         *)
HasSem(p) == semLive /\ semID[p] = semMade
Attached(p) == shmPc[p] \in {"write", "read"}
HasShm(p) ==
  \/ shmLive /\ shmID[p] = shmMade
  \/ \E q \in ShmProcs : Attached(q) /\ shmID[q] = shmID[p]

(* The processes asleep in semop.                                           *)
Asleep(label) == {p \in ShmProcs : shmPc[p] = label /\ HasSem(p)}

-----------------------------------------------------------------------------
(* Faulty variants: definitions of the sections below with one programming  *)
(* error each.  ShmSpec uses none of them; PROJECT.json pairs each one with *)
(* the property that rejects it.                                            *)

(* The client subtracts before it writes. *)
AttachAndTell(p) ==
  /\ shmPc[p] = "attach" /\ HasShm(p) /\ HasSem(p)
  /\ semval = 1 /\ semval' = 0
  /\ shmPc' = [q \in ShmProcs |->
       IF q = p THEN "write" ELSE IF q \in Asleep("zero") THEN "look" ELSE shmPc[q]]
  /\ told' = told \union Asleep("zero")
  /\ UNCHANGED <<semID, semMade, semLive>> /\ SegmentsSame

-----------------------------------------------------------------------------
(* shmget and semget with IPC_CREAT; a new semaphore is 0.                  *)

GetShm(p) ==
  /\ ShmAt(p, "off", "getSem")
  /\ shmMade' = IF shmLive THEN shmMade ELSE shmMade + 1
  /\ shmLive' = TRUE
  /\ shmID' = [shmID EXCEPT ![p] = shmMade']
  /\ UNCHANGED filled /\ SemaphoreSame

GetSem(p) ==
  /\ ShmAt(p, "getSem", IF p \in ShmServers THEN "set" ELSE "attach")
  /\ semMade' = IF semLive THEN semMade ELSE semMade + 1
  /\ semLive' = TRUE
  /\ semval' = IF semLive THEN semval ELSE 0
  /\ semID' = [semID EXCEPT ![p] = semMade']
  /\ UNCHANGED told /\ SegmentsSame

-----------------------------------------------------------------------------
(* shmSvr. *)

(* SETVAL 1; a client that waits to subtract does so at once.  The call     *)
(* fails on a semaphore that is gone, and nobody looks.                     *)
SetSem(p) ==
  /\ shmPc[p] = "set"
  /\ \/ /\ ~ HasSem(p) /\ ShmGoto(p, "wait") /\ UNCHANGED <<semval, told>>
     \/ /\ HasSem(p) /\ Asleep("minus") = {}
        /\ ShmGoto(p, "wait") /\ semval' = 1 /\ UNCHANGED told
     \/ /\ HasSem(p) /\ semval' = 0
        /\ \E c \in Asleep("minus") :
             shmPc' = [q \in ShmProcs |->
               IF q = p THEN "wait" ELSE IF q = c THEN "ended"
               ELSE IF q \in Asleep("zero") THEN "look" ELSE shmPc[q]]
        /\ told' = told \union Asleep("zero")
  /\ UNCHANGED <<semID, semMade, semLive>> /\ SegmentsSame

(* semop 0: granted, asleep, or refused because the semaphore is gone.      *)
WaitForZero(p) ==
  /\ ShmAt(p, "wait", IF HasSem(p) /\ semval # 0 THEN "zero" ELSE "look")
  /\ told' = IF HasSem(p) /\ semval = 0 THEN told \union {p} ELSE told
  /\ UNCHANGED <<semID, semMade, semLive, semval>> /\ SegmentsSame

(* shmat.  Its error value passes the test for NULL, and the process dies   *)
(* of the access behind it.                                                 *)
AttachToRead(p) ==
  /\ ShmAt(p, "look", IF HasShm(p) THEN "read" ELSE "crashed")
  /\ SegmentsSame /\ SemaphoreSame

ReadAndDetach(p) ==
  /\ ShmAt(p, "read", "rmShm")
  /\ SegmentsSame /\ SemaphoreSame

RemoveShm(p) ==
  /\ ShmAt(p, "rmShm", "rmSem")
  /\ shmLive' = (shmLive /\ shmID[p] # shmMade)
  /\ UNCHANGED <<shmID, shmMade, filled>> /\ SemaphoreSame

(* Whoever waits on the semaphore is woken with an error and goes on.       *)
RemoveSem(p) ==
  /\ shmPc[p] = "rmSem"
  /\ shmPc' = [q \in ShmProcs |->
       IF q = p THEN "ended"
       ELSE IF ~ HasSem(p) THEN shmPc[q]
       ELSE IF q \in Asleep("zero") THEN "look"
       ELSE IF q \in Asleep("minus") THEN "ended" ELSE shmPc[q]]
  /\ semLive' = (semLive /\ semID[p] # semMade)
  /\ UNCHANGED <<semID, semMade, semval, told>> /\ SegmentsSame

ShmServerStep(p) ==
  SetSem(p) \/ WaitForZero(p) \/ AttachToRead(p) \/ ReadAndDetach(p) \/ RemoveShm(p) \/ RemoveSem(p)

-----------------------------------------------------------------------------
(* shmClient. *)

AttachToWrite(p) ==
  /\ ShmAt(p, "attach", IF HasShm(p) THEN "write" ELSE "crashed")
  /\ SegmentsSame /\ SemaphoreSame

WriteAndDetach(p) ==
  /\ ShmAt(p, "write", "sub")
  /\ filled' = filled \union {shmID[p]}
  /\ UNCHANGED <<shmID, shmMade, shmLive>> /\ SemaphoreSame

(* semop -1: the servers that wait for 0 are told at once.                  *)
SubtractOne(p) ==
  /\ shmPc[p] = "sub"
  /\ \/ ~ HasSem(p) /\ ShmGoto(p, "ended") /\ UNCHANGED <<semval, told>>
     \/ HasSem(p) /\ semval = 0 /\ ShmGoto(p, "minus") /\ UNCHANGED <<semval, told>>
     \/ /\ HasSem(p) /\ semval = 1
        /\ semval' = 0
        /\ shmPc' = [q \in ShmProcs |->
             IF q = p THEN "ended" ELSE IF q \in Asleep("zero") THEN "look" ELSE shmPc[q]]
        /\ told' = told \union Asleep("zero")
  /\ UNCHANGED <<semID, semMade, semLive>> /\ SegmentsSame

ShmClientStep(p) == AttachToWrite(p) \/ WriteAndDetach(p) \/ SubtractOne(p)

-----------------------------------------------------------------------------
ShmKill(p) ==
  /\ shmPc[p] \notin {"off", "ended", "crashed"} /\ ShmGoto(p, "ended")
  /\ SegmentsSame /\ SemaphoreSame

ShmStep(p) == GetSem(p) \/ (IF p \in ShmServers THEN ShmServerStep(p) ELSE ShmClientStep(p))

ShmNext == \E p \in ShmProcs : GetShm(p) \/ ShmStep(p) \/ ShmKill(p)

ShmSpec == ShmInit /\ [][ShmNext]_shmVars

-----------------------------------------------------------------------------
(* "100M data has arrived": when the semaphore told a server so, its        *)
(* segment was written to the end, unless the semaphore was moved for       *)
(* another segment: between the two calls that look up the keys, a server   *)
(* may remove both objects.                                                 *)
ArrivedIsWritten ==
  \A s \in ShmServers :
    shmPc[s] \in {"look", "read"} /\ s \in told =>
      \/ shmID[s] \in filled
      \/ \E c \in ShmClients : semID[c] = semID[s] /\ shmID[c] \in filled \ {shmID[s]}
=============================================================================
