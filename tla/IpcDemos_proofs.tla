--------------------------- MODULE IpcDemos_proofs ---------------------------
(***************************************************************************)
(* Safety of the demos of communication between processes, for any number  *)
(* of processes, runs and messages.                                        *)
(*                                                                         *)
(* Shared memory: the data has arrived when a server says so               *)
(* (ArrivedIsWritten).  What carries it: a client reaches semop only with  *)
(* a segment it wrote to the end (the "sub" and "minus" conjunct of        *)
(* ShmInv), a server waits for 0 only behind its own SETVAL, and a         *)
(* semaphore that is looked up again after its removal is a new one.       *)
(*                                                                         *)
(* Message queue: an Exit is the last message of its run (ExitIsLast).     *)
(* What carries it is the conservation of messages, posted = received +    *)
(* queued for each child, and that no child runs once wait() has failed.   *)
(*                                                                         *)
(* Record file: commands that do not overlap do not damage each other      *)
(* (RecordsKept).  What carries it: positions are even, two commands that  *)
(* write behind one position have met once both are through, and a -m      *)
(* between its stores finds its head, unless it met who replaced it.       *)
(***************************************************************************)
EXTENDS IpcDemos, DataLemmas

-----------------------------------------------------------------------------
(* 4/shmSvr and 4/shmClient.                                                *)

(* Some client that got semaphore k wrote its segment. *)
Written(k) == \E c \in ShmClients : semID[c] = k /\ shmID[c] \in filled

(* The labels of a server and of a client between the look-up and the end. *)
ServerLabels == {"set", "wait", "zero", "look", "read", "rmShm", "rmSem"}
ClientLabels == {"attach", "write", "sub", "minus"}

(* The semaphore is counted down by clients that are through with their     *)
(* segment only, so once a server set it to 1, a 0 means that one was.      *)
ShmInv ==
  /\ shmPc \in [ShmProcs -> {"off", "getSem", "ended", "crashed"} \union ServerLabels \union ClientLabels]
  /\ shmID \in [ShmProcs -> Nat] /\ semID \in [ShmProcs -> Nat]
  /\ semMade \in Nat /\ shmMade \in Nat /\ semval \in {0, 1}
  /\ semLive \in BOOLEAN /\ shmLive \in BOOLEAN
  /\ semLive => semMade # 0
  /\ \A p \in ShmProcs : semID[p] <= semMade
  /\ \A p \in ShmServers : shmPc[p] \notin ClientLabels
  /\ \A c \in ShmClients : shmPc[c] \notin ServerLabels
  /\ \A p \in ShmProcs : shmPc[p] \in {"off", "getSem"} => semID[p] = 0
  /\ \A p \in ShmProcs : shmPc[p] \in ServerLabels \union ClientLabels => semID[p] # 0
  /\ \A c \in ShmClients : shmPc[c] \in {"sub", "minus"} => shmID[c] \in filled
  /\ \A s \in ShmServers : shmPc[s] \in {"wait", "zero"} /\ HasSem(s) /\ semval = 0 => Written(semMade)
  /\ \A s \in ShmServers \intersect told : semID[s] # 0 /\ Written(semID[s])

(* What was written stays written, and the client stays with its ids.       *)
LEMMA WrittenStays ==
  ASSUME ShmInv, ShmNext, NEW k \in Nat \ {0}, Written(k) PROVE Written(k)'
<1>1. PICK c \in ShmClients : semID[c] = k /\ shmID[c] \in filled
  BY DEF Written
<1>2. c \in ShmProcs /\ shmPc[c] \notin {"off", "getSem"}
  BY <1>1 DEF ShmInv, ShmProcs
<1>3. semID'[c] = semID[c] /\ shmID'[c] = shmID[c] /\ filled \subseteq filled'
  BY <1>2 DEF ShmNext, GetShm, ShmStep, GetSem, ShmServerStep, SetSem, WaitForZero, AttachToRead, ReadAndDetach,
     RemoveShm, RemoveSem, ShmClientStep, AttachToWrite, WriteAndDetach, SubtractOne, ShmKill, ShmAt,
     SegmentsSame, SemaphoreSame, ShmInv
<1> QED BY <1>1, <1>3 DEF Written

(* The look-up of the keys. *)
LEMMA LookUp == ASSUME ShmInv, NEW p \in ShmProcs, GetShm(p) \/ GetSem(p) PROVE ShmInv'
<1>1. \A k \in Nat \ {0} : Written(k) => Written(k)'
  BY WrittenStays DEF ShmNext, ShmStep
<1>2. CASE GetShm(p)
  <2>1. /\ shmPc[p] = "off" /\ shmPc' = [shmPc EXCEPT ![p] = "getSem"]
        /\ shmMade' \in Nat /\ shmLive' \in BOOLEAN
        /\ shmID' = [shmID EXCEPT ![p] = shmMade']
        /\ UNCHANGED <<filled, semID, semMade, semLive, semval, told>>
    BY <1>2 DEF GetShm, ShmAt, ShmGoto, SemaphoreSame, ShmInv
  <2>2. /\ \A q \in ShmProcs : shmPc'[q] = IF q = p THEN "getSem" ELSE shmPc[q]
        /\ \A q \in ShmProcs : q # p => shmID'[q] = shmID[q]
    BY <2>1 DEF ShmInv
  <2>3. \A q \in ShmProcs : HasSem(q)' <=> HasSem(q)
    BY <2>1 DEF HasSem
  <2> QED BY <1>1, <2>1, <2>2, <2>3 DEF ShmInv, ShmProcs, ServerLabels, ClientLabels
<1>3. CASE GetSem(p)
  <2>1. /\ shmPc[p] = "getSem"
        /\ shmPc' = [shmPc EXCEPT ![p] = IF p \in ShmServers THEN "set" ELSE "attach"]
        /\ semMade' = IF semLive THEN semMade ELSE semMade + 1
        /\ semLive' = TRUE
        /\ semval' = IF semLive THEN semval ELSE 0
        /\ semID' = [semID EXCEPT ![p] = semMade']
        /\ UNCHANGED <<told, shmID, shmMade, shmLive, filled>>
    BY <1>3 DEF GetSem, ShmAt, ShmGoto, SegmentsSame
  <2>2. /\ \A q \in ShmProcs : shmPc'[q] = IF q # p THEN shmPc[q]
                                 ELSE IF p \in ShmServers THEN "set" ELSE "attach"
        /\ \A q \in ShmProcs : semID'[q] = IF q = p THEN semMade' ELSE semID[q]
        /\ semMade' \in Nat \ {0} /\ semMade <= semMade'
        /\ ~ semLive => semMade' > semMade
    BY <2>1 DEF ShmInv
  <2>3. ASSUME NEW q \in ShmProcs, q # p, HasSem(q)' PROVE HasSem(q) /\ semMade' = semMade /\ semval' = semval
    BY <2>1, <2>2, <2>3 DEF HasSem, ShmInv
  <2>4. ASSUME NEW s \in ShmServers, shmPc'[s] \in {"wait", "zero"}, HasSem(s)', semval' = 0
        PROVE  Written(semMade)'
    <3>1. s \in ShmProcs /\ s # p /\ shmPc[s] \in {"wait", "zero"}
      BY <2>2, <2>4 DEF ShmProcs
    <3>2. Written(semMade) /\ semMade' = semMade /\ semMade # 0
      BY <2>3, <2>4, <3>1 DEF ShmInv, HasSem
    <3> QED BY <1>1, <3>2 DEF ShmInv, Written
  <2>5. ASSUME NEW s \in ShmServers \intersect told' PROVE semID'[s] # 0 /\ Written(semID[s])'
    <3>1. s \in ShmProcs /\ semID[s] # 0 /\ Written(semID[s]) /\ semID[s] \in Nat
      BY <2>1, <2>5 DEF ShmInv, ShmProcs
    <3>2. s # p
      BY <2>1, <3>1 DEF ShmInv
    <3> QED BY <1>1, <2>2, <3>1, <3>2 DEF Written
  <2>6. semID' \in [ShmProcs -> Nat]
    BY <2>1, <2>2 DEF ShmInv
  <2>7. \A q \in ShmProcs : semID'[q] <= semMade'
    BY <2>2 DEF ShmInv
  <2> QED BY <2>1, <2>2, <2>4, <2>5, <2>6, <2>7, ShmAssumption DEF ShmInv, ShmProcs, ServerLabels, ClientLabels
<1> QED BY <1>2, <1>3

(* The calls that touch neither ids nor the semaphore: a client is through  *)
(* with its segment before it goes on to subtract.                          *)
LEMMA SegmentStep ==
  ASSUME ShmInv, NEW p \in ShmProcs,
         \/ p \in ShmServers /\ (AttachToRead(p) \/ ReadAndDetach(p) \/ RemoveShm(p))
         \/ p \in ShmClients /\ (AttachToWrite(p) \/ WriteAndDetach(p))
         \/ ShmKill(p)
  PROVE  ShmInv'
<1>1. /\ UNCHANGED <<shmID, shmMade, semID, semMade, semLive, semval, told>>
      /\ shmLive' \in BOOLEAN /\ filled \subseteq filled'
  BY DEF AttachToRead, ReadAndDetach, RemoveShm, AttachToWrite, WriteAndDetach, ShmKill, SegmentsSame,
     SemaphoreSame, ShmInv
<1>2. \A k : Written(k) => Written(k)'
  BY <1>1 DEF Written
<1>3. \A q \in ShmProcs : HasSem(q)' <=> HasSem(q)
  BY <1>1 DEF HasSem
<1>4. /\ \A q \in ShmProcs : q # p => shmPc'[q] = shmPc[q]
      /\ \/ p \in ShmServers /\ shmPc'[p] \in {"read", "crashed", "rmShm", "rmSem"} /\ shmPc[p] \in ServerLabels
         \/ p \in ShmClients /\ shmPc'[p] \in {"write", "crashed"} /\ shmPc[p] \in ClientLabels
         \/ p \in ShmClients /\ shmPc'[p] = "sub" /\ shmPc[p] \in ClientLabels /\ shmID[p] \in filled'
         \/ shmPc'[p] = "ended"
      /\ DOMAIN shmPc' = ShmProcs /\ shmPc' = [q \in ShmProcs |-> shmPc'[q]]
  BY DEF AttachToRead, ReadAndDetach, RemoveShm, AttachToWrite, WriteAndDetach, ShmKill, ShmAt, ShmGoto,
     ShmInv, ServerLabels, ClientLabels
<1>5. shmPc' \in [ShmProcs -> {"off", "getSem", "ended", "crashed"} \union ServerLabels \union ClientLabels]
  BY <1>4 DEF ShmInv, ServerLabels, ClientLabels
<1> QED BY <1>1, <1>2, <1>3, <1>4, <1>5, ShmAssumption DEF ShmInv, ShmProcs, ServerLabels, ClientLabels

(* A process that is asleep in semop is a client if it waits to subtract,   *)
(* and a server if it waits for 0.                                          *)
LEMMA Sleepers ==
  ASSUME ShmInv
  PROVE  /\ Asleep("minus") \subseteq {c \in ShmClients : shmID[c] \in filled /\ semID[c] = semMade}
         /\ Asleep("zero") \subseteq {s \in ShmServers : semID[s] = semMade /\ semID[s] # 0}
  BY DEF Asleep, ShmInv, ShmProcs, ServerLabels, ClientLabels, HasSem

(* The semaphore becomes 0 at the hands of a client that wrote, and tells   *)
(* the servers.                                                             *)
LEMMA CountDown ==
  ASSUME ShmInv, NEW p \in ShmProcs, NEW c \in ShmClients, shmPc[c] \in {"sub", "minus"}, HasSem(c),
         UNCHANGED <<shmID, shmMade, shmLive, filled, semID, semMade, semLive>>,
         semval' = 0, told' = told \union Asleep("zero"),
         shmPc' \in [ShmProcs -> {"off", "getSem", "ended", "crashed"} \union ServerLabels \union ClientLabels],
         \A q \in ShmProcs :
           \/ shmPc'[q] = shmPc[q] \/ shmPc'[q] = "ended"
           \/ q \in ShmServers /\ shmPc'[q] \in {"wait", "look"} /\ shmPc[q] \in ServerLabels
  PROVE  ShmInv'
<1>1. \A k : Written(k)' <=> Written(k)
  BY DEF Written
<1>2. semMade # 0 /\ Written(semMade)
  BY DEF ShmInv, Written, HasSem, ClientLabels, ShmProcs
<1>3. \A s \in ShmServers \intersect told' : semID[s] # 0 /\ Written(semID[s])
  BY <1>2, Sleepers DEF ShmInv
<1> QED BY <1>1, <1>2, <1>3, ShmAssumption DEF ShmInv, ShmProcs, ServerLabels, ClientLabels, HasSem

(* The calls on the semaphore. *)
LEMMA SemaphoreStep ==
  ASSUME ShmInv, NEW p \in ShmProcs,
         \/ p \in ShmServers /\ (SetSem(p) \/ WaitForZero(p) \/ RemoveSem(p))
         \/ p \in ShmClients /\ SubtractOne(p)
  PROVE  ShmInv'
<1> USE DEF ServerLabels, ClientLabels
<1>1. CASE p \in ShmServers /\ SetSem(p)
  <2>0. /\ shmPc[p] = "set"
        /\ UNCHANGED <<shmID, shmMade, shmLive, filled, semID, semMade, semLive>>
    BY <1>1 DEF SetSem, SegmentsSame
  <2>1. CASE /\ ~ HasSem(p) /\ shmPc' = [shmPc EXCEPT ![p] = "wait"] /\ UNCHANGED <<semval, told>>
    <3>1. \A q \in ShmProcs : shmPc'[q] = IF q = p THEN "wait" ELSE shmPc[q]
      BY <2>1 DEF ShmInv
    <3>2. ~ HasSem(p)' /\ \A k : Written(k)' <=> Written(k)
      BY <2>0, <2>1 DEF HasSem, Written
    <3> QED BY <1>1, <2>0, <2>1, <3>1, <3>2, ShmAssumption DEF ShmInv, ShmProcs, HasSem
  <2>2. CASE /\ HasSem(p) /\ shmPc' = [shmPc EXCEPT ![p] = "wait"] /\ semval' = 1 /\ told' = told
    <3>1. \A q \in ShmProcs : shmPc'[q] = IF q = p THEN "wait" ELSE shmPc[q]
      BY <2>2 DEF ShmInv
    <3>2. \A k : Written(k)' <=> Written(k)
      BY <2>0 DEF Written
    <3> QED BY <1>1, <2>0, <2>2, <3>1, <3>2, ShmAssumption DEF ShmInv, ShmProcs
  <2>3. ASSUME NEW c \in Asleep("minus"), HasSem(p), semval' = 0, told' = told \union Asleep("zero"),
               shmPc' = [q \in ShmProcs |->
                 IF q = p THEN "wait" ELSE IF q = c THEN "ended"
                 ELSE IF q \in Asleep("zero") THEN "look" ELSE shmPc[q]]
        PROVE  ShmInv'
    <3>1. c \in ShmClients /\ shmPc[c] = "minus" /\ HasSem(c) /\ Asleep("zero") \subseteq ShmServers
      BY Sleepers DEF Asleep
    <3>2. \A q \in Asleep("zero") : shmPc[q] = "zero"
      BY DEF Asleep
    <3>3. shmPc' \in [ShmProcs -> {"off", "getSem", "ended", "crashed"} \union ServerLabels \union ClientLabels]
      BY <2>3 DEF ShmInv
    <3> QED BY <1>1, <2>0, <2>3, <3>1, <3>2, <3>3, CountDown
  <2> QED BY <1>1, <2>1, <2>2, <2>3 DEF SetSem, ShmGoto
<1>2. CASE p \in ShmServers /\ WaitForZero(p)
  <2>1. /\ shmPc[p] = "wait"
        /\ \A q \in ShmProcs : shmPc'[q] = IF q # p THEN shmPc[q]
                                 ELSE IF HasSem(p) /\ semval # 0 THEN "zero" ELSE "look"
        /\ shmPc' \in [ShmProcs -> {"off", "getSem", "ended", "crashed"} \union ServerLabels \union ClientLabels]
        /\ told' = IF HasSem(p) /\ semval = 0 THEN told \union {p} ELSE told
        /\ UNCHANGED <<shmID, shmMade, shmLive, filled, semID, semMade, semLive, semval>>
    BY <1>2 DEF WaitForZero, ShmAt, ShmGoto, ShmInv, SegmentsSame
  <2>2. HasSem(p) /\ semval = 0 => Written(semID[p]) /\ semID[p] # 0
    BY <1>2, <2>1 DEF ShmInv, HasSem, ShmProcs
  <2>3. \A k : Written(k)' <=> Written(k)
    BY <2>1 DEF Written
  <2>4. \A q \in ShmProcs : HasSem(q)' <=> HasSem(q)
    BY <2>1 DEF HasSem
  <2>5. \A s \in ShmServers \intersect told' : semID[s] # 0 /\ Written(semID[s])
    BY <2>1, <2>2 DEF ShmInv
  <2>6. \A s \in ShmServers : shmPc'[s] \in {"wait", "zero"} => shmPc[s] \in {"wait", "zero"}
    BY <2>1 DEF ShmProcs
  <2> QED BY <1>2, <2>1, <2>3, <2>4, <2>5, <2>6, ShmAssumption DEF ShmInv, ShmProcs
<1>3. CASE p \in ShmServers /\ RemoveSem(p)
  <2>1. /\ \A q \in ShmProcs :
             \/ shmPc'[q] = shmPc[q] \/ shmPc'[q] = "ended"
             \/ q \in Asleep("zero") /\ shmPc'[q] = "look"
        /\ shmPc' \in [ShmProcs -> {"off", "getSem", "ended", "crashed"} \union ServerLabels \union ClientLabels]
        /\ semLive' = (semLive /\ semID[p] # semMade)
        /\ UNCHANGED <<shmID, shmMade, shmLive, filled, semID, semMade, semval, told>>
    BY <1>3 DEF RemoveSem, ShmInv, SegmentsSame
  <2>2. \A q \in Asleep("zero") : q \in ShmServers /\ semID[q] # 0
    BY Sleepers
  <2>3. \A k : Written(k)' <=> Written(k)
    BY <2>1 DEF Written
  <2>4. \A q \in ShmProcs : HasSem(q)' => HasSem(q)
    BY <2>1 DEF HasSem, ShmInv
  <2>5. semLive' \in BOOLEAN /\ (semLive' => semLive)
    BY <2>1 DEF ShmInv
  <2> QED BY <1>3, <2>1, <2>2, <2>3, <2>4, <2>5, ShmAssumption DEF ShmInv, ShmProcs
<1>4. CASE p \in ShmClients /\ SubtractOne(p)
  <2>0. /\ shmPc[p] = "sub"
        /\ UNCHANGED <<shmID, shmMade, shmLive, filled, semID, semMade, semLive>>
    BY <1>4 DEF SubtractOne, SegmentsSame
  <2>1. CASE \E l \in {"ended", "minus"} : shmPc' = [shmPc EXCEPT ![p] = l] /\ UNCHANGED <<semval, told>>
    <3>1. /\ \A q \in ShmProcs : shmPc'[q] = shmPc[q] \/ (q = p /\ shmPc'[q] \in {"ended", "minus"})
          /\ shmPc' \in [ShmProcs -> {"off", "getSem", "ended", "crashed"} \union ServerLabels \union ClientLabels]
      BY <2>1 DEF ShmInv
    <3>2. \A k : Written(k)' <=> Written(k)
      BY <2>0 DEF Written
    <3>3. \A q \in ShmProcs : HasSem(q)' <=> HasSem(q)
      BY <2>0 DEF HasSem
    <3> QED BY <1>4, <2>0, <2>1, <3>1, <3>2, <3>3, ShmAssumption DEF ShmInv, ShmProcs
  <2>2. CASE /\ HasSem(p) /\ semval' = 0
             /\ shmPc' = [q \in ShmProcs |->
                  IF q = p THEN "ended" ELSE IF q \in Asleep("zero") THEN "look" ELSE shmPc[q]]
             /\ told' = told \union Asleep("zero")
    <3>1. \A q \in Asleep("zero") : shmPc[q] = "zero" /\ q \in ShmServers
      BY Sleepers DEF Asleep
    <3>2. shmPc' \in [ShmProcs -> {"off", "getSem", "ended", "crashed"} \union ServerLabels \union ClientLabels]
      BY <2>2 DEF ShmInv
    <3> QED BY <1>4, <2>0, <2>2, <3>1, <3>2, CountDown
  <2> QED BY <1>4, <2>1, <2>2 DEF SubtractOne, ShmGoto
<1> QED BY <1>1, <1>2, <1>3, <1>4

(* shmSvr, "100M data has arrived": a server that the semaphore told so     *)
(* reads a segment that was written to the end, or the semaphore was moved  *)
(* for another segment.                                                     *)
THEOREM ArrivedDataIsWritten == ShmSpec => []ArrivedIsWritten
<1>1. ShmInit => ShmInv
  <2> SUFFICES ASSUME ShmInit PROVE ShmInv
    OBVIOUS
  <2>1. \A p \in ShmProcs : shmPc[p] = "off" /\ semID[p] = 0
    BY DEF ShmInit
  <2>2. ShmServers \subseteq ShmProcs /\ ShmClients \subseteq ShmProcs
    BY DEF ShmProcs
  <2>3. /\ shmPc \in [ShmProcs -> {"off"}] /\ shmID \in [ShmProcs -> Nat] /\ semID \in [ShmProcs -> Nat]
        /\ semMade = 0 /\ shmMade = 0 /\ semval = 0 /\ ~ semLive /\ ~ shmLive /\ told = {}
        /\ semLive \in BOOLEAN /\ shmLive \in BOOLEAN
    BY DEF ShmInit
  <2> QED BY <2>1, <2>2, <2>3 DEF ShmInv, ServerLabels, ClientLabels
<1>2. ShmInv /\ [ShmNext]_shmVars => ShmInv'
  <2> SUFFICES ASSUME ShmInv, [ShmNext]_shmVars PROVE ShmInv'
    OBVIOUS
  <2>1. CASE ShmNext
    <3>1. PICK p \in ShmProcs : GetShm(p) \/ ShmStep(p) \/ ShmKill(p)
      BY <2>1 DEF ShmNext
    <3>2. p \in ShmServers \/ (p \in ShmClients /\ p \notin ShmServers)
      BY DEF ShmProcs
    <3> QED BY <3>1, <3>2, LookUp, SegmentStep, SemaphoreStep DEF ShmStep, ShmServerStep, ShmClientStep
  <2>2. CASE UNCHANGED shmVars
    BY <2>2 DEF shmVars, ShmInv, HasSem, Written
  <2> QED BY <2>1, <2>2
<1>3. ShmInv => ArrivedIsWritten
  <2> SUFFICES ASSUME ShmInv, NEW s \in ShmServers, s \in told
               PROVE  \/ shmID[s] \in filled
                      \/ \E c \in ShmClients : semID[c] = semID[s] /\ shmID[c] \in filled \ {shmID[s]}
    BY DEF ArrivedIsWritten
  <2> QED BY DEF ShmInv, Written
<1> QED BY <1>1, <1>2, <1>3, PTL DEF ShmSpec

-----------------------------------------------------------------------------
(* 4/msgSend and 4/msgRcv.                                                  *)

(* How many of the first n messages of the queue q are of s. *)
Count(q, n, s) == Cardinality({k \in 1 .. n : q[k].of = s})

(* The messages there are. *)
Letters == {Exit(r) : r \in Runs} \union {Message(s, n) : s \in Slots, n \in Nat \ {0}}

(* No message is lost or doubled: what a child posted was taken from the    *)
(* queue or is in it.                                                       *)
MsgInv ==
  /\ sender \in [Runs -> {"off", "fork", "wait", "exit", "done", "killed"}]
  /\ turn \in [Runs -> Nat]
  /\ poster \in [Slots -> {"none", "runs", "ended", "killed"}]
  /\ posted \in [Slots -> Nat] /\ received \in [Slots -> Nat]
  /\ msq \in Seq(Letters)
  /\ dismissed \subseteq Runs
  /\ \A s \in Slots : sender[s[1]] \in {"off", "fork"} /\ turn[s[1]] <= s[2] => poster[s] = "none"
  /\ \A s \in Slots : /\ poster[s] = "none" => posted[s] = 0
                      /\ poster[s] = "runs" => posted[s] < Messages
                      /\ poster[s] = "ended" => posted[s] = Messages
  /\ \A s \in Slots : sender[s[1]] \in {"exit", "done"} => poster[s] # "runs"
  /\ \A s \in Slots : received[s] + Count(msq, Len(msq), s) = posted[s]
  /\ \A r \in dismissed : sender[r] = "done" /\ \A s \in ChildrenOf(r) : received[s] = posted[s]
  /\ \A r \in Runs : \A k \in 1 .. Len(msq) : msq[k] = Exit(r) =>
       sender[r] = "done" /\ \A s \in ChildrenOf(r) : received[s] + Count(msq, k - 1, s) = posted[s]

(* Counting in an empty prefix and in a longer one. *)
LEMMA CountPrefix ==
  ASSUME NEW q, NEW s, NEW n \in Nat
  PROVE  /\ Count(q, 0, s) = 0
         /\ Count(q, n, s) \in Nat
         /\ Count(q, n + 1, s) = Count(q, n, s) + IF q[n + 1].of = s THEN 1 ELSE 0
<1> DEFINE A == {k \in 1 .. n : q[k].of = s}
           B == {k \in 1 .. n + 1 : q[k].of = s}
<1>1. IsFiniteSet(1 .. n)
  BY FS_Interval
<1>2. IsFiniteSet(A)
  BY <1>1, FS_Subset
<1>3. n + 1 \notin A /\ B = IF q[n + 1].of = s THEN A \union {n + 1} ELSE A
  OBVIOUS
<1>4. {k \in 1 .. 0 : q[k].of = s} = {}
  OBVIOUS
<1>5. Cardinality(A) \in Nat
  BY <1>2, FS_CardinalityType
<1>6. Cardinality(A \union {n + 1}) = Cardinality(A) + 1
  BY <1>2, <1>3, FS_AddElement
<1> HIDE DEF A, B
<1>7. Cardinality(B) = Cardinality(A) + IF q[n + 1].of = s THEN 1 ELSE 0
  BY <1>3, <1>5, <1>6
<1> QED BY <1>4, <1>5, <1>7, FS_EmptySet DEF A, B, Count

(* Two queues that agree on a prefix. *)
LEMMA CountSame ==
  ASSUME NEW p, NEW q, NEW s, NEW n \in Nat, \A k \in 1 .. n : p[k] = q[k]
  PROVE  Count(p, n, s) = Count(q, n, s)
<1>1. {k \in 1 .. n : p[k].of = s} = {k \in 1 .. n : q[k].of = s}
  OBVIOUS
<1> QED BY <1>1 DEF Count

(* Counting behind the first message. *)
LEMMA CountTail ==
  ASSUME NEW p, NEW q, NEW s, NEW n \in Nat, \A k \in 1 .. n : p[k] = q[k + 1]
  PROVE  Count(q, n + 1, s) = Count(p, n, s) + IF q[1].of = s THEN 1 ELSE 0
<1> DEFINE A == {k \in 1 .. n : p[k].of = s}
           B == {k \in 1 .. n + 1 : q[k].of = s}
           f == [k \in A |-> k + 1]
<1>1. IsFiniteSet(A) /\ IsFiniteSet(B)
  <2>1. IsFiniteSet(1 .. n) /\ IsFiniteSet(1 .. n + 1)
    BY FS_Interval
  <2> QED BY <2>1, FS_Subset
<1>2. f \in Bijection(A, B \ {1})
  <2>1. \A k \in A : k + 1 \in B \ {1}
    OBVIOUS
  <2>2. \A j \in B \ {1} : j - 1 \in A /\ f[j - 1] = j
    <3> SUFFICES ASSUME NEW j \in B \ {1} PROVE j - 1 \in A /\ f[j - 1] = j
      OBVIOUS
    <3>1. j \in Nat /\ j - 1 \in 1 .. n /\ (j - 1) + 1 = j
      OBVIOUS
    <3>2. p[j - 1] = q[j]
      BY <3>1
    <3> QED BY <3>1, <3>2
  <2>3. \A j, k \in A : f[j] = f[k] => j = k
    OBVIOUS
  <2>4. f \in [A -> B \ {1}]
    BY <2>1
  <2> QED BY <2>2, <2>3, <2>4 DEF Bijection, Injection, Surjection, IsInjective
<1> HIDE DEF f
<1>3. Cardinality(B \ {1}) = Cardinality(A)
  BY <1>1, <1>2, FS_Bijection DEF ExistsBijection
<1>4. Cardinality(B \ {1}) = IF 1 \in B THEN Cardinality(B) - 1 ELSE Cardinality(B)
  BY <1>1, FS_RemoveElement
<1>5. 1 \in B <=> q[1].of = s
  OBVIOUS
<1>6. Cardinality(A) \in Nat /\ Cardinality(B) \in Nat
  BY <1>1, FS_CardinalityType
<1> HIDE DEF A, B
<1>7. Cardinality(B) = Cardinality(A) + IF q[1].of = s THEN 1 ELSE 0
  BY <1>3, <1>4, <1>5, <1>6
<1> QED BY <1>7 DEF A, B, Count

(* An Exit is told from a message of a child by its type. *)
LEMMA LetterKinds ==
  ASSUME NEW m \in Letters
  PROVE  /\ m.mtype = 0 => \E r \in Runs : m = Exit(r) /\ m.of[1] = r /\ m.of \notin Slots
         /\ m.mtype # 0 => m.of \in Slots /\ \A r \in Runs : m # Exit(r)
<1>1. ASSUME NEW r \in Runs, m = Exit(r)
      PROVE  m.mtype = 0 /\ m.of[1] = r /\ m.of \notin Slots
  BY <1>1 DEF Exit, Slots
<1>2. ASSUME NEW s \in Slots, NEW n \in Nat \ {0}, m = Message(s, n)
      PROVE  m.mtype # 0 /\ m.of = s
  BY <1>2 DEF Message
<1> QED BY <1>1, <1>2 DEF Letters

(* The steps that neither post nor receive. *)
LEMMA QuietStep ==
  ASSUME MsgInv,
         \/ \E r \in Runs : StartSender(r) \/ ForkPoster(r) \/ WaitForPosters(r) \/ KillSender(r)
         \/ \E s \in Slots : KillPoster(s)
         \/ StartReceiver \/ KillReceiver
  PROVE  MsgInv'
<1> USE MsgAssumption
<1>1. /\ sender \in [Runs -> {"off", "fork", "wait", "exit", "done", "killed"}]
      /\ poster \in [Slots -> {"none", "runs", "ended", "killed"}]
      /\ turn \in [Runs -> Nat]
  BY DEF MsgInv
<1>2. UNCHANGED <<posted, msq, received, dismissed>>
  BY DEF StartSender, ForkPoster, WaitForPosters, KillSender, KillPoster, StartReceiver, KillReceiver
<1>3. \A s \in Slots : s[1] \in Runs /\ s[2] \in 1 .. Children /\ s = <<s[1], s[2]>>
  BY DEF Slots
<1>4. \A n, s : Count(msq, n, s)' = Count(msq, n, s)
  BY <1>2 DEF Count
<1> DEFINE Goal ==
        /\ sender' \in [Runs -> {"off", "fork", "wait", "exit", "done", "killed"}]
        /\ poster' \in [Slots -> {"none", "runs", "ended", "killed"}]
        /\ turn' \in [Runs -> Nat]
        /\ \A r \in Runs : sender[r] = "done" => sender'[r] = "done"
        /\ \A s \in Slots : sender'[s[1]] \in {"off", "fork"} /\ turn'[s[1]] <= s[2] => poster'[s] = "none"
        /\ \A s \in Slots : poster'[s] = poster[s] \/ (poster[s] = "none" /\ poster'[s] = "runs") \/ poster'[s] = "killed"
        /\ \A s \in Slots : sender'[s[1]] \in {"exit", "done"} => poster'[s] # "runs"
<1>5. Goal
  <2>1. ASSUME NEW r \in Runs, ForkPoster(r) PROVE Goal
    <3>1. /\ sender[r] = "fork"
          /\ turn' = [turn EXCEPT ![r] = turn[r] + 1]
          /\ sender' = [sender EXCEPT ![r] = IF turn[r] = Children THEN "wait" ELSE "fork"]
          /\ poster' \in {poster, [poster EXCEPT ![<<r, turn[r]>>] = "runs"]}
      BY <2>1 DEF ForkPoster, SendGoto
    <3>2. \A s \in Slots : s[1] = r /\ turn[r] <= s[2] => poster[s] = "none"
      BY <3>1 DEF MsgInv
    <3>3. \A s \in Slots : poster'[s] = poster[s] \/ (s[1] = r /\ s[2] = turn[r] /\ poster'[s] = "runs")
      BY <1>1, <1>3, <3>1
    <3>4. poster' \in [Slots -> {"none", "runs", "ended", "killed"}]
      BY <1>1, <3>1
    <3>5. sender' \in [Runs -> {"off", "fork", "wait", "exit", "done", "killed"}] /\ turn' \in [Runs -> Nat]
      BY <1>1, <3>1
    <3>6. /\ \A q \in Runs : q # r => sender'[q] = sender[q] /\ turn'[q] = turn[q]
          /\ turn'[r] = turn[r] + 1 /\ turn[r] \in Nat
          /\ sender'[r] \in {"wait", "fork"}
      BY <1>1, <3>1
    <3>7. ASSUME NEW s \in Slots
          PROVE  /\ sender'[s[1]] \in {"off", "fork"} /\ turn'[s[1]] <= s[2] => poster'[s] = "none"
                 /\ poster'[s] = poster[s] \/ (poster[s] = "none" /\ poster'[s] = "runs")
                 /\ sender'[s[1]] \in {"exit", "done"} => poster'[s] # "runs"
      <4>1. s[1] \in Runs /\ s[2] \in Nat
        BY <1>3
      <4>2. CASE s[1] = r
        BY <3>1, <3>2, <3>3, <3>6, <4>1, <4>2
      <4>3. CASE s[1] # r
        BY <3>3, <3>6, <4>1, <4>3 DEF MsgInv
      <4> QED BY <4>2, <4>3
    <3> QED BY <3>1, <3>4, <3>5, <3>6, <3>7
  <2>2. ASSUME NEW r \in Runs, WaitForPosters(r) PROVE Goal
    <3>1. \A s \in Slots : s[1] = r => poster[s] # "runs"
      BY <2>2 DEF WaitForPosters, Running, ChildrenOf
    <3>2. sender[r] = "wait" /\ sender' = [sender EXCEPT ![r] = "exit"] /\ UNCHANGED <<turn, poster>>
      BY <2>2 DEF WaitForPosters, SendGoto
    <3> QED BY <1>1, <1>3, <3>1, <3>2 DEF MsgInv
  <2>3. ASSUME NEW r \in Runs, StartSender(r) \/ KillSender(r) PROVE Goal
    <3>1. /\ \/ sender[r] = "off" /\ sender' = [sender EXCEPT ![r] = "fork"]
             \/ sender[r] \in {"fork", "wait", "exit"} /\ sender' = [sender EXCEPT ![r] = "killed"]
          /\ UNCHANGED <<turn, poster>>
      BY <2>3 DEF StartSender, KillSender, SendGoto
    <3>2. /\ sender' \in [Runs -> {"off", "fork", "wait", "exit", "done", "killed"}]
          /\ \A q \in Runs : sender'[q] \in {sender[q], "killed"} \/ (sender[q] = "off" /\ sender'[q] = "fork")
          /\ sender[r] # "done" /\ \A q \in Runs : q # r => sender'[q] = sender[q]
      BY <1>1, <3>1
    <3>3. ASSUME NEW s \in Slots
          PROVE  /\ sender'[s[1]] \in {"off", "fork"} /\ turn'[s[1]] <= s[2] => poster'[s] = "none"
                 /\ sender'[s[1]] \in {"exit", "done"} => poster'[s] # "runs"
      BY <1>3, <3>1, <3>2 DEF MsgInv
    <3> QED BY <1>1, <3>1, <3>2, <3>3
  <2>4. ASSUME NEW s \in Slots, KillPoster(s) PROVE Goal
    <3>1. poster[s] = "runs" /\ poster' = [poster EXCEPT ![s] = "killed"] /\ UNCHANGED <<turn, sender>>
      BY <2>4 DEF KillPoster
    <3> QED BY <1>1, <1>3, <3>1 DEF MsgInv
  <2>5. CASE StartReceiver \/ KillReceiver
    BY <1>1, <2>5 DEF StartReceiver, KillReceiver, MsgInv
  <2> QED BY <2>1, <2>2, <2>3, <2>4, <2>5
<1>6. \A s \in Slots : /\ poster'[s] = "none" => posted'[s] = 0
                       /\ poster'[s] = "runs" => posted'[s] < Messages
                       /\ poster'[s] = "ended" => posted'[s] = Messages
  BY <1>2, <1>5 DEF MsgInv
<1> QED BY <1>2, <1>4, <1>5, <1>6 DEF MsgInv

(* The Exit comes behind everything its children posted. *)
LEMMA ExitStep == ASSUME MsgInv, NEW r \in Runs, PostExit(r) PROVE MsgInv'
<1>1. /\ sender[r] = "exit" /\ sender' = [sender EXCEPT ![r] = "done"]
      /\ msq' = Append(msq, Exit(r))
      /\ UNCHANGED <<turn, poster, posted, receiver, received, dismissed>>
  BY DEF PostExit, SendGoto, Put
<1>2. /\ sender \in [Runs -> {"off", "fork", "wait", "exit", "done", "killed"}] /\ msq \in Seq(Letters)
      /\ Exit(r) \in Letters
  BY DEF MsgInv, Letters
<1>3. /\ sender' \in [Runs -> {"off", "fork", "wait", "exit", "done", "killed"}]
      /\ \A q \in Runs : sender'[q] = IF q = r THEN "done" ELSE sender[q]
  BY <1>1, <1>2
<1>4. /\ Len(msq) \in Nat /\ msq' \in Seq(Letters) /\ Len(msq') = Len(msq) + 1
      /\ \A k \in 1 .. Len(msq) : msq'[k] = msq[k]
      /\ msq'[Len(msq) + 1] = Exit(r)
  BY <1>1, <1>2, AppendProperties, LenProperties
<1>5. \A s, k : k \in 0 .. Len(msq) => Count(msq', k, s) = Count(msq, k, s)
  BY <1>4, CountSame
<1>6. \A s \in Slots : s[1] \in Runs /\ s # <<r, 0>>
  BY MsgAssumption DEF Slots
<1>7. \A s \in Slots : Count(msq', Len(msq'), s) = Count(msq, Len(msq), s)
  <2> SUFFICES ASSUME NEW s \in Slots PROVE Count(msq', Len(msq) + 1, s) = Count(msq, Len(msq), s)
    BY <1>4
  <2>1. Exit(r).of # s
    BY <1>6 DEF Exit
  <2>2. /\ Count(msq', Len(msq) + 1, s) = Count(msq', Len(msq), s) + IF msq'[Len(msq) + 1].of = s THEN 1 ELSE 0
        /\ Count(msq', Len(msq), s) \in Nat
    BY <1>4, CountPrefix
  <2> QED BY <1>4, <1>5, <2>1, <2>2
<1>8. ASSUME NEW q \in Runs, NEW k \in 1 .. Len(msq'), msq'[k] = Exit(q)
      PROVE  sender'[q] = "done" /\ \A s \in ChildrenOf(q) : received'[s] + Count(msq', k - 1, s) = posted'[s]
  <2>1. CASE k \in 1 .. Len(msq)
    <3>1. k - 1 \in 0 .. Len(msq) /\ msq[k] = Exit(q)
      BY <1>4, <1>8, <2>1
    <3> QED BY <1>1, <1>3, <1>5, <2>1, <3>1 DEF MsgInv
  <2>2. CASE k = Len(msq) + 1
    <3>1. q = r /\ k - 1 = Len(msq)
      BY <1>4, <1>8, <2>2 DEF Exit
    <3>2. \A s \in ChildrenOf(r) : s \in Slots
      BY DEF ChildrenOf
    <3>3. \A s \in ChildrenOf(r) : received[s] + Count(msq, Len(msq), s) = posted[s]
      BY <3>2 DEF MsgInv
    <3>4. \A s : Count(msq', Len(msq), s) = Count(msq, Len(msq), s)
      BY <1>4, <1>5
    <3> QED BY <1>1, <1>3, <3>1, <3>3, <3>4
  <2> QED BY <1>4, <2>1, <2>2
<1>9. \A s \in Slots : /\ sender'[s[1]] \in {"off", "fork"} /\ turn[s[1]] <= s[2] => poster[s] = "none"
                       /\ sender'[s[1]] \in {"exit", "done"} => poster[s] # "runs"
  BY <1>1, <1>3, <1>6 DEF MsgInv
<1>10. \A q \in dismissed : sender'[q] = "done" /\ \A s \in ChildrenOf(q) : received[s] = posted[s]
  BY <1>3 DEF MsgInv
<1> QED BY <1>1, <1>3, <1>4, <1>7, <1>8, <1>9, <1>10 DEF MsgInv

(* A child that posts belongs to a run whose Exit is still to come. *)
LEMMA PostStep == ASSUME MsgInv, NEW c \in Slots, Post(c) PROVE MsgInv'
<1> DEFINE m == Message(c, posted[c] + 1)
<1>1. /\ poster[c] = "runs" /\ msq' = Append(msq, m)
      /\ posted' = [posted EXCEPT ![c] = @ + 1]
      /\ poster' = [poster EXCEPT ![c] = IF posted[c] + 1 = Messages THEN "ended" ELSE "runs"]
      /\ UNCHANGED <<sender, turn, receiver, received, dismissed>>
  BY DEF Post, Put
<1>2. /\ poster \in [Slots -> {"none", "runs", "ended", "killed"}] /\ posted \in [Slots -> Nat]
      /\ received \in [Slots -> Nat] /\ msq \in Seq(Letters) /\ m \in Letters /\ m.of = c
      /\ \A r \in Runs : m # Exit(r)
  BY DEF MsgInv, Letters, Message, Exit
<1> HIDE DEF m
<1>3. /\ poster' \in [Slots -> {"none", "runs", "ended", "killed"}] /\ posted' \in [Slots -> Nat]
      /\ \A s \in Slots : posted'[s] = (IF s = c THEN posted[s] + 1 ELSE posted[s])
      /\ \A s \in Slots : s # c => poster'[s] = poster[s]
      /\ poster'[c] = IF posted'[c] = Messages THEN "ended" ELSE "runs"
      /\ posted'[c] <= Messages
  BY <1>1, <1>2, MsgAssumption DEF MsgInv
<1>4. /\ Len(msq) \in Nat /\ msq' \in Seq(Letters) /\ Len(msq') = Len(msq) + 1
      /\ \A k \in 1 .. Len(msq) : msq'[k] = msq[k]
      /\ msq'[Len(msq) + 1] = m
  BY <1>1, <1>2, AppendProperties, LenProperties
<1>5. \A s, k : k \in 0 .. Len(msq) => Count(msq', k, s) = Count(msq, k, s)
  BY <1>4, CountSame
<1>6. c[1] \in Runs /\ sender[c[1]] \notin {"exit", "done"}
  BY <1>1 DEF MsgInv, Slots
<1>7. ASSUME NEW s \in Slots PROVE received[s] + Count(msq', Len(msq'), s) = posted'[s]
  <2>1. /\ Count(msq', Len(msq) + 1, s) = Count(msq', Len(msq), s) + IF msq'[Len(msq) + 1].of = s THEN 1 ELSE 0
        /\ Count(msq', Len(msq), s) \in Nat
    BY <1>4, CountPrefix
  <2>2. received[s] + Count(msq, Len(msq), s) = posted[s] /\ received[s] \in Nat /\ posted[s] \in Nat
    BY <1>2 DEF MsgInv
  <2>3. Count(msq', Len(msq), s) = Count(msq, Len(msq), s)
    BY <1>4, <1>5
  <2>4. Count(msq', Len(msq'), s) = Count(msq, Len(msq), s) + IF s = c THEN 1 ELSE 0
    BY <1>2, <1>4, <2>1, <2>3
  <2>5. Count(msq, Len(msq), s) \in Nat
    BY <2>1, <2>3
  <2> QED BY <1>3, <2>2, <2>4, <2>5
<1>8. ASSUME NEW q \in Runs, sender[q] = "done", NEW s \in ChildrenOf(q) PROVE s \in Slots /\ posted'[s] = posted[s]
  BY <1>3, <1>6, <1>8 DEF ChildrenOf
<1>9. ASSUME NEW q \in Runs, NEW k \in 1 .. Len(msq'), msq'[k] = Exit(q)
      PROVE  sender[q] = "done" /\ \A s \in ChildrenOf(q) : received[s] + Count(msq', k - 1, s) = posted'[s]
  <2>1. k # Len(msq) + 1
    BY <1>2, <1>4, <1>9
  <2>2. k \in 1 .. Len(msq) /\ k - 1 \in 0 .. Len(msq)
    BY <1>4, <2>1
  <2>3. msq[k] = Exit(q)
    BY <1>4, <1>9, <2>2
  <2>4. sender[q] = "done" /\ \A s \in ChildrenOf(q) : received[s] + Count(msq, k - 1, s) = posted[s]
    BY <2>2, <2>3 DEF MsgInv
  <2>5. \A s : Count(msq', k - 1, s) = Count(msq, k - 1, s)
    BY <1>5, <2>2
  <2> QED BY <1>8, <2>4, <2>5
<1>10. \A q \in dismissed : sender[q] = "done" /\ \A s \in ChildrenOf(q) : received[s] = posted'[s]
  BY <1>8 DEF MsgInv
<1>11. \A s \in Slots : /\ poster'[s] = "none" => posted'[s] = 0
                        /\ poster'[s] = "runs" => posted'[s] < Messages
                        /\ poster'[s] = "ended" => posted'[s] = Messages
  BY <1>3, MsgAssumption DEF MsgInv
<1>12. \A s \in Slots : /\ sender[s[1]] \in {"off", "fork"} /\ turn[s[1]] <= s[2] => poster'[s] = "none"
                        /\ sender[s[1]] \in {"exit", "done"} => poster'[s] # "runs"
  BY <1>1, <1>3, <1>6 DEF MsgInv
<1> QED BY <1>1, <1>3, <1>4, <1>7, <1>9, <1>10, <1>11, <1>12 DEF MsgInv

(* What a run's Exit has before it becomes what was received of the run. *)
LEMMA ReceiveStep == ASSUME MsgInv, Receive PROVE MsgInv'
<1> DEFINE m == msq[1]
<1>1. /\ msq # <<>> /\ msq' = Tail(msq)
      /\ UNCHANGED <<sender, turn, poster, posted>>
  BY DEF Receive
<1>2. /\ Len(msq) \in Nat \ {0} /\ msq \in Seq(Letters) /\ Head(msq) = m /\ m \in Letters
      /\ msq' \in Seq(Letters) /\ Len(msq') = Len(msq) - 1
      /\ \A k \in 1 .. Len(msq) - 1 : msq'[k] = msq[k + 1]
  BY <1>1, HeadTailProperties, EmptySeq, LenProperties, ElementOfSeq DEF MsgInv
<1>3. /\ m.mtype = 0 => \E r \in Runs : m = Exit(r) /\ m.of[1] = r /\ m.of \notin Slots
      /\ m.mtype # 0 => m.of \in Slots /\ \A r \in Runs : m # Exit(r)
  BY <1>2, LetterKinds
<1>4. /\ received' = IF m.mtype = 0 THEN received ELSE [received EXCEPT ![m.of] = @ + 1]
      /\ dismissed' = IF m.mtype = 0 THEN dismissed \union {m.of[1]} ELSE dismissed
  BY <1>2 DEF Receive
<1> HIDE DEF m
<1>5. /\ received' \in [Slots -> Nat]
      /\ \A s \in Slots : received'[s] = received[s] + (IF m.of = s THEN 1 ELSE 0) /\ received[s] \in Nat
  BY <1>3, <1>4 DEF MsgInv
<1>6. ASSUME NEW s \in Slots, NEW k \in 1 .. Len(msq)
      PROVE  received'[s] + Count(msq', k - 1, s) = received[s] + Count(msq, k, s)
  <2>1. k - 1 \in Nat /\ \A j \in 1 .. k - 1 : msq'[j] = msq[j + 1]
    BY <1>2
  <2>2. /\ Count(msq, (k - 1) + 1, s) = Count(msq', k - 1, s) + (IF msq[1].of = s THEN 1 ELSE 0)
    BY <2>1, CountTail
  <2>3. Count(msq', k - 1, s) \in Nat
    BY <2>1, CountPrefix
  <2> QED BY <1>2, <1>5, <2>2, <2>3 DEF m
<1>7. \A s \in Slots : received'[s] + Count(msq', Len(msq'), s) = posted[s]
  BY <1>2, <1>6 DEF MsgInv
<1>8. ASSUME NEW q \in Runs, NEW k \in 1 .. Len(msq'), msq'[k] = Exit(q)
      PROVE  sender[q] = "done" /\ \A s \in ChildrenOf(q) : received'[s] + Count(msq', k - 1, s) = posted[s]
  <2>1. k \in 1 .. Len(msq) /\ k + 1 \in 1 .. Len(msq) /\ (k + 1) - 1 = k /\ msq[k + 1] = Exit(q)
    BY <1>2, <1>8
  <2>2. sender[q] = "done" /\ \A s \in ChildrenOf(q) : s \in Slots /\ received[s] + Count(msq, k, s) = posted[s]
    BY <2>1 DEF MsgInv, ChildrenOf
  <2> QED BY <1>6, <2>1, <2>2
<1>9. ASSUME NEW q \in dismissed'
      PROVE  q \in Runs /\ sender[q] = "done" /\ \A s \in ChildrenOf(q) : received'[s] = posted[s]
  <2>1. CASE q \in dismissed
    <3>1. q \in Runs /\ sender[q] = "done" /\ \A s \in ChildrenOf(q) : s \in Slots /\ received[s] = posted[s]
      BY <2>1 DEF MsgInv, ChildrenOf
    <3>2. \A s \in Slots : Count(msq', Len(msq'), s) \in Nat
      BY <1>2, CountPrefix
    <3>3. ASSUME NEW s \in ChildrenOf(q) PROVE received'[s] = posted[s]
      <4>1. s \in Slots /\ received[s] = posted[s] /\ received[s] \in Nat
        BY <1>5, <3>1
      <4> QED BY <1>5, <1>7, <3>2, <4>1
    <3> QED BY <3>1, <3>3
  <2>2. CASE q \notin dismissed
    <3>1. q \in Runs /\ m = Exit(q) /\ m.of \notin Slots
      BY <1>3, <1>4, <1>9, <2>2
    <3>2. /\ sender[q] = "done"
          /\ \A s \in ChildrenOf(q) : s \in Slots /\ received[s] + Count(msq, 1 - 1, s) = posted[s]
      BY <1>2, <3>1 DEF MsgInv, ChildrenOf, m
    <3>3. \A s : Count(msq, 0, s) = 0
      BY CountPrefix
    <3>4. \A s \in ChildrenOf(q) : received'[s] = posted[s]
      BY <1>5, <3>1, <3>2, <3>3
    <3> QED BY <3>1, <3>2, <3>4
  <2> QED BY <2>1, <2>2
<1> QED BY <1>1, <1>2, <1>5, <1>7, <1>8, <1>9 DEF MsgInv

(* "Wait for all children to end, then send the message Exit": a receiver   *)
(* that leaves at an Exit leaves nothing of that run behind.                *)
THEOREM ExitComesLast == MsgSpec => []ExitIsLast
<1>1. MsgInit => MsgInv
  <2> SUFFICES ASSUME MsgInit PROVE MsgInv
    OBVIOUS
  <2>1. /\ Len(msq) = 0 /\ msq \in Seq(Letters) /\ dismissed = {}
        /\ \A s \in Slots : Count(msq, 0, s) = 0 /\ posted[s] = 0 /\ received[s] = 0 /\ poster[s] = "none"
        /\ \A s \in Slots : s[1] \in Runs /\ sender[s[1]] = "off"
    BY CountPrefix DEF MsgInit, Slots
  <2>2. /\ sender \in [Runs -> {"off"}] /\ turn \in [Runs -> Nat] /\ poster \in [Slots -> {"none"}]
        /\ posted \in [Slots -> Nat] /\ received \in [Slots -> Nat]
    BY DEF MsgInit
  <2> QED BY <2>1, <2>2, MsgAssumption DEF MsgInv
<1>2. MsgInv /\ [MsgNext]_msgVars => MsgInv'
  <2> SUFFICES ASSUME MsgInv, [MsgNext]_msgVars PROVE MsgInv'
    OBVIOUS
  <2>1. CASE MsgNext
    <3>1. CASE \E r \in Runs : PostExit(r)
      BY <3>1, ExitStep
    <3>2. CASE \E s \in Slots : Post(s)
      BY <3>2, PostStep
    <3>3. CASE Receive
      BY <3>3, ReceiveStep
    <3>4. CASE \/ \E r \in Runs : StartSender(r) \/ ForkPoster(r) \/ WaitForPosters(r) \/ KillSender(r)
               \/ \E s \in Slots : KillPoster(s)
               \/ StartReceiver \/ KillReceiver
      BY <3>4, QuietStep
    <3> QED BY <2>1, <3>1, <3>2, <3>3, <3>4 DEF MsgNext, SenderStep
  <2>2. CASE UNCHANGED msgVars
    <3>1. \A n, s : Count(msq, n, s)' = Count(msq, n, s)
      BY <2>2 DEF msgVars, Count
    <3> QED BY <2>2, <3>1 DEF msgVars, MsgInv
  <2> QED BY <2>1, <2>2
<1>3. MsgInv => ExitIsLast
  <2> SUFFICES ASSUME MsgInv, NEW r \in Runs, NEW s \in ChildrenOf(r)
               PROVE  /\ r \in dismissed => /\ poster[s] # "runs"
                                            /\ received[s] = posted[s]
                                            /\ poster[s] = "ended" => received[s] = Messages
                      /\ \A k \in DOMAIN msq : msq[k] = Exit(r) =>
                           /\ poster[s] # "runs"
                           /\ received[s] + Count(msq, k - 1, s) = posted[s]
                           /\ poster[s] = "ended" => received[s] + Count(msq, k - 1, s) = Messages
    BY DEF ExitIsLast, Count
  <2>1. s \in Slots /\ s[1] = r /\ DOMAIN msq = 1 .. Len(msq)
    BY LenProperties DEF ChildrenOf, MsgInv
  <2> QED BY <2>1 DEF MsgInv
<1> QED BY <1>1, <1>2, <1>3, PTL DEF MsgSpec

-----------------------------------------------------------------------------
(* 3/infosheet.                                                             *)

(* Two commands were changing the record behind position k at a time. *)
MetAt(k) == \E e \in met : \A p \in e : pos[p] = k

(* p is a -m of the record behind position k. *)
ChangesAt(p, k) == args[p] = <<"-m", (k \div 2) + 1>>

(* A record starts and ends at an even number of half records. *)
Even(n) == n % 2 = 0

(* What holds of the commands and of where they stand. *)
SheetPlaces ==
  /\ file \in Seq(Cmds) /\ Even(Len(file))
  /\ DOMAIN args = Cmds
  /\ \A p \in Cmds : args[p][1] = "-m" => args[p][2] \in SheetIndex /\ args[p] = <<"-m", args[p][2]>>
  /\ cmd \in [Cmds -> {"off", "run", "write", "head", "tail", "done", "failed", "torn"}]
  /\ count \in [Cmds -> Nat] /\ pos \in [Cmds -> Nat]
  /\ \A p \in Cmds : 2 * count[p] <= Len(file) /\ Even(pos[p])
  /\ \A p \in Cmds : cmd[p] = "write" => args[p][1] = "-w" /\ pos[p] <= Len(file)
  /\ \A p \in Cmds : cmd[p] \in {"head", "tail", "torn"} => args[p][1] = "-m"
  /\ \A p \in Cmds : cmd[p] \in {"head", "tail", "torn", "done"} => pos[p] + 2 <= Len(file)
  /\ \A p \in Cmds : cmd[p] \in {"head", "tail", "torn"} => ChangesAt(p, pos[p])
  /\ met \subseteq SUBSET Cmds
  /\ \A e \in met : \A p \in e : cmd[p] \notin {"off", "run"}
  /\ \A i \in 1 .. Len(file) : cmd[file[i]] # "off"

(* A -w that is still to write where another one wrote, met it; and a -m    *)
(* between its stores finds its head, or met who replaced it.               *)
SheetRecords ==
  /\ \A p, q \in Cmds : args[p][1] = "-w" /\ cmd[p] = "done" /\ cmd[q] = "write" /\ pos[q] = pos[p]
                          => {p, q} \in met
  /\ \A p \in Cmds : cmd[p] = "tail" => file[pos[p] + 1] = p \/ MetAt(pos[p])
  /\ \A p \in Cmds : args[p][1] = "-w" /\ cmd[p] = "done" /\ (\A e \in met : p \notin e) =>
       \A i \in {pos[p] + 1, pos[p] + 2} : file[i] = p \/ ChangesAt(file[i], pos[p])
  /\ \A k \in {j \in 0 .. Len(file) - 1 : Even(j)} :
       \/ file[k + 1] = file[k + 2]
       \/ MetAt(k)
       \/ \E p \in Cmds : pos[p] = k /\ cmd[p] \in {"tail", "torn"}

(* A full disk excuses everything. *)
SheetInv == cut \in BOOLEAN /\ (cut \/ (SheetPlaces /\ SheetRecords))

(* A file with one or two half records replaced or added. *)
LEMMA Overlaid ==
  ASSUME file \in Seq(Cmds), NEW k \in Nat, k <= Len(file), NEW n \in Nat, NEW p \in Cmds
  PROVE  /\ Overlay(k, n, p) \in Seq(Cmds)
         /\ Len(Overlay(k, n, p)) = IF Len(file) < k + n THEN k + n ELSE Len(file)
         /\ \A i \in 1 .. Len(Overlay(k, n, p)) :
              Overlay(k, n, p)[i] = IF i \in k + 1 .. k + n THEN p ELSE file[i]
<1> DEFINE m == IF Len(file) < k + n THEN k + n ELSE Len(file)
           f == [i \in 1 .. m |-> IF i \in k + 1 .. k + n THEN p ELSE file[i]]
<1>1. Len(file) \in Nat /\ \A i \in 1 .. Len(file) : file[i] \in Cmds
  BY LenProperties, ElementOfSeq
<1>2. m \in Nat /\ \A i \in 1 .. m : f[i] \in Cmds
  BY <1>1
<1>3. f \in Seq(Cmds) /\ DOMAIN f = 1 .. m
  BY <1>2, IsASeq
<1>4. Len(f) = m
  BY <1>2, <1>3, LenProperties
<1> QED BY <1>3, <1>4 DEF Overlay

(* Records begin at even positions, so two of them that overlap are one.    *)
LEMMA EvenApart ==
  ASSUME NEW j \in Nat, NEW k \in Nat, Even(j), Even(k)
  PROVE  /\ Even(j + 2) /\ j # k + 1
         /\ j < k => j + 2 <= k
  BY DEF Even

(* The position of the record with index i. *)
LEMMA Doubles == ASSUME NEW i \in Nat PROVE 2 * i \in Nat /\ Even(2 * i) /\ (2 * i) \div 2 = i
  BY DEF Even

(* The step keeps who met where. *)
LEMMA MetStays ==
  ASSUME SheetPlaces, met \subseteq met', NEW k, MetAt(k),
         \A q \in Cmds : cmd[q] \notin {"off", "run"} => pos'[q] = pos[q]
  PROVE  MetAt(k)'
  BY DEF SheetPlaces, MetAt

(* Opening, seeking, mapping, failing and dying leave the file alone.       *)
LEMMA IdleStep ==
  ASSUME SheetPlaces, SheetRecords, NEW p \in Cmds,
         OpenSheet(p) \/ SeekToEnd(p) \/ WriteFails(p) \/ MapRecord(p) \/ SheetKill(p)
  PROVE  SheetPlaces' /\ SheetRecords'
<1>1. /\ file \in Seq(Cmds) /\ Len(file) \in Nat /\ Even(Len(file))
      /\ \A i \in 1 .. Len(file) : file[i] \in Cmds /\ cmd[file[i]] # "off"
  BY LenProperties, ElementOfSeq DEF SheetPlaces
<1>2. /\ UNCHANGED <<file, met>>
      /\ \A q \in Cmds \ {p} : UNCHANGED <<cmd[q], args[q], count[q], pos[q]>>
      /\ cmd' \in [Cmds -> {"off", "run", "write", "head", "tail", "done", "failed", "torn"}]
      /\ DOMAIN args' = Cmds
      /\ args'[p][1] = "-m" => args'[p][2] \in SheetIndex /\ args'[p] = <<"-m", args'[p][2]>>
  <2>1. CASE OpenSheet(p)
    <3>1. PICK a \in {<<"-w", 0>>} \union {<<"-m", i>> : i \in SheetIndex} : args' = [args EXCEPT ![p] = a]
      BY <2>1 DEF OpenSheet
    <3>2. a[1] = "-m" => a[2] \in SheetIndex /\ a = <<"-m", a[2]>>
      OBVIOUS
    <3>3. args'[p] = a /\ DOMAIN args' = Cmds /\ \A q \in Cmds \ {p} : args'[q] = args[q]
      BY <3>1 DEF SheetPlaces
    <3>4. /\ UNCHANGED <<file, met, pos>> /\ cmd' = [cmd EXCEPT ![p] = "run"]
          /\ count' = [count EXCEPT ![p] = Len(file) \div 2]
      BY <2>1 DEF OpenSheet, SheetAt
    <3> QED BY <3>2, <3>3, <3>4 DEF SheetPlaces
  <2>2. CASE SeekToEnd(p) \/ WriteFails(p) \/ MapRecord(p) \/ SheetKill(p)
    <3>1. /\ UNCHANGED <<file, met, args, count>>
          /\ \E l \in {"write", "failed", "head", "torn"} : cmd' = [cmd EXCEPT ![p] = l]
          /\ \A q \in Cmds \ {p} : pos'[q] = pos[q]
      BY <2>2 DEF SeekToEnd, WriteFails, MapRecord, SheetKill, SheetAt, SheetPlaces
    <3> QED BY <3>1 DEF SheetPlaces
  <2> QED BY <2>1, <2>2
<1>3. /\ cmd[p] # "off" => UNCHANGED args[p]
      /\ cmd[p] \notin {"off", "run"} => UNCHANGED pos[p]
      /\ cmd[p] # "done" /\ cmd'[p] \notin {"off", "tail", "done"}
      /\ cmd[p] = "tail" => cmd'[p] = "torn"
      /\ cmd[p] # "torn"
      /\ cmd[p] \notin {"off", "run"} => cmd'[p] \notin {"off", "run"}
  <2>1. CASE OpenSheet(p)
    BY <2>1 DEF OpenSheet, SheetAt, SheetPlaces
  <2>2. CASE SeekToEnd(p)
    BY <2>2 DEF SeekToEnd, SheetAt, SheetPlaces
  <2>3. CASE WriteFails(p)
    BY <2>3 DEF WriteFails, SheetAt, SheetPlaces
  <2>4. CASE MapRecord(p)
    BY <2>4 DEF MapRecord, SheetAt, SheetPlaces
  <2>5. CASE SheetKill(p)
    BY <2>5 DEF SheetKill, SheetAt, SheetPlaces
  <2> QED BY <2>1, <2>2, <2>3, <2>4, <2>5
<1>4. /\ count'[p] \in Nat /\ 2 * count'[p] <= Len(file) /\ pos'[p] \in Nat /\ Even(pos'[p])
      /\ cmd'[p] = "write" => args'[p][1] = "-w" /\ pos'[p] = Len(file)
      /\ cmd'[p] \in {"head", "torn"} =>
           args'[p][1] = "-m" /\ pos'[p] + 2 <= Len(file) /\ ChangesAt(p, pos[p])'
      /\ DOMAIN count' = Cmds /\ DOMAIN pos' = Cmds
  <2>1. CASE OpenSheet(p)
    <3>1. 2 * (Len(file) \div 2) <= Len(file) /\ Len(file) \div 2 \in Nat
      BY <1>1
    <3> QED BY <2>1, <3>1 DEF OpenSheet, SheetAt, SheetPlaces
  <2>2. CASE SeekToEnd(p)
    BY <1>1, <2>2 DEF SeekToEnd, SheetAt, SheetPlaces
  <2>3. CASE WriteFails(p) \/ SheetKill(p)
    <3>1. UNCHANGED <<count, pos, args>> /\ (cmd'[p] = "torn" => cmd[p] = "tail") /\ cmd'[p] \in {"torn", "failed"}
      BY <2>3 DEF WriteFails, SheetKill, SheetAt, SheetPlaces
    <3> QED BY <3>1 DEF SheetPlaces, ChangesAt
  <2>4. CASE MapRecord(p)
    <3>1. /\ cmd[p] = "run" /\ args[p][1] = "-m" /\ UNCHANGED <<args, count>>
          /\ cmd'[p] = IF args[p][2] <= count[p] THEN "head" ELSE "failed"
          /\ pos'[p] = 2 * (args[p][2] - 1) /\ DOMAIN pos' = Cmds
      BY <2>4 DEF MapRecord, SheetAt, SheetPlaces
    <3> DEFINE i == args[p][2]
    <3>2. i \in SheetIndex /\ args[p] = <<"-m", i>>
      BY <3>1 DEF SheetPlaces
    <3> HIDE DEF i
    <3>3. i \in Nat \ {0} /\ i - 1 \in Nat
      BY <3>2, SheetAssumption
    <3>4. pos'[p] \in Nat /\ Even(pos'[p]) /\ (pos'[p] \div 2) + 1 = i
      BY <3>1, <3>3, Doubles DEF i
    <3>5. cmd'[p] = "head" => pos'[p] + 2 <= Len(file)
      BY <1>1, <3>1, <3>3 DEF SheetPlaces, i
    <3>6. ChangesAt(p, pos[p])'
      BY <3>1, <3>2, <3>4 DEF ChangesAt
    <3>7. count'[p] \in Nat /\ 2 * count'[p] <= Len(file) /\ DOMAIN count' = Cmds
      BY <3>1 DEF SheetPlaces
    <3> QED BY <3>1, <3>4, <3>5, <3>6, <3>7
  <2> QED BY <1>1, <2>1, <2>2, <2>3, <2>4
<1>5. \A q \in Cmds : count'[q] \in Nat /\ pos'[q] \in Nat
  BY <1>2, <1>4 DEF SheetPlaces
<1>6. SheetPlaces'
  <2>1. count' \in [Cmds -> Nat] /\ pos' \in [Cmds -> Nat]
    BY <1>5 DEF OpenSheet, SeekToEnd, WriteFails, MapRecord, SheetKill, SheetPlaces
  <2>2. \A q \in Cmds : 2 * count'[q] <= Len(file) /\ Even(pos'[q])
    BY <1>2, <1>4 DEF SheetPlaces
  <2>3. ASSUME NEW q \in Cmds
        PROVE  /\ cmd'[q] = "write" => args'[q][1] = "-w" /\ pos'[q] <= Len(file)
               /\ cmd'[q] \in {"head", "tail", "torn"} => args'[q][1] = "-m"
               /\ cmd'[q] \in {"head", "tail", "torn", "done"} => pos'[q] + 2 <= Len(file)
               /\ cmd'[q] \in {"head", "tail", "torn"} => ChangesAt(q, pos[q])'
               /\ args'[q][1] = "-m" => args'[q][2] \in SheetIndex /\ args'[q] = <<"-m", args'[q][2]>>
    <3>1. CASE q = p
      BY <1>1, <1>2, <1>3, <1>4, <3>1
    <3>2. CASE q # p
      <4>1. UNCHANGED <<cmd[q], args[q], pos[q]>>
        BY <1>2, <3>2
      <4> QED BY <4>1 DEF SheetPlaces, ChangesAt
    <3> QED BY <3>1, <3>2
  <2>5. \A e \in met : e \subseteq Cmds /\ \A q \in e : cmd'[q] \notin {"off", "run"}
    BY <1>2, <1>3 DEF SheetPlaces
  <2>6. \A i \in 1 .. Len(file) : cmd'[file[i]] # "off"
    BY <1>1, <1>2, <1>3
  <2> QED BY <1>1, <1>2, <2>1, <2>2, <2>3, <2>5, <2>6 DEF SheetPlaces
<1>7. \A k : MetAt(k) => MetAt(k)'
  BY <1>2, <1>3, MetStays
<1>8. \A q \in Cmds : cmd'[q] \in {"tail", "done"} => q # p /\ UNCHANGED <<cmd[q], args[q], pos[q]>>
  BY <1>2, <1>3
<1>9. SheetRecords'
  <2>1. ASSUME NEW q \in Cmds, NEW r \in Cmds, args'[q][1] = "-w", cmd'[q] = "done", cmd'[r] = "write", pos'[r] = pos'[q]
        PROVE  {q, r} \in met
    <3>1. r # p
      BY <1>1, <1>4, <1>8, <2>1 DEF SheetPlaces
    <3> QED BY <1>2, <1>8, <2>1, <3>1 DEF SheetRecords
  <2>2. ASSUME NEW q \in Cmds, cmd'[q] = "tail" PROVE file[pos'[q] + 1] = q \/ MetAt(pos[q])'
    <3>1. file[pos[q] + 1] = q \/ MetAt(pos[q])
      BY <1>8, <2>2 DEF SheetRecords
    <3>2. pos'[q] = pos[q]
      BY <1>8, <2>2
    <3> QED BY <1>7, <3>1, <3>2 DEF MetAt
  <2>3. ASSUME NEW q \in Cmds, args'[q][1] = "-w", cmd'[q] = "done", \A e \in met : q \notin e,
               NEW i \in {pos[q] + 1, pos[q] + 2}
        PROVE  file[i] = q \/ args'[file[i]] = <<"-m", (pos[q] \div 2) + 1>>
    <3>0. args[q][1] = "-w" /\ cmd[q] = "done" /\ pos[q] \in Nat /\ pos[q] + 2 <= Len(file)
      BY <1>8, <2>3 DEF SheetPlaces
    <3>1. file[i] = q \/ ChangesAt(file[i], pos[q])
      BY <3>0, <2>3 DEF SheetRecords
    <3>2. file[i] \in Cmds /\ cmd[file[i]] # "off"
      BY <1>1, <3>0, <2>3
    <3> QED BY <1>2, <1>3, <3>1, <3>2 DEF ChangesAt
  <2>4. ASSUME NEW k \in {j \in 0 .. Len(file) - 1 : Even(j)}
        PROVE  \/ file[k + 1] = file[k + 2]
               \/ MetAt(k)'
               \/ \E q \in Cmds : pos'[q] = k /\ cmd'[q] \in {"tail", "torn"}
    <3>1. CASE \E q \in Cmds : pos[q] = k /\ cmd[q] \in {"tail", "torn"}
      BY <1>2, <1>3, <3>1
    <3>2. CASE file[k + 1] = file[k + 2] \/ MetAt(k)
      BY <1>7, <3>2
    <3> QED BY <3>1, <3>2 DEF SheetRecords
  <2>5. /\ met' = met /\ file' = file
        /\ \A q \in Cmds : cmd'[q] = "done" => pos'[q] = pos[q]
    BY <1>2, <1>8
  <2>6. \A q \in Cmds : args'[q][1] = "-w" /\ cmd'[q] = "done" /\ (\A e \in met' : q \notin e) =>
          \A i \in {pos'[q] + 1, pos'[q] + 2} : file'[i] = q \/ ChangesAt(file[i], pos[q])'
    BY <2>3, <2>5 DEF ChangesAt
  <2> QED BY <2>1, <2>2, <2>4, <2>5, <2>6 DEF SheetRecords
<1> QED BY <1>6, <1>9

(* The three stores: a whole record at or before the end of the file, and   *)
(* the two halves of one.                                                   *)
Stores(p) ==
  /\ UNCHANGED <<args, count, pos>> /\ Meet(p)
  /\ \/ cmd[p] = "write" /\ cmd' = [cmd EXCEPT ![p] = "done"] /\ file' = Overlay(pos[p], 2, p)
     \/ cmd[p] = "head" /\ cmd' = [cmd EXCEPT ![p] = "tail"] /\ file' = Overlay(pos[p], 1, p)
     \/ cmd[p] = "tail" /\ cmd' = [cmd EXCEPT ![p] = "done"] /\ file' = Overlay(pos[p] + 1, 1, p)

(* What a store does to the file: no other record is touched. *)
LEMMA StoredFile ==
  ASSUME SheetPlaces, NEW p \in Cmds, Stores(p)
  PROVE  /\ file' \in Seq(Cmds) /\ Len(file') \in Nat /\ Even(Len(file'))
         /\ Len(file) <= Len(file') /\ pos[p] + 2 <= Len(file')
         /\ \A i \in 1 .. Len(file') :
              /\ file'[i] = p \/ (i \in 1 .. Len(file) /\ file'[i] = file[i])
              /\ i \notin {pos[p] + 1, pos[p] + 2} => i \in 1 .. Len(file) /\ file'[i] = file[i]
         /\ cmd[p] = "write" => file'[pos[p] + 1] = p /\ file'[pos[p] + 2] = p
         /\ cmd[p] = "head" => file'[pos[p] + 1] = p
         /\ cmd[p] = "tail" => file'[pos[p] + 1] = file[pos[p] + 1] /\ file'[pos[p] + 2] = p
<1>1. /\ file \in Seq(Cmds) /\ Len(file) \in Nat /\ Even(Len(file)) /\ pos[p] \in Nat /\ Even(pos[p])
      /\ cmd[p] = "write" => pos[p] <= Len(file)
      /\ cmd[p] \in {"head", "tail"} => pos[p] + 2 <= Len(file)
  BY LenProperties DEF SheetPlaces
<1>2. /\ Even(pos[p] + 2)
      /\ cmd[p] = "write" => pos[p] = Len(file) \/ pos[p] + 2 <= Len(file)
  BY <1>1, EvenApart
<1>3. CASE cmd[p] = "write" /\ file' = Overlay(pos[p], 2, p)
  <2> DEFINE f == Overlay(pos[p], 2, p)
  <2>1. /\ f \in Seq(Cmds)
        /\ Len(f) = IF Len(file) < pos[p] + 2 THEN pos[p] + 2 ELSE Len(file)
        /\ \A i \in 1 .. Len(f) : f[i] = IF i \in pos[p] + 1 .. pos[p] + 2 THEN p ELSE file[i]
    <3>1. pos[p] \in Nat /\ pos[p] <= Len(file) /\ 2 \in Nat
      BY <1>1, <1>3
    <3> QED BY <1>1, <3>1, Overlaid
  <2> HIDE DEF f
  <2>2. file' = f
    BY <1>3 DEF f
  <2> QED BY <1>1, <1>2, <1>3, <2>1, <2>2
<1>4. CASE cmd[p] = "head" /\ file' = Overlay(pos[p], 1, p)
  <2> DEFINE f == Overlay(pos[p], 1, p)
  <2>1. /\ f \in Seq(Cmds)
        /\ Len(f) = IF Len(file) < pos[p] + 1 THEN pos[p] + 1 ELSE Len(file)
        /\ \A i \in 1 .. Len(f) : f[i] = IF i \in pos[p] + 1 .. pos[p] + 1 THEN p ELSE file[i]
    <3>1. pos[p] \in Nat /\ pos[p] <= Len(file) /\ 1 \in Nat
      BY <1>1, <1>4
    <3> QED BY <1>1, <3>1, Overlaid
  <2> HIDE DEF f
  <2>2. file' = f
    BY <1>4 DEF f
  <2> QED BY <1>1, <1>4, <2>1, <2>2
<1>5. CASE cmd[p] = "tail" /\ file' = Overlay(pos[p] + 1, 1, p)
  <2> DEFINE f == Overlay(pos[p] + 1, 1, p)
  <2>1. /\ f \in Seq(Cmds)
        /\ Len(f) = IF Len(file) < (pos[p] + 1) + 1 THEN (pos[p] + 1) + 1 ELSE Len(file)
        /\ \A i \in 1 .. Len(f) : f[i] = IF i \in (pos[p] + 1) + 1 .. (pos[p] + 1) + 1 THEN p ELSE file[i]
    <3>1. pos[p] + 1 \in Nat /\ pos[p] + 1 <= Len(file) /\ 1 \in Nat
      BY <1>1, <1>5
    <3> QED BY <1>1, <3>1, Overlaid
  <2> HIDE DEF f
  <2>2. file' = f
    BY <1>5 DEF f
  <2> QED BY <1>1, <1>5, <2>1, <2>2
<1> QED BY <1>3, <1>4, <1>5 DEF Stores

(* A store keeps what was said, for the record it is in and for the others. *)
LEMMA StoreStep ==
  ASSUME SheetPlaces, SheetRecords, NEW p \in Cmds, Stores(p)
  PROVE  SheetPlaces' /\ SheetRecords'
<1>1. /\ UNCHANGED <<args, count, pos>>
      /\ cmd[p] \in {"write", "head", "tail"} /\ cmd'[p] = (IF cmd[p] = "head" THEN "tail" ELSE "done")
      /\ \A q \in Cmds \ {p} : cmd'[q] = cmd[q]
      /\ cmd' \in [Cmds -> {"off", "run", "write", "head", "tail", "done", "failed", "torn"}]
  <2>1. cmd' = [cmd EXCEPT ![p] = IF cmd[p] = "head" THEN "tail" ELSE "done"]
    BY DEF Stores
  <2>2. UNCHANGED <<args, count, pos>> /\ cmd[p] \in {"write", "head", "tail"}
    BY DEF Stores
  <2> QED BY <2>1, <2>2 DEF SheetPlaces
<1>2. /\ file' \in Seq(Cmds) /\ Len(file') \in Nat /\ Even(Len(file'))
      /\ Len(file) <= Len(file') /\ pos[p] + 2 <= Len(file')
      /\ \A i \in 1 .. Len(file') :
           /\ file'[i] = p \/ (i \in 1 .. Len(file) /\ file'[i] = file[i])
           /\ i \notin {pos[p] + 1, pos[p] + 2} => i \in 1 .. Len(file) /\ file'[i] = file[i]
      /\ cmd[p] = "write" => file'[pos[p] + 1] = p /\ file'[pos[p] + 2] = p
      /\ cmd[p] = "head" => file'[pos[p] + 1] = p
      /\ cmd[p] = "tail" => file'[pos[p] + 1] = file[pos[p] + 1] /\ file'[pos[p] + 2] = p
  BY StoredFile
<1>3. /\ met \subseteq met' /\ met' \subseteq SUBSET Cmds
      /\ \A q \in Cmds \ {p} : cmd[q] \in {"write", "tail"} /\ pos[q] = pos[p] => {p, q} \in met'
      /\ \A e \in met' \ met : \A q \in e : cmd'[q] \notin {"off", "run"}
  <2>1. met' = met \union {{p, q} : q \in Others(p)}
    BY DEF Stores, Meet
  <2>2. \A q \in Others(p) : q \in Cmds \ {p} /\ cmd[q] \in {"write", "tail"}
    BY DEF Others
  <2>3. \A q \in Cmds \ {p} : cmd[q] \in {"write", "tail"} /\ pos[q] = pos[p] => q \in Others(p)
    BY DEF Others
  <2>4. met \subseteq SUBSET Cmds
    BY DEF SheetPlaces
  <2> QED BY <1>1, <2>1, <2>2, <2>3, <2>4
<1>4. \A q \in Cmds : pos[q] \in Nat /\ Even(pos[q]) /\ 2 * count[q] <= Len(file) /\ count[q] \in Nat
  BY DEF SheetPlaces
<1>5. \A j, k \in Nat : Even(j) /\ Even(k) => j # k + 1 /\ (j < k => j + 2 <= k)
  BY EvenApart
<1>6. \A k : MetAt(k) => MetAt(k)'
  BY <1>1, <1>3, MetStays
<1>7. Len(file) \in Nat /\ \A i \in 1 .. Len(file) : file[i] \in Cmds /\ cmd[file[i]] # "off"
  BY LenProperties, ElementOfSeq DEF SheetPlaces
<1>8. SheetPlaces'
  <2>1. \A q \in Cmds : 2 * count[q] <= Len(file')
    BY <1>2, <1>4, <1>7
  <2>2. ASSUME NEW q \in Cmds
        PROVE  /\ cmd'[q] = "write" => args[q][1] = "-w" /\ pos[q] <= Len(file')
               /\ cmd'[q] \in {"head", "tail", "torn"} => args[q][1] = "-m" /\ ChangesAt(q, pos[q])
               /\ cmd'[q] \in {"head", "tail", "torn", "done"} => pos[q] + 2 <= Len(file')
    <3>1. CASE q = p
      BY <1>1, <1>2, <3>1 DEF SheetPlaces
    <3>2. CASE q # p
      <4>1. cmd'[q] = cmd[q] /\ pos[q] \in Nat
        BY <1>1, <1>4, <3>2
      <4>2. /\ cmd[q] = "write" => args[q][1] = "-w" /\ pos[q] <= Len(file)
            /\ cmd[q] \in {"head", "tail", "torn"} => args[q][1] = "-m" /\ ChangesAt(q, pos[q])
            /\ cmd[q] \in {"head", "tail", "torn", "done"} => pos[q] + 2 <= Len(file)
        BY DEF SheetPlaces
      <4> QED BY <1>2, <1>7, <4>1, <4>2
    <3> QED BY <3>1, <3>2
  <2>3. \A e \in met : \A q \in e : q \in Cmds /\ cmd'[q] \notin {"off", "run"}
    BY <1>1 DEF SheetPlaces
  <2>4. \A i \in 1 .. Len(file') : cmd'[file'[i]] # "off"
    BY <1>1, <1>2, <1>7
  <2>5. \A q \in Cmds : ChangesAt(q, pos[q])' <=> ChangesAt(q, pos[q])
    BY <1>1 DEF ChangesAt
  <2> QED BY <1>1, <1>2, <1>3, <2>1, <2>2, <2>3, <2>4, <2>5 DEF SheetPlaces
<1>9. SheetRecords'
  <2>0. cmd[p] \in {"head", "tail"} => args[p][1] # "-w" /\ ChangesAt(p, pos[p])
    BY DEF SheetPlaces
  <2>1. ASSUME NEW q \in Cmds, NEW r \in Cmds, args[q][1] = "-w", cmd'[q] = "done", cmd'[r] = "write", pos[r] = pos[q]
        PROVE  {q, r} \in met'
    <3>1. r # p /\ cmd[r] = "write"
      BY <1>1, <2>1
    <3>2. CASE q = p
      BY <1>3, <2>1, <3>1, <3>2
    <3>3. CASE q # p
      BY <1>1, <1>3, <2>1, <3>1, <3>3 DEF SheetRecords
    <3> QED BY <3>2, <3>3
  <2>2. ASSUME NEW q \in Cmds, cmd'[q] = "tail" PROVE file'[pos[q] + 1] = q \/ MetAt(pos[q])'
    <3>1. CASE q = p
      BY <1>1, <1>2, <2>2, <3>1
    <3>2. CASE q # p /\ pos[q] = pos[p]
      <4>1. {p, q} \in met' /\ \A r \in {p, q} : pos'[r] = pos[q]
        BY <1>1, <1>3, <2>2, <3>2
      <4> QED BY <1>1, <4>1 DEF MetAt
    <3>3. CASE q # p /\ pos[q] # pos[p]
      <4>1. cmd[q] = "tail" /\ pos[q] + 2 <= Len(file)
        BY <1>1, <2>2, <3>3 DEF SheetPlaces
      <4>2. pos[q] + 1 \in 1 .. Len(file') /\ pos[q] + 1 \notin {pos[p] + 1, pos[p] + 2}
        BY <1>2, <1>4, <1>5, <1>7, <3>3, <4>1
      <4>3. file'[pos[q] + 1] = file[pos[q] + 1]
        BY <1>2, <4>2
      <4>4. file[pos[q] + 1] = q \/ MetAt(pos[q])
        BY <4>1 DEF SheetRecords
      <4> QED BY <1>1, <1>6, <4>3, <4>4 DEF MetAt
    <3> QED BY <3>1, <3>2, <3>3
  <2>3. ASSUME NEW q \in Cmds, args[q][1] = "-w", cmd'[q] = "done", \A e \in met' : q \notin e,
               NEW i \in {pos[q] + 1, pos[q] + 2}
        PROVE  file'[i] = q \/ ChangesAt(file'[i], pos[q])
    <3>1. CASE q = p
      BY <1>1, <1>2, <2>0, <2>3, <3>1
    <3>2. CASE q # p
      <4>1. cmd[q] = "done" /\ pos[q] + 2 <= Len(file)
        BY <1>1, <2>3, <3>2 DEF SheetPlaces
      <4>2. file[i] = q \/ ChangesAt(file[i], pos[q])
        BY <1>3, <2>3, <4>1 DEF SheetRecords
      <4>3. i \in 1 .. Len(file')
        BY <1>2, <1>4, <1>7, <4>1
      <4>4. CASE pos[q] = pos[p]
        <5>0. cmd[p] = "write" => {q, p} \in met
          BY <2>3, <4>1, <4>4 DEF SheetRecords
        <5>1. cmd[p] # "write"
          BY <1>3, <2>3, <5>0
        <5>2. ChangesAt(p, pos[q])
          BY <1>1, <2>0, <4>4, <5>1
        <5> QED BY <1>2, <4>2, <4>3, <5>2
      <4>5. CASE pos[q] # pos[p]
        <5>1. i \notin {pos[p] + 1, pos[p] + 2}
          BY <1>4, <1>5, <4>5
        <5> QED BY <1>2, <4>2, <4>3, <5>1
      <4> QED BY <4>4, <4>5
    <3> QED BY <3>1, <3>2
  <2>4. ASSUME NEW k \in 0 .. Len(file') - 1, Even(k)
        PROVE  \/ file'[k + 1] = file'[k + 2]
               \/ MetAt(k)'
               \/ \E q \in Cmds : pos[q] = k /\ cmd'[q] \in {"tail", "torn"}
    <3>1. CASE k = pos[p]
      <4>1. CASE cmd[p] \in {"write", "head"}
        BY <1>1, <1>2, <3>1, <4>1
      <4>2. CASE cmd[p] = "tail"
        <5>1. file[k + 1] = p \/ MetAt(k)
          BY <3>1, <4>2 DEF SheetRecords
        <5> QED BY <1>2, <1>6, <3>1, <4>2, <5>1
      <4> QED BY <1>1, <4>1, <4>2
    <3>2. CASE k # pos[p]
      <4>1. /\ k + 1 \in 1 .. Len(file') /\ k + 2 \in 1 .. Len(file')
            /\ k + 1 \notin {pos[p] + 1, pos[p] + 2} /\ k + 2 \notin {pos[p] + 1, pos[p] + 2}
        <5>1. k \in Nat /\ k < Len(file') /\ pos[p] \in Nat /\ Even(pos[p])
          BY <1>2, <1>4, <2>4
        <5>2. k + 2 <= Len(file') /\ k # pos[p] + 1 /\ pos[p] # k + 1
          BY <1>2, <1>5, <2>4, <5>1
        <5> QED BY <1>2, <3>2, <5>1, <5>2
      <4>2. file'[k + 1] = file[k + 1] /\ file'[k + 2] = file[k + 2] /\ k + 1 \in 1 .. Len(file)
        BY <1>2, <4>1
      <4>3. k \in {j \in 0 .. Len(file) - 1 : Even(j)}
        BY <1>7, <2>4, <4>2
      <4>4. CASE \E q \in Cmds : pos[q] = k /\ cmd[q] \in {"tail", "torn"}
        BY <1>1, <3>2, <4>4
      <4>5. CASE file[k + 1] = file[k + 2] \/ MetAt(k)
        BY <1>6, <4>2, <4>5
      <4> QED BY <4>3, <4>4, <4>5 DEF SheetRecords
    <3> QED BY <3>1, <3>2
  <2>5. \A q \in Cmds : args[q][1] = "-w" /\ cmd'[q] = "done" /\ (\A e \in met' : q \notin e) =>
          \A i \in {pos[q] + 1, pos[q] + 2} : file'[i] = q \/ ChangesAt(file[i], pos[q])'
    BY <1>1, <2>3 DEF ChangesAt
  <2> QED BY <1>1, <2>1, <2>2, <2>4, <2>5 DEF SheetRecords
<1> QED BY <1>8, <1>9

(* infosheet: commands that do not overlap do not damage each other, and    *)
(* those that do damage one record only, as long as no write was cut short. *)
THEOREM RecordsAreKept == SheetSpec => []RecordsKept
<1>1. SheetInit => SheetInv
  <2> SUFFICES ASSUME SheetInit PROVE SheetInv
    OBVIOUS
  <2>0. file = <<>> /\ met = {} /\ ~ cut /\ cut \in BOOLEAN
    BY DEF SheetInit
  <2>1. Len(file) = 0 /\ file \in Seq(Cmds) /\ Even(0)
    BY <2>0 DEF Even
  <2>2. \A p \in Cmds : cmd[p] = "off" /\ count[p] = 0 /\ pos[p] = 0 /\ args[p][1] = ""
    BY DEF SheetInit
  <2>3. /\ cmd \in [Cmds -> {"off", "run", "write", "head", "tail", "done", "failed", "torn"}]
        /\ count \in [Cmds -> Nat] /\ pos \in [Cmds -> Nat] /\ DOMAIN args = Cmds
    BY DEF SheetInit
  <2>4. SheetPlaces
    <3>1. ASSUME NEW p \in Cmds PROVE 2 * count[p] <= Len(file) /\ Even(pos[p])
      <4>1. count[p] = 0 /\ pos[p] = 0
        BY <2>2
      <4>2. 2 * count[p] = 0
        BY <4>1
      <4> QED BY <2>1, <4>1, <4>2
    <3>4. \A p \in Cmds : cmd[p] = "off" /\ args[p][1] # "-m"
      BY <2>2
    <3>2. \A i \in 1 .. Len(file) : cmd[file[i]] # "off"
      BY <2>1
    <3>3. Even(Len(file))
      BY <2>1 DEF Even
    <3> QED BY <2>0, <2>1, <2>3, <3>1, <3>2, <3>3, <3>4 DEF SheetPlaces
  <2>5. SheetRecords
    <3>1. {j \in 0 .. Len(file) - 1 : Even(j)} = {}
      BY <2>1
    <3>2. \A p \in Cmds : cmd[p] \notin {"done", "tail"}
      BY <2>2
    <3> QED BY <3>1, <3>2 DEF SheetRecords
  <2> QED BY <2>0, <2>4, <2>5 DEF SheetInv
<1>2. SheetInv /\ [SheetNext]_sheetVars => SheetInv'
  <2> SUFFICES ASSUME SheetInv, [SheetNext]_sheetVars PROVE SheetInv'
    OBVIOUS
  <2>1. CASE SheetNext
    <3>1. PICK p \in Cmds : OpenSheet(p) \/ SheetStep(p) \/ SheetKill(p)
      BY <2>1 DEF SheetNext
    <3>2. cut' \in BOOLEAN /\ (cut => cut')
      BY <3>1 DEF OpenSheet, SheetStep, SheetKill, SeekToEnd, WriteRecord, WriteFails, MapRecord, StoreHead,
         StoreTail, SheetInv
    <3>3. CASE ~ cut'
      <4>1. SheetPlaces /\ SheetRecords
        BY <3>2, <3>3 DEF SheetInv
      <4>2. CASE OpenSheet(p) \/ SeekToEnd(p) \/ WriteFails(p) \/ MapRecord(p) \/ SheetKill(p)
        BY <3>2, <4>1, <4>2, IdleStep DEF SheetInv
      <4>3. CASE WriteRecord(p) \/ StoreHead(p) \/ StoreTail(p)
        <5>1. Stores(p)
          BY <3>3, <4>3 DEF Stores, WriteRecord, StoreHead, StoreTail, SheetAt
        <5> QED BY <3>2, <4>1, <5>1, StoreStep DEF SheetInv
      <4> QED BY <3>1, <4>2, <4>3 DEF SheetStep
    <3> QED BY <3>2, <3>3 DEF SheetInv
  <2>2. CASE UNCHANGED sheetVars
    <3>1. UNCHANGED <<file, args, cmd, count, pos, met, cut>>
      BY <2>2 DEF sheetVars
    <3>2. \A p, k : (ChangesAt(p, k)' <=> ChangesAt(p, k)) /\ (MetAt(k)' <=> MetAt(k))
      BY <3>1 DEF MetAt, ChangesAt
    <3>3. SheetPlaces => SheetPlaces'
      BY <3>1 DEF SheetPlaces, ChangesAt
    <3>4. SheetRecords => SheetRecords'
      <4> SUFFICES ASSUME SheetRecords PROVE SheetRecords'
        OBVIOUS
      <4>1. \A p, q \in Cmds : args'[p][1] = "-w" /\ cmd'[p] = "done" /\ cmd'[q] = "write" /\ pos'[q] = pos'[p]
                                => {p, q} \in met'
        BY <3>1 DEF SheetRecords
      <4>2. \A p \in Cmds : cmd'[p] = "tail" => file'[pos'[p] + 1] = p \/ MetAt(pos[p])'
        BY <3>1 DEF SheetRecords, MetAt
      <4>3. \A p \in Cmds : args'[p][1] = "-w" /\ cmd'[p] = "done" /\ (\A e \in met' : p \notin e) =>
              \A i \in {pos'[p] + 1, pos'[p] + 2} : file'[i] = p \/ ChangesAt(file[i], pos[p])'
        BY <3>1 DEF SheetRecords, ChangesAt
      <4>4. \A k \in {j \in 0 .. Len(file') - 1 : Even(j)} :
              \/ file'[k + 1] = file'[k + 2]
              \/ MetAt(k)'
              \/ \E p \in Cmds : pos'[p] = k /\ cmd'[p] \in {"tail", "torn"}
        BY <3>1, <3>2 DEF SheetRecords
      <4> QED BY <4>1, <4>2, <4>3, <4>4 DEF SheetRecords
    <3> QED BY <3>1, <3>3, <3>4 DEF SheetInv
  <2> QED BY <2>1, <2>2
<1>3. SheetInv => RecordsKept
  BY DEF SheetInv, SheetPlaces, SheetRecords, RecordsKept, MetAt, ChangesAt, Even
<1> QED BY <1>1, <1>2, <1>3, PTL DEF SheetSpec

(* A run of the demos is, for each program, a run of that program: what is  *)
(* proved of one holds of the composition the model checker runs.           *)
THEOREM EachProgramAlone == Spec => MsgSpec /\ ShmSpec /\ SemSpec /\ PipeSpec /\ SheetSpec
<1>1. Init => MsgInit /\ ShmInit /\ SemInit /\ (PipeInit /\ FifoInit) /\ SheetInit
  BY DEF Init
<1>2. [Next]_vars =>
        /\ [MsgNext]_msgVars /\ [ShmNext]_shmVars /\ [SemNext]_semVars
        /\ [\/ PipeNext /\ UNCHANGED fifoVars
            \/ FifoNext /\ UNCHANGED pipeVars]_<<pipeVars, fifoVars>>
        /\ [SheetNext]_sheetVars
  BY DEF Next, vars, InMessages, InMemory, InSemaphore, InPipes, InFifo, InSheet
<1> QED BY <1>1, <1>2, PTL DEF Spec, MsgSpec, ShmSpec, SemSpec, PipeSpec, SheetSpec
=============================================================================
