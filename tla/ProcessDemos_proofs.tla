------------------------- MODULE ProcessDemos_proofs -------------------------
(***************************************************************************)
(* Proofs about the programs about processes, for every finite set of      *)
(* connections, every process limit and every number of clients.           *)
(*                                                                         *)
(* ForkServer: merged signals lose no zombie, and a connection passes from *)
(* the backlog to the parent and from there to its own child.              *)
(* ChildProcesses: no child of the demos is left a zombie while its parent *)
(* goes on without knowing of it.                                          *)
(* DoubleFork: how many clients the process tree starts.                   *)
(***************************************************************************)
EXTENDS ProcessDemos, DataLemmas

-----------------------------------------------------------------------------
(* The forking server.                                                      *)

ClientStates == {"absent", "open", "asked", "left"}
ParentLabels == {"accept", "fork", "close", "gone"}
ChildLabels == {"none", "recv", "send", "exit", "zombie", "reaped"}

TypeOK ==
  /\ client \in [Conns -> ClientStates]
  /\ backlog \in Seq(Conns)
  /\ answered \subseteq Conns /\ ended \subseteq Conns
  /\ parent \in ParentLabels
  /\ clientfd \in Conns \union {NoConn}
  /\ held \subseteq Conns /\ unserved \subseteq Conns
  /\ sigchld \in BOOLEAN /\ handling \in BOOLEAN
  /\ child \in [Conns -> ChildLabels]
  /\ killed \subseteq Conns

(* Where the parent stands says whether it deals with a connection, and one *)
(* that is about to be forked for has no child yet.                         *)
ParentInv ==
  /\ parent \in {"fork", "close"} => clientfd \in Conns
  /\ parent \in {"accept", "gone"} => clientfd = NoConn
  /\ parent = "fork" => child[clientfd] = "none" /\ clientfd \notin Elements(backlog)

(* A connection waits in the backlog once, before it has a child.           *)
BacklogInv ==
  /\ Distinct(backlog)
  /\ \A c \in Elements(backlog) : child[c] = "none" /\ client[c] # "absent"
  /\ \A c \in Conns : client[c] = "absent" => child[c] = "none" /\ c # clientfd

IInv == TypeOK /\ ParentInv /\ BacklogInv /\ HandedOver /\ NoZombieForgotten

-----------------------------------------------------------------------------
(* The server as it starts.                                                 *)
LEMMA InvInit == Init => IInv
<1> SUFFICES ASSUME Init PROVE IInv
  OBVIOUS
<1> USE ConnsAssumption DEF Init
<1>1. TypeOK
  BY EmptySeq DEF TypeOK, ClientStates, ParentLabels, ChildLabels
<1>2. ParentInv /\ BacklogInv
  BY EmptyQueueMembers DEF ParentInv, BacklogInv
<1>3. HandedOver /\ NoZombieForgotten
  BY DEF HandedOver, NoZombieForgotten, Zombie
<1> QED BY <1>1, <1>2, <1>3 DEF IInv

(* A client connects: it joins the backlog, where it has never been.        *)
LEMMA ConnectStep == ASSUME IInv, NEW c \in Conns, Connect(c) PROVE IInv'
<1> USE DEF IInv, serviceVars, childVars, signalVars
<1>1. /\ backlog' = Append(backlog, c) /\ client' = [client EXCEPT ![c] = "open"]
      /\ UNCHANGED <<parent, clientfd, held, unserved, sigchld, handling, answered, ended, child, killed>>
  BY DEF Connect
<1>2. backlog' \in Seq(Conns) /\ Elements(backlog') = Elements(backlog) \union {c}
  <2>1. backlog' = Pushed(backlog, c, FALSE) /\ backlog \in Seq(Conns)
    BY <1>1 DEF Pushed, TypeOK
  <2>2. ASSUME NEW front \in BOOLEAN, front = FALSE
        PROVE  /\ Pushed(backlog, c, front) \in Seq(Conns)
               /\ Elements(Pushed(backlog, c, front)) = Elements(backlog) \union {c}
    BY <2>1, PushedProperties
  <2>3. /\ Pushed(backlog, c, FALSE) \in Seq(Conns)
        /\ Elements(Pushed(backlog, c, FALSE)) = Elements(backlog) \union {c}
    BY <2>2
  <2> QED BY <2>1, <2>3
<1>3. client[c] = "absent" /\ c \notin Elements(backlog) /\ child[c] = "none" /\ c # clientfd
  BY DEF Connect, BacklogInv
<1>4. Distinct(backlog')
  <2>1. backlog' = Pushed(backlog, c, FALSE) /\ backlog \in Seq(Conns) /\ Distinct(backlog)
    BY <1>1 DEF Pushed, TypeOK, BacklogInv
  <2> QED BY <1>3, <2>1, PushedDistinct
<1>5. TypeOK'
  BY <1>1, <1>2 DEF TypeOK, ClientStates
<1>6. ParentInv'
  BY <1>1, <1>2, <1>3 DEF ParentInv
<1>7. BacklogInv'
  BY <1>1, <1>2, <1>3, <1>4 DEF BacklogInv, TypeOK, ClientStates
<1>8. HandedOver' /\ NoZombieForgotten'
  BY <1>1 DEF HandedOver, NoZombieForgotten, Zombie
<1> QED BY <1>5, <1>6, <1>7, <1>8

(* A client asks or leaves: only its own state changes.                     *)
LEMMA ClientStep == ASSUME IInv, NEW c \in Conns, Ask(c) \/ Leave(c) PROVE IInv'
<1> USE DEF IInv, parentVars, serviceVars, childVars, signalVars
<1>1. /\ \E s \in {"asked", "left"} : client' = [client EXCEPT ![c] = s]
      /\ client[c] # "absent"
      /\ UNCHANGED <<backlog, parent, clientfd, held, unserved, sigchld, handling, answered, ended, child, killed>>
  BY DEF Ask, Leave
<1>2. \A d \in Conns : client'[d] = "absent" <=> client[d] = "absent"
  BY <1>1 DEF TypeOK
<1>3. TypeOK'
  BY <1>1 DEF TypeOK, ClientStates
<1>4. Elements(backlog) \subseteq Conns
  BY MemberNonEmpty DEF TypeOK
<1>5. ParentInv' /\ BacklogInv'
  BY <1>1, <1>2, <1>4 DEF ParentInv, BacklogInv
<1>6. HandedOver' /\ NoZombieForgotten'
  BY <1>1 DEF HandedOver, NoZombieForgotten, Zombie
<1> QED BY <1>3, <1>5, <1>6

-----------------------------------------------------------------------------
(* accept takes the connection at the head of the backlog, which has no     *)
(* child yet; until then the parent held only what fork had failed for.     *)
LEMMA AcceptStep == ASSUME IInv, Accept PROVE IInv'
<1> DEFINE h == Head(backlog)
<1> USE DEF IInv, serviceVars, childVars, signalVars
<1>1. /\ parent = "accept" /\ parent' = "fork" /\ backlog # <<>>
      /\ clientfd' = h /\ backlog' = Tail(backlog) /\ held' = held \union {h}
      /\ UNCHANGED <<client, unserved, sigchld, handling, answered, ended, child, killed>>
  BY DEF Accept
<1>2. /\ h \in Elements(backlog) /\ h \in Conns
      /\ backlog' \in Seq(Conns)
      /\ Elements(backlog') = Elements(backlog) \ {h}
      /\ Distinct(backlog')
  <2>1. backlog \in Seq(Conns) /\ Distinct(backlog)
    BY DEF TypeOK, BacklogInv
  <2> QED BY <1>1, <2>1, PoppedProperties
<1> HIDE DEF h
<1>3. child[h] = "none" /\ client[h] # "absent"
  BY <1>2 DEF BacklogInv
<1>4. TypeOK'
  BY <1>1, <1>2 DEF TypeOK, ParentLabels
<1>5. ParentInv'
  BY <1>1, <1>2, <1>3 DEF ParentInv
<1>6. BacklogInv'
  BY <1>1, <1>2, <1>3 DEF BacklogInv
<1>7. HandedOver'
  BY <1>1, ConnsAssumption DEF HandedOver, ParentInv, TypeOK
<1>8. NoZombieForgotten'
  BY <1>1 DEF NoZombieForgotten, Zombie
<1> QED BY <1>4, <1>5, <1>6, <1>7, <1>8

(* fork makes the child of the connection the parent deals with; it fails   *)
(* and leaves the connection unserved, or the parent closes its descriptor. *)
LEMMA ParentStepInv ==
  ASSUME IInv, Fork \/ ForkFails \/ CloseInParent PROVE IInv'
<1> USE DEF IInv, serviceVars, childVars, signalVars
<1>1. CASE Fork
  <2>1. /\ parent = "fork" /\ parent' = "close" /\ clientfd \in Conns
        /\ child' = [child EXCEPT ![clientfd] = "recv"]
        /\ child[clientfd] = "none" /\ clientfd \notin Elements(backlog)
        /\ UNCHANGED <<client, backlog, clientfd, held, unserved, sigchld, handling, answered, ended, killed>>
    BY <1>1 DEF Fork, Goto, ParentInv
  <2>2. TypeOK' /\ ParentInv'
    BY <2>1 DEF TypeOK, ParentInv, ParentLabels, ChildLabels
  <2>3. \A c \in Conns : child'[c] = IF c = clientfd THEN "recv" ELSE child[c]
    BY <2>1 DEF TypeOK
  <2>4. Elements(backlog) \subseteq Conns
    BY MemberNonEmpty DEF TypeOK
  <2>5. BacklogInv'
    BY <2>1, <2>3, <2>4 DEF BacklogInv
  <2>6. HandedOver'
    BY <2>1, <2>3 DEF HandedOver, TypeOK
  <2>7. NoZombieForgotten'
    BY <2>1, <2>3 DEF NoZombieForgotten, Zombie, ParentInv
  <2> QED BY <2>2, <2>5, <2>6, <2>7
<1>2. CASE ForkFails \/ CloseInParent
  <2>1. /\ parent \in {"fork", "close"} /\ parent' = "accept"
        /\ clientfd \in Conns /\ clientfd' = NoConn
        /\ held' \subseteq held
        /\ held' \subseteq unserved'
        /\ unserved' \subseteq unserved \union {clientfd}
        /\ UNCHANGED <<client, backlog, sigchld, handling, answered, ended, child, killed>>
    BY <1>2 DEF ForkFails, CloseInParent, HandedOver, ParentInv
  <2>2. TypeOK' /\ ParentInv'
    BY <2>1 DEF TypeOK, ParentInv, ParentLabels
  <2>3. BacklogInv'
    BY <2>1, ConnsAssumption DEF BacklogInv
  <2>4. HandedOver' /\ NoZombieForgotten'
    BY <2>1 DEF HandedOver, NoZombieForgotten, Zombie
  <2> QED BY <2>2, <2>3, <2>4
<1> QED BY <1>1, <1>2

-----------------------------------------------------------------------------
(* The handler clears the pending bit only as it starts to wait, and leaves *)
(* only when no child is left.                                              *)
LEMMA HandlerStepInv == ASSUME IInv, HandlerStep PROVE IInv'
<1> USE DEF IInv, serviceVars, childVars, parentVars, signalVars
<1>1. CASE EnterHandler \/ LeaveHandler
  <2>1. /\ sigchld' \in BOOLEAN /\ handling' \in BOOLEAN
        /\ handling' \/ Unreaped = {}
        /\ UNCHANGED <<client, backlog, parent, clientfd, held, unserved, answered, ended, child, killed>>
    BY <1>1 DEF EnterHandler, LeaveHandler, TypeOK
  <2>2. TypeOK' /\ ParentInv' /\ BacklogInv' /\ HandedOver'
    BY <2>1 DEF TypeOK, ParentInv, BacklogInv, HandedOver
  <2>3. NoZombieForgotten'
    BY <2>1 DEF NoZombieForgotten, Zombie, Unreaped
  <2> QED BY <2>2, <2>3
<1>2. CASE Reap
  <2>1. /\ handling
        /\ UNCHANGED <<client, backlog, parent, clientfd, held, unserved, sigchld, handling, answered, ended, killed>>
    BY <1>2 DEF Reap
  <2>2. PICK c \in Conns : child[c] = "zombie" /\ child' = [child EXCEPT ![c] = "reaped"]
    BY <1>2 DEF Reap, Goto, Zombie
  <2>3. \A d \in Conns : child'[d] = IF d = c THEN "reaped" ELSE child[d]
    BY <2>2 DEF TypeOK
  <2>4. Elements(backlog) \subseteq Conns
    BY MemberNonEmpty DEF TypeOK
  <2>5. TypeOK'
    BY <2>1, <2>2 DEF TypeOK, ChildLabels
  <2>6. ParentInv' /\ BacklogInv'
    BY <2>1, <2>2, <2>3, <2>4 DEF ParentInv, BacklogInv
  <2>7. HandedOver' /\ NoZombieForgotten'
    BY <2>1, <2>2, <2>3 DEF HandedOver, NoZombieForgotten, TypeOK
  <2> QED BY <2>5, <2>6, <2>7
<1> QED BY <1>1, <1>2 DEF HandlerStep

(* Ctrl-C ends the parent: nothing it was responsible for is left.          *)
LEMMA InterruptStep == ASSUME IInv, InterruptParent PROVE IInv'
<1> USE DEF IInv, serviceVars, childVars
<1>1. /\ parent' = "gone" /\ clientfd' = NoConn /\ held' = {} /\ backlog' = <<>>
      /\ sigchld' = FALSE /\ handling' = FALSE
      /\ UNCHANGED <<client, unserved, answered, ended, child, killed>>
  BY DEF InterruptParent
<1>2. TypeOK'
  BY <1>1, EmptySeq DEF TypeOK, ParentLabels
<1>3. ParentInv' /\ BacklogInv'
  BY <1>1, EmptyQueueMembers, ConnsAssumption DEF ParentInv, BacklogInv
<1>4. HandedOver' /\ NoZombieForgotten'
  BY <1>1 DEF HandedOver, NoZombieForgotten
<1> QED BY <1>2, <1>3, <1>4

-----------------------------------------------------------------------------
(* A child receives and sends: its connection had left the backlog and the  *)
(* parent before there was a child.                                         *)
LEMMA ServiceStep ==
  ASSUME IInv, NEW c \in Conns, Recv(c) \/ Send(c) PROVE IInv'
<1> USE DEF IInv, serviceVars, parentVars, signalVars
<1>1. /\ child[c] \in {"recv", "send"}
      /\ \E s \in {"send", "exit"} : child' = [child EXCEPT ![c] = s]
      /\ answered' \subseteq answered \union {c}
      /\ UNCHANGED <<client, backlog, parent, clientfd, held, unserved, sigchld, handling, ended, killed>>
  BY DEF Recv, Send, Goto
<1>2. /\ \A d \in Conns : d # c => child'[d] = child[d]
      /\ child'[c] \in {"send", "exit"}
  BY <1>1 DEF TypeOK
<1>3. Elements(backlog) \subseteq Conns
  BY MemberNonEmpty DEF TypeOK
<1>4. TypeOK'
  BY <1>1 DEF TypeOK, ChildLabels
<1>5. ParentInv' /\ BacklogInv'
  BY <1>1, <1>2, <1>3 DEF ParentInv, BacklogInv
<1>6. HandedOver' /\ NoZombieForgotten'
  BY <1>1, <1>2 DEF HandedOver, NoZombieForgotten, Zombie, TypeOK
<1> QED BY <1>4, <1>5, <1>6

(* A child exits, of itself or by a signal: it becomes a zombie, and        *)
(* SIGCHLD is pending while there is a parent to get it.                    *)
LEMMA ExitStep ==
  ASSUME IInv, NEW c \in Conns, ChildExits(c) \/ InterruptChild(c) PROVE IInv'
<1> USE DEF IInv, parentVars
<1>1. /\ child[c] \in {"recv", "send", "exit"}
      /\ child' = [child EXCEPT ![c] = "zombie"]
      /\ sigchld' = (parent # "gone")
      /\ ended' \subseteq ended \union {c} /\ killed' \subseteq killed \union {c}
      /\ UNCHANGED <<client, backlog, parent, clientfd, held, unserved, handling, answered>>
  BY DEF ChildExits, InterruptChild, Exit, Goto, Lives
<1>2. \A d \in Conns : child'[d] = IF d = c THEN "zombie" ELSE child[d]
  BY <1>1 DEF TypeOK
<1>3. Elements(backlog) \subseteq Conns
  BY MemberNonEmpty DEF TypeOK
<1>4. TypeOK'
  BY <1>1 DEF TypeOK, ChildLabels
<1>5. ParentInv' /\ BacklogInv'
  BY <1>1, <1>2, <1>3 DEF ParentInv, BacklogInv
<1>6. HandedOver' /\ NoZombieForgotten'
  BY <1>1, <1>2 DEF HandedOver, NoZombieForgotten, Zombie, TypeOK
<1> QED BY <1>4, <1>5, <1>6

-----------------------------------------------------------------------------
(* The invariant holds in every state of the server.                        *)
THEOREM ServerInvariant == Spec => []IInv
<1>1. IInv /\ [Next]_vars => IInv'
  <2> SUFFICES ASSUME IInv, [Next]_vars PROVE IInv'
    OBVIOUS
  <2>0. CASE UNCHANGED vars
    BY <2>0 DEF vars, parentVars, signalVars, serviceVars, childVars, IInv, TypeOK,
       ParentInv, BacklogInv, HandedOver, NoZombieForgotten, Zombie
  <2>1. ASSUME NEW c \in Conns, Connect(c) \/ Ask(c) \/ Leave(c) PROVE IInv'
    BY <2>1, ConnectStep, ClientStep
  <2>2. ASSUME NEW c \in Conns, ChildStep(c) \/ InterruptChild(c) PROVE IInv'
    BY <2>2, ServiceStep, ExitStep DEF ChildStep
  <2>3. CASE ParentStep
    BY <2>0, <2>3, AcceptStep, ParentStepInv DEF ParentStep, AcceptFails
  <2>4. CASE HandlerStep
    BY <2>4, HandlerStepInv
  <2>5. CASE InterruptParent
    BY <2>5, InterruptStep
  <2> QED BY <2>0, <2>1, <2>2, <2>3, <2>4, <2>5 DEF Next
<1> QED BY InvInit, <1>1, PTL DEF Spec

(* sig_chil: signals of several children merge into one, yet while the      *)
(* parent lives a child that exited is about to be reaped.                  *)
THEOREM ZombiesAreReaped == Spec => []NoZombieForgotten
<1>1. IInv => NoZombieForgotten
  BY DEF IInv
<1> QED BY ServerInvariant, <1>1, PTL

(* The accept loop and the child: the parent keeps a connection only while  *)
(* it deals with it or when fork failed for it, and nobody but its own      *)
(* child shuts it down.                                                     *)
THEOREM ConnectionsHandedOver == Spec => []HandedOver
<1>1. IInv => HandedOver
  BY DEF IInv
<1> QED BY ServerInvariant, <1>1, PTL

-----------------------------------------------------------------------------
(* The children of fork, vfork and system.                                  *)

KidLabels == {"none", "runs", "zombie", "reaped"}

(* Nothing has happened before the start.  The two programs that reap with  *)
(* waitpid have no child before they stand there, since their first fork is *)
(* their last.                                                              *)
KidInv ==
  /\ kid \in [Kids -> KidLabels]
  /\ forks \in Nat
  /\ main = "off" => prog = "none" /\ forks = 0
  /\ prog = "none" => main = "off"
  /\ prog \in Programs \union {"none"}
  /\ prog \in {"none", "do_system", "forkDemo"} /\ main \notin {"waitpid", "ended"} =>
       \A i \in Kids : kid[i] = "none"
  /\ prog \in {"do_system", "forkDemo"} /\ main = "fork" => forks = 0
  /\ ChildrenReaped

(* What MainGoes does: a process that ends leaves no zombie.                *)
LEMMA Going ==
  ASSUME KidInv, NEW next, MainGoes(next)
  PROVE  /\ main' = next
         /\ kid' \in [Kids -> KidLabels]
         /\ \A i \in Kids : kid[i] = "none" => kid'[i] = "none"
         /\ next = "ended" => \A i \in Kids : kid'[i] # "zombie"
         /\ next # "ended" => kid' = kid /\ chld' = chld
  BY DEF MainGoes, Orphan, KidInv, KidLabels

(* The start of a program.                                                  *)
LEMMA StartInv == ASSUME KidInv, StartProgram PROVE KidInv'
  BY DEF StartProgram, KidInv, ChildrenReaped, Programs

(* A fork: the child runs, and with a single turn the parent waits for it.  *)
LEMMA ForkInv == ASSUME KidInv, ForkKid PROVE KidInv'
<1>1. /\ main = "fork" /\ ~ inHandler /\ forks' = forks + 1
      /\ main' = IF forks' = Turns[prog] THEN AfterForks ELSE "fork"
      /\ kid' = [kid EXCEPT ![forks'] = "runs"]
      /\ UNCHANGED <<prog, chld, inHandler>>
  BY DEF ForkKid
<1>2. prog \in Programs
  BY <1>1 DEF KidInv
<1>3. main' # "off" /\ forks' \in Nat /\ kid' \in [Kids -> KidLabels]
  <2>1. AfterForks # "off"
    BY <1>2 DEF AfterForks, Programs
  <2>2. forks' \in Nat
    BY <1>1 DEF KidInv
  <2>3. kid' \in [Kids -> KidLabels]
    BY <1>1 DEF KidInv, KidLabels
  <2> QED BY <1>1, <2>1, <2>2, <2>3
<1>4. \A i \in Kids : kid'[i] = "zombie" => kid[i] = "zombie"
  BY <1>1 DEF KidInv
<1>5. CASE prog \in {"do_system", "forkDemo"}
  <2>1. Turns[prog] = 1
    BY <1>5 DEF Turns
  <2>2. main' = "waitpid"
    BY <1>1, <1>5, <2>1 DEF AfterForks, KidInv
  <2> QED BY <1>1, <1>2, <1>3, <1>4, <1>5, <2>2 DEF KidInv, ChildrenReaped, Programs
<1>6. CASE prog \notin {"do_system", "forkDemo"}
  <2>1. main' # "waitpid" /\ main # "waitpid"
    BY <1>1, <1>2, <1>6 DEF AfterForks, Programs
  <2> QED BY <1>1, <1>2, <1>3, <1>4, <1>6, <2>1 DEF KidInv, ChildrenReaped, Programs
<1> QED BY <1>5, <1>6

(* A fork that fails makes no child.                                        *)
LEMMA ForkFailsInv == ASSUME KidInv, ForkKidFails PROVE KidInv'
<1>1. /\ main = "fork" /\ forks' = forks + 1
      /\ main' = IF prog # "signalDemo" THEN "return"
                 ELSE IF forks' = Turns[prog] THEN AfterForks ELSE "fork"
      /\ UNCHANGED <<prog, kid, chld, inHandler>>
  BY DEF ForkKidFails
<1>2. prog \in Programs
  BY <1>1 DEF KidInv
<1>3. main' \in {"return", "alarm", "fork"} /\ (prog # "signalDemo" => main' = "return")
  BY <1>1, <1>2 DEF AfterForks
<1> QED BY <1>1, <1>2, <1>3 DEF KidInv, ChildrenReaped, Programs

(* The other steps of main, and a signal that ends it.                      *)
LEMMA MainInv ==
  ASSUME KidInv, Return \/ Resume \/ WaitForKid \/ SetAlarm \/ Pause \/ KillMain
  PROVE  KidInv'
<1>1. PICK next \in {"ended", "toPause", "pause"} :
        MainGoes(next) /\ (next # "ended" => main \in {"alarm", "toPause"} /\ inHandler' = inHandler)
  BY DEF Return, Resume, WaitForKid, SetAlarm, Pause, KillMain
<1>2. prog' = prog /\ forks' = forks /\ main # "off"
  BY DEF Return, Resume, WaitForKid, SetAlarm, Pause, KillMain
<1>3. /\ main' = next
      /\ kid' \in [Kids -> KidLabels]
      /\ \A i \in Kids : kid[i] = "none" => kid'[i] = "none"
      /\ next = "ended" => \A i \in Kids : kid'[i] # "zombie"
      /\ next # "ended" => kid' = kid /\ chld' = chld
  BY <1>1, Going
<1> QED BY <1>1, <1>2, <1>3 DEF KidInv, ChildrenReaped

(* The handler of do_fork comes back only when no child is left; that of    *)
(* signalDemo reaps nobody.                                                 *)
LEMMA HandlerInv == ASSUME KidInv, Handlers PROVE KidInv'
<1>1. CASE EnterKidHandler \/ Collect \/ LeaveKidHandler
  BY <1>1 DEF EnterKidHandler, Collect, LeaveKidHandler, KidsLeft, KidInv, KidLabels, ChildrenReaped
<1>2. CASE SignalChld
  <2>1. CASE main = "pause"
    <3>1. /\ MainGoes("ended") /\ prog = "signalDemo"
          /\ UNCHANGED <<prog, forks, inHandler>>
      BY <1>2, <2>1 DEF SignalChld
    <3>2. main' = "ended" /\ kid' \in [Kids -> KidLabels]
      BY <3>1, Going
    <3> QED BY <2>1, <3>1, <3>2 DEF KidInv, ChildrenReaped
  <2>2. CASE main # "pause"
    BY <1>2, <2>2 DEF SignalChld, KidInv, ChildrenReaped
  <2> QED BY <2>1, <2>2
<1>3. CASE SignalAlarm
  <2>1. /\ MainGoes(IF main = "pause" THEN "ended" ELSE main) /\ main # "ended"
        /\ UNCHANGED <<prog, forks, inHandler>>
    BY <1>3 DEF SignalAlarm, Woken
  <2>2. CASE main = "pause"
    BY <2>1, <2>2, Going DEF KidInv, ChildrenReaped
  <2>3. CASE main # "pause"
    BY <2>1, <2>3, Going DEF KidInv, ChildrenReaped
  <2> QED BY <2>2, <2>3
<1> QED BY <1>1, <1>2, <1>3 DEF Handlers

(* A child exits: somebody hears of it, or nobody has to.                   *)
LEMMA ExitInv == ASSUME KidInv, NEW i \in Kids, KidExits(i) PROVE KidInv'
<1>1. /\ kid[i] = "runs"
      /\ kid' = [kid EXCEPT ![i] =
           IF prog = "do_vfork" \/ main = "ended" THEN "reaped" ELSE "zombie"]
      /\ chld' = (chld \/ (Handles /\ main # "ended"))
      /\ UNCHANGED <<prog, main, forks, inHandler>>
  BY DEF KidExits
<1>2. \A j \in Kids : j # i => kid'[j] = kid[j]
  BY <1>1 DEF KidInv
<1>3. ~ (prog \in {"none", "do_system", "forkDemo"} /\ main \notin {"waitpid", "ended"})
  BY <1>1 DEF KidInv
<1>4. kid'[i] = "zombie" /\ prog # "signalDemo" => chld' \/ main' = "waitpid"
  BY <1>1, <1>3 DEF KidInv, Handles, Programs
<1>5. kid' \in [Kids -> KidLabels]
  BY <1>1 DEF KidInv, KidLabels
<1>6. ChildrenReaped'
  BY <1>1, <1>2, <1>4 DEF KidInv, ChildrenReaped
<1> QED BY <1>1, <1>3, <1>5, <1>6 DEF KidInv

-----------------------------------------------------------------------------
(* signal_handler of do_fork, SIG_IGN of do_vfork, waitpid of the others:   *)
(* a child that exited is reaped or about to be.                            *)
THEOREM NoZombieStays == KidSpec => []ChildrenReaped
<1>1. KidInit => KidInv
  BY DEF KidInit, KidInv, KidLabels, ChildrenReaped
<1>2. KidInv /\ [KidNext]_kidVars => KidInv'
  <2> SUFFICES ASSUME KidInv, [KidNext]_kidVars PROVE KidInv'
    OBVIOUS
  <2>1. CASE MainThread \/ KillMain
    BY <2>1, ForkInv, ForkFailsInv, MainInv DEF MainThread
  <2>2. CASE UNCHANGED kidVars
    BY <2>2 DEF kidVars, KidInv, ChildrenReaped
  <2> QED BY <2>1, <2>2, StartInv, HandlerInv, ExitInv DEF KidNext
<1>3. KidInv => ChildrenReaped
  BY DEF KidInv
<1> QED BY <1>1, <1>2, <1>3, PTL DEF KidSpec

-----------------------------------------------------------------------------
(* The process tree of tcpClient.                                           *)

(* Every process of the stack but the one on top waits for the one above    *)
(* it, in the turn it forked it in.                                         *)
TreeShape ==
  /\ tree \in Seq([i : 0 .. ClientCount, at : {"fork", "wait", "middle"}])
  /\ \A p \in 1 .. Len(tree) :
       /\ p < Len(tree) <=> tree[p].at = "wait"
       /\ tree[p].at \in {"wait", "middle"} => tree[p].i < ClientCount
  /\ tree # <<>> /\ Top.at = "middle" =>
       Len(tree) > 1 /\ tree[Len(tree) - 1].i = Top.i
  /\ living \in Nat
  /\ launched \in [TurnsOf -> Nat]
  /\ orphaned \in [TurnsOf -> Nat]

(* Turn i is still to be taken by the process at position p, be it that the *)
(* process in the middle it waits for has not forked yet.                   *)
ToTake(p, i) ==
  \/ tree[p].at = "fork" /\ tree[p].i <= i
  \/ tree[p].at = "wait" /\ tree[p].i < i
  \/ tree[p].at = "wait" /\ tree[p].i = i /\ tree[p + 1].at = "middle"

Takers(i) == {p \in 1 .. Len(tree) : ToTake(p, i)}
Orphaned(i) == SumFunctionOnSet(orphaned, 0 .. i - 1)

(* Turn i has been taken, or is to be taken, once by the first launcher and *)
(* once by every process that was left in the loop before it.               *)
TreeInv ==
  /\ TreeShape
  /\ \A i \in TurnsOf : launched[i] + orphaned[i] + Cardinality(Takers(i)) = 1 + Orphaned(i)

(* The process on top, and the ones below.                                  *)
LEMMA TopOfTree ==
  ASSUME TreeShape, tree # <<>>
  PROVE  /\ Len(tree) \in Nat \ {0}
         /\ Top = tree[Len(tree)] /\ Top.i \in 0 .. ClientCount /\ Top.at \in {"fork", "middle"}
         /\ \A p \in 1 .. Len(tree) - 1 : tree[p].at = "wait" /\ tree[p].i \in TurnsOf
         /\ \A p \in 1 .. Len(tree) : tree[p] \in [i : 0 .. ClientCount, at : {"fork", "wait", "middle"}]
         /\ Top.at = "middle" => Top.i \in TurnsOf
<1>1. Len(tree) \in Nat \ {0}
  BY EmptySeq DEF TreeShape
<1>2. Top = tree[Len(tree)]
  BY DEF Top, Last
<1>3. \A p \in 1 .. Len(tree) : tree[p] \in [i : 0 .. ClientCount, at : {"fork", "wait", "middle"}]
  BY ElementOfSeq DEF TreeShape
<1>4. Len(tree) \in 1 .. Len(tree) /\ \A p \in 1 .. Len(tree) - 1 : p \in 1 .. Len(tree) /\ p < Len(tree)
  BY <1>1
<1>5. \A p \in 1 .. Len(tree) - 1 : tree[p].at = "wait" /\ tree[p].i \in TurnsOf
  BY <1>3, <1>4, DoubleForkAssumption DEF TreeShape, TurnsOf
<1>6. Top.i \in 0 .. ClientCount /\ Top.at \in {"fork", "middle"}
  BY <1>1, <1>2, <1>3, <1>4 DEF TreeShape
<1>7. Top.at = "middle" => Top.i \in TurnsOf
  <2>1. tree[Len(tree)].at = "middle" => tree[Len(tree)].i < ClientCount
    BY <1>4 DEF TreeShape
  <2> QED BY <1>2, <1>6, <2>1, DoubleForkAssumption DEF TurnsOf
<1> QED BY <1>1, <1>2, <1>3, <1>5, <1>6, <1>7

(* What an exit on top does to the stack.                                   *)
LEMMA ExitOnTop ==
  ASSUME TreeShape, tree # <<>>, TopExits
  PROVE  /\ Len(tree) = 1 => tree' = <<>>
         /\ Len(tree) > 1 =>
              /\ Len(tree') = Len(tree) - 1
              /\ tree' \in Seq([i : 0 .. ClientCount, at : {"fork", "wait", "middle"}])
              /\ \A p \in 1 .. Len(tree) - 2 : tree'[p] = tree[p]
              /\ tree'[Len(tree) - 1] = [i |-> tree[Len(tree) - 1].i + 1, at |-> "fork"]
<1> DEFINE n == Len(tree)
           Proc == [i : 0 .. ClientCount, at : {"fork", "wait", "middle"}]
           below == SubSeq(tree, 1, n - 1)
<1>1. n \in Nat \ {0}
  BY TopOfTree
<1>2. CASE n = 1
  BY <1>2 DEF TopExits
<1>3. CASE n > 1
  <2>1. below \in Seq(Proc) /\ Len(below) = n - 1 /\ \A p \in 1 .. n - 1 : below[p] = tree[p]
    <3>1. tree \in Seq(Proc) /\ 1 \in 1 .. Len(tree) /\ n - 1 \in 1 .. Len(tree)
      BY <1>1, <1>3 DEF TreeShape
    <3> HIDE DEF Proc
    <3> QED BY <3>1, <1>1, <1>3, SubSeqProperties
  <2>2. tree' = [below EXCEPT ![n - 1] = Launcher(below[n - 1].i + 1)]
    <3>1. Front(tree) = below
      BY DEF Front
    <3>2. tree' = ReplaceAt(below, Len(below), Launcher(Last(below).i + 1))
      <4> HIDE DEF below
      <4> QED BY <1>1, <1>3, <3>1 DEF TopExits
    <3>3. Last(below) = below[Len(below)]
      BY DEF Last
    <3> HIDE DEF below
    <3> QED BY <2>1, <3>2, <3>3 DEF ReplaceAt
  <2>3. n - 1 \in 1 .. n - 1 /\ tree[n - 1].i \in TurnsOf
    BY <1>1, <1>3, TopOfTree
  <2>4. Launcher(below[n - 1].i + 1) = [i |-> tree[n - 1].i + 1, at |-> "fork"]
    BY <2>1, <2>3 DEF Launcher
  <2>5. [i |-> tree[n - 1].i + 1, at |-> "fork"] \in Proc
    BY <2>3, DoubleForkAssumption DEF TurnsOf
  <2>6. /\ tree' \in Seq(Proc) /\ Len(tree') = n - 1
        /\ tree'[n - 1] = [i |-> tree[n - 1].i + 1, at |-> "fork"]
        /\ \A p \in 1 .. n - 2 : tree'[p] = below[p]
    <3> DEFINE r == [i |-> tree[n - 1].i + 1, at |-> "fork"]
    <3>1. tree' = [below EXCEPT ![n - 1] = r] /\ r \in Proc
      BY <2>2, <2>4, <2>5
    <3> HIDE DEF below, Proc, r
    <3>2. tree' \in Seq(Proc) /\ Len(tree') = n - 1 /\ tree'[n - 1] = r
          /\ \A p \in 1 .. n - 1 : p # n - 1 => tree'[p] = below[p]
      BY <2>1, <2>3, <3>1, ExceptSeq
    <3>3. \A p \in 1 .. n - 2 : p \in 1 .. n - 1 /\ p # n - 1
      BY <1>1
    <3> QED BY <3>2, <3>3 DEF r
  <2>7. \A p \in 1 .. n - 2 : tree'[p] = tree[p]
    BY <1>1, <2>1, <2>6
  <2> QED BY <1>3, <2>6, <2>7
<1> QED BY <1>1, <1>2, <1>3

(* The counts are numbers.                                                  *)
LEMMA TreeCounts ==
  ASSUME TreeShape, NEW i \in TurnsOf
  PROVE  /\ IsFiniteSet(Takers(i)) /\ Cardinality(Takers(i)) \in Nat
         /\ Orphaned(i) \in Int
         /\ launched[i] \in Nat /\ orphaned[i] \in Nat
<1>1. Len(tree) \in Nat
  BY LenProperties DEF TreeShape
<1>2. IsFiniteSet(Takers(i))
  <2>1. IsFiniteSet(1 .. Len(tree))
    BY <1>1, FS_Interval
  <2> QED BY <2>1, FS_Subset DEF Takers
<1>3. Orphaned(i) \in Int
  <2>1. IsFiniteSet(0 .. i - 1) /\ \A k \in 0 .. i - 1 : k \in TurnsOf
    BY FS_Interval, DoubleForkAssumption DEF TurnsOf
  <2>2. \A k \in 0 .. i - 1 : orphaned[k] \in Int
    BY <2>1 DEF TreeShape
  <2> QED BY <2>1, <2>2, SumPick DEF Orphaned
<1> QED BY <1>2, <1>3, FS_CardinalityType DEF TreeShape

(* A step that only moves processes on.                                     *)
LEMMA SameTakers ==
  ASSUME TreeInv, TreeShape', \A i \in TurnsOf : Takers(i)' = Takers(i),
         launched' = launched, orphaned' = orphaned
  PROVE  TreeInv'
  BY DEF TreeInv, Orphaned, TurnsOf

(* The first fork: the turn is now that of the process in the middle.       *)
LEMMA MiddleStep == ASSUME TreeInv, ForkMiddle PROVE TreeInv'
<1> DEFINE n == Len(tree)
           k == Top.i
           Proc == [i : 0 .. ClientCount, at : {"fork", "wait", "middle"}]
           wait == [i |-> k, at |-> "wait"]
           middle == [i |-> k, at |-> "middle"]
<1>0. TreeShape /\ tree # <<>> /\ Top.at = "fork" /\ k < ClientCount
  BY DEF TreeInv, ForkMiddle
<1>1. n \in Nat \ {0} /\ Top = tree[n] /\ k \in 0 .. ClientCount /\ tree[n] \in Proc /\ tree \in Seq(Proc)
  BY <1>0, TopOfTree DEF TreeShape
<1>2. wait \in Proc /\ middle \in Proc
  BY <1>1
<1>3. tree' = Append([tree EXCEPT ![n] = wait], middle)
  <2>1. [Top EXCEPT !.at = "wait"] = wait
    BY <1>1
  <2> QED BY <2>1 DEF ForkMiddle, OnTop, ReplaceAt
<1>4. /\ tree' \in Seq(Proc) /\ Len(tree') = n + 1
      /\ tree'[n] = wait /\ tree'[n + 1] = middle
      /\ \A p \in 1 .. n - 1 : tree'[p] = tree[p]
  <2> DEFINE r == [tree EXCEPT ![n] = wait]
  <2> HIDE DEF n, wait, middle, Proc
  <2>1. n = Len(tree) /\ n \in 1 .. Len(tree)
    BY <1>1 DEF n
  <2>2. r \in Seq(Proc) /\ Len(r) = n /\ \A j \in 1 .. n : r[j] = IF j = n THEN wait ELSE tree[j]
    BY <1>1, <1>2, <2>1, ExceptSeq
  <2> HIDE DEF r
  <2>3. tree' = Append(r, middle)
    BY <1>3 DEF r
  <2>4. /\ tree' \in Seq(Proc) /\ Len(tree') = n + 1 /\ tree'[n + 1] = middle
        /\ \A j \in 1 .. n : tree'[j] = r[j]
    BY <1>2, <2>2, <2>3, AppendProperties
  <2> QED BY <1>1, <2>2, <2>4
<1>a. /\ tree[n].at = "fork" /\ tree[n].i = k
      /\ wait.at = "wait" /\ wait.i = k /\ middle.at = "middle" /\ middle.i = k
      /\ \A p \in 1 .. n - 1 : tree[p].at = "wait" /\ tree[p].i < ClientCount
  <2>1. \A p \in 1 .. n - 1 : tree[p].at = "wait" /\ tree[p].i \in TurnsOf
    BY <1>0, TopOfTree
  <2> QED BY <1>0, <1>1, <2>1, DoubleForkAssumption DEF TurnsOf
<1>b. n = Len(tree)
  OBVIOUS
<1> HIDE DEF k, n, wait, middle, Proc
<1>5. TreeShape'
  <2>2. ASSUME NEW p \in 1 .. n + 1
        PROVE  /\ p < n + 1 <=> tree'[p].at = "wait"
               /\ tree'[p].at \in {"wait", "middle"} => tree'[p].i < ClientCount
    <3>1. CASE p \in 1 .. n - 1
      <4>1. p < n + 1 /\ tree'[p] = tree[p] /\ tree[p].at = "wait" /\ tree[p].i < ClientCount
        BY <1>1, <1>4, <1>a, <3>1
      <4> QED BY <4>1
    <3>2. CASE p = n
      BY <1>0, <1>1, <1>4, <1>a, <3>2
    <3>3. CASE p = n + 1
      BY <1>0, <1>1, <1>4, <1>a, <3>3
    <3> QED BY <1>1, <3>1, <3>2, <3>3
  <2>3. Top' = middle /\ Len(tree') > 1 /\ tree'[Len(tree') - 1].i = Top'.i
    <3>1. n + 1 > 1 /\ (n + 1) - 1 = n
      BY <1>1
    <3> QED BY <1>1, <1>4, <1>a, <3>1 DEF Top, Last
  <2>4. UNCHANGED <<living, launched, orphaned>>
    BY DEF ForkMiddle
  <2> QED BY <1>0, <1>4, <2>2, <2>3, <2>4 DEF TreeShape, TurnsOf, Proc
<1>6. ASSUME NEW i \in TurnsOf PROVE Takers(i)' = Takers(i)
  <2>1. ASSUME NEW p \in 1 .. n PROVE ToTake(p, i)' <=> ToTake(p, i)
    <3>1. CASE p = n
      <4>1. tree[n].at = "fork" /\ tree[n].i = k /\ tree'[n].at = "wait" /\ tree'[n].i = k
            /\ tree'[n + 1].at = "middle"
        BY <1>4, <1>a
      <4> QED BY <1>1, <3>1, <4>1 DEF ToTake, TurnsOf
    <3>2. CASE p # n
      <4>1. p \in 1 .. n - 1 /\ tree'[p] = tree[p]
        BY <1>1, <1>4, <3>2
      <4>2. tree[p + 1].at = "middle" <=> tree'[p + 1].at = "middle"
        <5>1. CASE p + 1 = n
          BY <1>4, <1>a, <5>1
        <5>2. CASE p + 1 # n
          <6>1. p + 1 \in 1 .. n - 1
            BY <1>1, <4>1, <5>2
          <6> QED BY <1>4, <6>1
        <5> QED BY <5>1, <5>2
      <4> QED BY <4>1, <4>2 DEF ToTake
    <3> QED BY <3>1, <3>2
  <2>2. ASSUME NEW p, p = n + 1 PROVE ~ ToTake(p, i)'
    BY <2>2, <1>4, <1>a DEF ToTake
  <2>3. 1 .. Len(tree') = (1 .. n) \union {n + 1}
    BY <1>1, <1>4
  <2>4. 1 .. Len(tree) = 1 .. n
    BY <1>b
  <2> QED BY <2>1, <2>2, <2>3, <2>4 DEF Takers
<1> QED BY <1>5, <1>6, SameTakers DEF ForkMiddle

(* The process on top exits: its parent goes on with the turn behind the    *)
(* one it forked in, and a process in the middle takes that one with it.    *)
LEMMA ExitTakers ==
  ASSUME TreeShape, tree # <<>>, TopExits, Top.at = "middle" \/ Top.i = ClientCount,
         living' \in Nat, launched' \in [TurnsOf -> Nat], orphaned' \in [TurnsOf -> Nat]
  PROVE  /\ TreeShape'
         /\ Top.at = "middle" => Len(tree) - 1 \in Takers(Top.i)
         /\ \A i \in TurnsOf :
              Takers(i)' = IF Top.at = "middle" /\ Top.i = i THEN Takers(i) \ {Len(tree) - 1}
                           ELSE Takers(i)
<1> DEFINE n == Len(tree)
           k == tree[n - 1].i
           Proc == [i : 0 .. ClientCount, at : {"fork", "wait", "middle"}]
<1>1. /\ n \in Nat \ {0} /\ Top = tree[n] /\ Top.i \in 0 .. ClientCount
      /\ Top.at \in {"fork", "middle"}
      /\ \A p \in 1 .. n - 1 : tree[p].at = "wait" /\ tree[p].i \in TurnsOf
      /\ Top.at = "middle" => n > 1 /\ k = Top.i
  BY TopOfTree DEF TreeShape
<1>2. \A i \in TurnsOf : i < ClientCount /\ i \in 0 .. ClientCount /\ i + 1 \in 0 .. ClientCount
  BY DoubleForkAssumption DEF TurnsOf
<1>3. CASE n = 1
  <2>1. tree' = <<>> /\ Top.at = "fork" /\ Top.i = ClientCount
    BY <1>1, <1>3, ExitOnTop
  <2>2. TreeShape'
    BY <2>1, EmptySeq DEF TreeShape
  <2>3. ASSUME NEW i \in TurnsOf PROVE Takers(i)' = Takers(i)
    <3>1. ~ ToTake(1, i)
      BY <1>1, <1>2, <1>3, <2>1 DEF ToTake
    <3>2. 1 .. Len(tree) = {1} /\ 1 .. Len(tree') = {}
      BY <1>3, <2>1
    <3> QED BY <3>1, <3>2 DEF Takers
  <2> QED BY <2>1, <2>2, <2>3
<1>4. CASE n > 1
  <2> DEFINE next == [i |-> k + 1, at |-> "fork"]
             m == n - 1
  <2>1. /\ Len(tree') = m /\ tree' \in Seq(Proc)
        /\ \A p \in 1 .. m - 1 : tree'[p] = tree[p]
        /\ tree'[m] = next
    <3>1. n - 2 = m - 1
      BY <1>1
    <3> QED BY <1>4, <3>1, ExitOnTop
  <2>2. /\ m \in Nat \ {0} /\ n = m + 1 /\ k \in TurnsOf
        /\ tree[m].i = k /\ tree[m].at = "wait" /\ next.i = k + 1 /\ next.at = "fork"
        /\ \A p \in 1 .. m - 1 : tree[p].at = "wait" /\ tree[p].i < ClientCount
    <3>1. \A p \in 1 .. m - 1 : p \in 1 .. n - 1
      BY <1>1
    <3>2. m \in 1 .. n - 1 /\ n = m + 1
      BY <1>1, <1>4
    <3> QED BY <1>1, <1>2, <1>4, <3>1, <3>2
  <2> HIDE DEF next, m, Proc, n, k
  <2>3. TreeShape'
    <3>1. ASSUME NEW p \in 1 .. m
          PROVE  /\ p < m <=> tree'[p].at = "wait"
                 /\ tree'[p].at \in {"wait", "middle"} => tree'[p].i < ClientCount
      <4>1. CASE p = m
        BY <2>1, <2>2, <4>1
      <4>2. CASE p # m
        <5>1. p \in 1 .. m - 1 /\ p < m
          BY <2>2, <4>2
        <5>2. tree'[p] = tree[p] /\ tree[p].at = "wait" /\ tree[p].i < ClientCount
          BY <2>1, <2>2, <5>1
        <5> QED BY <5>1, <5>2
      <4> QED BY <4>1, <4>2
    <3>2. Top'.at = "fork"
      BY <2>1, <2>2 DEF Top, Last
    <3> QED BY <2>1, <3>1, <3>2 DEF TreeShape, Proc
  <2>4. ASSUME NEW i \in TurnsOf, NEW p \in 1 .. m - 1 PROVE ToTake(p, i)' <=> ToTake(p, i)
    <3>1. tree'[p] = tree[p] /\ (tree[p + 1].at = "middle" <=> tree'[p + 1].at = "middle")
      <4>1. CASE p + 1 = m
        BY <2>1, <2>2, <4>1
      <4>2. CASE p + 1 # m
        <5>1. p + 1 \in 1 .. m - 1
          BY <2>2, <4>2
        <5> QED BY <2>1, <5>1
      <4> QED BY <4>1, <4>2
    <3> QED BY <3>1 DEF ToTake
  <2>5. ASSUME NEW i \in TurnsOf, NEW p, p = m
        PROVE  /\ ToTake(p, i)' <=> k < i
               /\ ToTake(p, i) <=> k < i \/ (k = i /\ Top.at = "middle")
               /\ ~ ToTake(p + 1, i)
    <3>1. i \in Nat /\ k \in Nat /\ (k + 1 <= i <=> k < i)
      BY <2>2 DEF TurnsOf
    <3>2. tree'[p].at = "fork" /\ tree'[p].i = k + 1
      BY <2>1, <2>2, <2>5
    <3>3. tree[p].at = "wait" /\ tree[p].i = k /\ tree[p + 1] = Top
      BY <1>1, <2>2, <2>5
    <3>4. ~ (Top.at = "fork" /\ Top.i <= i) /\ Top.at # "wait"
      BY <1>1, <1>2, DoubleForkAssumption DEF TurnsOf
    <3> QED BY <3>1, <3>2, <3>3, <3>4 DEF ToTake
  <2>6. 1 .. m = (1 .. m - 1) \union {m} /\ 1 .. n = (1 .. m - 1) \union {m, m + 1}
        /\ m \notin 1 .. m - 1 /\ m + 1 \notin 1 .. m - 1
    BY <2>2
  <2>7. ASSUME NEW i \in TurnsOf
        PROVE  Takers(i)' = IF Top.at = "middle" /\ Top.i = i THEN Takers(i) \ {m} ELSE Takers(i)
    <3>1. /\ Takers(i)' = {p \in 1 .. m : ToTake(p, i)'}
          /\ Takers(i) = {p \in 1 .. n : ToTake(p, i)}
      BY <2>1 DEF Takers, n
    <3>2. \A p : p = m => /\ ToTake(p, i)' <=> k < i
                          /\ ToTake(p, i) <=> k < i \/ (k = i /\ Top.at = "middle")
                          /\ ~ ToTake(p + 1, i)
      BY <2>5
    <3>3. Top.at = "middle" => k = Top.i
      BY <1>1
    <3>4. k \in Nat /\ i \in Nat
      BY <2>2 DEF TurnsOf
    <3>5. \A p \in 1 .. m - 1 : ToTake(p, i)' <=> ToTake(p, i)
      BY <2>4
    <3>6. CASE Top.at = "middle" /\ Top.i = i
      <4>1. ~ (k < i)
        BY <3>3, <3>4, <3>6
      <4> QED BY <2>6, <3>1, <3>2, <3>5, <3>6, <4>1
    <3>7. CASE ~ (Top.at = "middle" /\ Top.i = i)
      <4>1. \A p : p = m => (ToTake(p, i)' <=> ToTake(p, i))
        BY <3>2, <3>3, <3>7
      <4> QED BY <2>6, <3>1, <3>2, <3>5, <3>7, <4>1
    <3> QED BY <3>6, <3>7
  <2>8. Top.at = "middle" => m \in Takers(Top.i)
    <3> SUFFICES ASSUME Top.at = "middle" PROVE m \in Takers(Top.i)
      OBVIOUS
    <3>1. Top.i = k /\ Top.i \in TurnsOf
      BY <1>1, <2>2
    <3>2. ToTake(m, Top.i)
      BY <2>5, <3>1
    <3>3. m \in 1 .. Len(tree)
      BY <2>6 DEF n
    <3> QED BY <3>2, <3>3 DEF Takers
  <2> QED BY <2>3, <2>7, <2>8 DEF m, n
<1>5. n = 1 \/ n > 1
  <2>1. n \in Nat \ {0}
    BY <1>1
  <2> HIDE DEF n
  <2> QED BY <2>1
<1> QED BY <1>3, <1>4, <1>5

(* The second fork: the client of this turn has started.                    *)
LEMMA ClientForkStep == ASSUME TreeInv, ForkClient PROVE TreeInv'
<1> DEFINE k == Top.i
           m == Len(tree) - 1
<1>1. TreeShape /\ tree # <<>> /\ Top.at = "middle" /\ TopExits
  BY DEF TreeInv, ForkClient
<1>2. k \in TurnsOf
  BY <1>1, TopOfTree
<1>3. /\ living' \in Nat /\ orphaned' = orphaned
      /\ launched' = [launched EXCEPT ![k] = @ + 1]
      /\ launched' \in [TurnsOf -> Nat] /\ orphaned' \in [TurnsOf -> Nat]
  BY <1>1, <1>2 DEF ForkClient, TreeShape
<1>4. /\ TreeShape' /\ m \in Takers(k)
      /\ \A i \in TurnsOf : Takers(i)' = IF k = i THEN Takers(i) \ {m} ELSE Takers(i)
  BY <1>1, <1>3, ExitTakers
<1>5. ASSUME NEW i \in TurnsOf
      PROVE  launched'[i] + orphaned'[i] + Cardinality(Takers(i)') = 1 + Orphaned(i)'
  <2>1. Orphaned(i)' = Orphaned(i)
    BY <1>3 DEF Orphaned
  <2>2. /\ IsFiniteSet(Takers(i)) /\ Cardinality(Takers(i)) \in Nat
        /\ launched[i] \in Nat /\ orphaned[i] \in Nat
    BY <1>1, TreeCounts
  <2>3. launched[i] + orphaned[i] + Cardinality(Takers(i)) = 1 + Orphaned(i)
    BY DEF TreeInv
  <2>4. CASE i = k
    <3>1. launched'[i] = launched[i] + 1
      BY <1>1, <1>3, <2>4 DEF TreeShape
    <3>2. Cardinality(Takers(i) \ {m}) = Cardinality(Takers(i)) - 1
      BY <1>4, <2>2, <2>4, FS_RemoveElement
    <3>3. Takers(i)' = Takers(i) \ {m}
      BY <1>4, <2>4
    <3>4. Cardinality(Takers(i)') = Cardinality(Takers(i)) - 1 /\ orphaned'[i] = orphaned[i]
      BY <1>3, <3>2, <3>3
    <3> HIDE DEF m, k
    <3>5. (launched[i] + 1) + orphaned[i] + (Cardinality(Takers(i)) - 1)
            = launched[i] + orphaned[i] + Cardinality(Takers(i))
      BY <2>2
    <3> QED BY <2>1, <2>3, <3>1, <3>4, <3>5
  <2>5. CASE i # k
    <3>1. launched'[i] = launched[i]
      BY <1>1, <1>3, <2>5 DEF TreeShape
    <3> QED BY <1>3, <1>4, <2>1, <2>3, <2>5, <3>1
  <2> QED BY <2>4, <2>5
<1> QED BY <1>4, <1>5 DEF TreeInv, TurnsOf

(* The second fork fails: the process in the middle goes on as a launcher,  *)
(* with all later turns to take, and its parent keeps waiting.              *)
LEMMA LeftInLoop == ASSUME TreeInv, ForkClientFails PROVE TreeInv'
<1> DEFINE n == Len(tree)
           m == n - 1
           k == Top.i
           Proc == [i : 0 .. ClientCount, at : {"fork", "wait", "middle"}]
           next == [i |-> k + 1, at |-> "fork"]
<1>0. TreeShape /\ tree # <<>> /\ Top.at = "middle"
  BY DEF TreeInv, ForkClientFails
<1>1. /\ n \in Nat /\ n > 1 /\ m \in Nat \ {0} /\ n = m + 1 /\ k \in TurnsOf /\ tree \in Seq(Proc)
      /\ tree[n].at = "middle" /\ tree[m].i = k /\ tree[m].at = "wait"
      /\ \A p \in 1 .. m : tree[p].at = "wait" /\ tree[p].i \in TurnsOf
  <2>1. /\ n \in Nat \ {0} /\ Top = tree[n] /\ k \in TurnsOf /\ n > 1 /\ tree[n - 1].i = k
        /\ \A p \in 1 .. n - 1 : tree[p].at = "wait" /\ tree[p].i \in TurnsOf
        /\ tree \in Seq(Proc)
    BY <1>0, TopOfTree DEF TreeShape
  <2>2. m \in 1 .. n - 1 /\ m \in Nat \ {0} /\ n = m + 1
    BY <2>1
  <2> QED BY <1>0, <2>1, <2>2
<1>2. /\ k \in Nat /\ k + 1 \in 0 .. ClientCount /\ k < ClientCount
      /\ next \in Proc /\ next.at = "fork" /\ next.i = k + 1
  BY <1>1, DoubleForkAssumption DEF TurnsOf
<1>b. n = Len(tree)
  OBVIOUS
<1>3. /\ tree' \in Seq(Proc) /\ Len(tree') = n
      /\ tree'[n] = next
      /\ \A p \in 1 .. m : tree'[p] = tree[p]
  <2>1. tree' = [tree EXCEPT ![n] = next]
    BY <1>1 DEF ForkClientFails, OnTop, ReplaceAt, Launcher
  <2> HIDE DEF next, Proc, m, n, k
  <2>2. n \in 1 .. Len(tree)
    BY <1>1, <1>b
  <2>3. tree' \in Seq(Proc) /\ Len(tree') = n /\ \A p \in 1 .. n : tree'[p] = IF p = n THEN next ELSE tree[p]
    BY <1>1, <1>2, <1>b, <2>1, <2>2, ExceptSeq
  <2>4. \A p \in 1 .. m : p \in 1 .. n /\ p # n
    BY <1>1
  <2> QED BY <1>b, <2>2, <2>3, <2>4
<1>4. /\ orphaned' \in [TurnsOf -> Nat] /\ orphaned'[k] = orphaned[k] + 1
      /\ \A i \in TurnsOf : i # k => orphaned'[i] = orphaned[i]
      /\ launched' = launched /\ living' = living
  <2>1. orphaned' = [orphaned EXCEPT ![k] = @ + 1] /\ launched' = launched /\ living' = living
    BY DEF ForkClientFails
  <2>2. orphaned \in [TurnsOf -> Nat] /\ k \in TurnsOf
    BY <1>0, <1>1 DEF TreeShape
  <2> HIDE DEF k
  <2> QED BY <2>1, <2>2
<1> HIDE DEF n, m, k, next, Proc
<1>5. TreeShape'
  <2>1. ASSUME NEW p \in 1 .. n
        PROVE  /\ p < n <=> tree'[p].at = "wait"
               /\ tree'[p].at \in {"wait", "middle"} => tree'[p].i < ClientCount
    <3>1. CASE p = n
      BY <1>1, <1>2, <1>3, <3>1
    <3>2. CASE p # n
      <4>1. p \in 1 .. m /\ p < n
        BY <1>1, <3>2
      <4>2. tree'[p].at = "wait" /\ tree'[p].i \in TurnsOf
        BY <1>1, <1>3, <4>1
      <4> QED BY <4>1, <4>2, DoubleForkAssumption DEF TurnsOf
    <3> QED BY <3>1, <3>2
  <2>2. Top'.at = "fork"
    BY <1>2, <1>3 DEF Top, Last
  <2> QED BY <1>0, <1>3, <1>4, <2>1, <2>2 DEF TreeShape, Proc
<1>6. ASSUME NEW i \in TurnsOf
      PROVE  /\ i = k => Takers(i)' = Takers(i) \ {m} /\ m \in Takers(i)
             /\ k < i => Takers(i)' = Takers(i) \union {n} /\ n \notin Takers(i)
             /\ i < k => Takers(i)' = Takers(i)
  <2>0. i \in Nat /\ k \in Nat /\ (k + 1 <= i <=> k < i)
    BY <1>2, DoubleForkAssumption DEF TurnsOf
  <2>1. ASSUME NEW p \in 1 .. m - 1 PROVE ToTake(p, i)' <=> ToTake(p, i)
    <3>1. p \in 1 .. m /\ p + 1 \in 1 .. m
      BY <1>1
    <3>2. tree'[p] = tree[p] /\ tree'[p + 1] = tree[p + 1]
      BY <1>3, <3>1
    <3> QED BY <3>2 DEF ToTake
  <2>2. ASSUME NEW p, p = m
        PROVE  (ToTake(p, i)' <=> k < i) /\ (ToTake(p, i) <=> k < i \/ k = i)
    <3>1. tree'[p] = tree[p] /\ tree[p].at = "wait" /\ tree[p].i = k
          /\ tree[p + 1].at = "middle" /\ tree'[p + 1].at = "fork"
      <4>1. m \in 1 .. m
        BY <1>1
      <4> QED BY <1>1, <1>2, <1>3, <2>2, <4>1
    <3> QED BY <2>0, <3>1 DEF ToTake
  <2>3. ASSUME NEW p, p = n PROVE (ToTake(p, i)' <=> k < i) /\ ~ ToTake(p, i)
    BY <2>0, <1>1, <1>2, <1>3, <2>3 DEF ToTake
  <2>4. 1 .. n = (1 .. m - 1) \union {m, n} /\ m \notin 1 .. m - 1 /\ n \notin 1 .. m - 1 /\ m # n
    BY <1>1
  <2>5. /\ Takers(i)' = {p \in 1 .. n : ToTake(p, i)'}
        /\ Takers(i) = {p \in 1 .. n : ToTake(p, i)}
    BY <1>3, <1>b DEF Takers
  <2>6. CASE i = k
    <3>1. ~ (k < i)
      BY <2>0, <2>6
    <3>2. ~ (i < k)
      BY <2>0, <2>6
    <3>3. Takers(i)' = Takers(i) \ {m} /\ m \in Takers(i)
      BY <2>1, <2>2, <2>3, <2>4, <2>5, <2>6, <3>1
    <3> QED BY <3>1, <3>2, <3>3
  <2>7. CASE k < i
    <3>1. Takers(i)' = Takers(i) \union {n} /\ n \notin Takers(i)
      BY <2>1, <2>2, <2>3, <2>4, <2>5, <2>7
    <3> QED BY <2>0, <2>7, <3>1
  <2>8. CASE i < k
    <3>1. ~ (k < i) /\ k # i
      BY <2>0, <2>8
    <3>2. Takers(i)' = Takers(i)
      BY <2>1, <2>2, <2>3, <2>4, <2>5, <3>1
    <3> QED BY <3>1, <3>2
  <2> QED BY <2>0, <2>6, <2>7, <2>8
<1>7. ASSUME NEW i \in TurnsOf
      PROVE  /\ k < i => Orphaned(i)' = Orphaned(i) + 1
             /\ ~ (k < i) => Orphaned(i)' = Orphaned(i)
  <2>1. i \in Nat /\ IsFiniteSet(0 .. i - 1) /\ \A j \in 0 .. i - 1 : j \in TurnsOf
    BY FS_Interval, DoubleForkAssumption DEF TurnsOf
  <2>2. CASE k < i
    <3>1. k \in 0 .. i - 1
      BY <1>2, <2>1, <2>2
    <3>2. \A j \in 0 .. i - 1 : orphaned[j] \in Int /\ orphaned'[j] \in Int
      BY <1>0, <1>4, <2>1 DEF TreeShape
    <3>3. \A j \in (0 .. i - 1) \ {k} : orphaned'[j] = orphaned[j]
      BY <1>4, <2>1
    <3>4. /\ SumFunctionOnSet(orphaned, 0 .. i - 1) \in Int
          /\ SumFunctionOnSet(orphaned', 0 .. i - 1)
               = SumFunctionOnSet(orphaned, 0 .. i - 1) - orphaned[k] + orphaned'[k]
      <4>1. DifferAt(orphaned, orphaned', 0 .. i - 1, k)
        BY <3>1, <3>2, <3>3 DEF DifferAt
      <4> QED BY <2>1, <4>1, SumChange
    <3>5. Orphaned(i) \in Int /\ Orphaned(i)' = Orphaned(i) - orphaned[k] + orphaned'[k]
      BY <3>4 DEF Orphaned
    <3>6. orphaned[k] \in Int
      BY <3>1, <3>2
    <3> QED BY <1>4, <2>2, <3>5, <3>6
  <2>3. CASE ~ (k < i)
    <3>1. \A j \in 0 .. i - 1 : j # k
      BY <1>2, <2>1, <2>3
    <3>2. \A j \in 0 .. i - 1 : orphaned'[j] = orphaned[j]
      BY <1>4, <2>1, <3>1
    <3>3. SumFunctionOnSet(orphaned', 0 .. i - 1) = SumFunctionOnSet(orphaned, 0 .. i - 1)
      BY <2>1, <3>2, SumAgree
    <3> QED BY <2>3, <3>3 DEF Orphaned
  <2> QED BY <2>2, <2>3
<1>8. ASSUME NEW i \in TurnsOf
      PROVE  launched'[i] + orphaned'[i] + Cardinality(Takers(i)') = 1 + Orphaned(i)'
  <2>1. /\ IsFiniteSet(Takers(i)) /\ Cardinality(Takers(i)) \in Nat /\ Orphaned(i) \in Int
        /\ launched[i] \in Nat /\ orphaned[i] \in Nat
    BY <1>0, TreeCounts
  <2>2. launched[i] + orphaned[i] + Cardinality(Takers(i)) = 1 + Orphaned(i)
    BY DEF TreeInv
  <2>3. i \in Nat /\ k \in Nat
    BY <1>2, DoubleForkAssumption DEF TurnsOf
  <2>4. CASE i = k
    <3>1. Cardinality(Takers(i)') = Cardinality(Takers(i)) - 1
      <4>1. Takers(i)' = Takers(i) \ {m} /\ m \in Takers(i)
        BY <1>6, <2>4
      <4> QED BY <2>1, <4>1, FS_RemoveElement
    <3>2. Orphaned(i)' = Orphaned(i) /\ orphaned'[i] = orphaned[i] + 1 /\ launched'[i] = launched[i]
      BY <1>4, <1>7, <2>3, <2>4
    <3>3. launched[i] + (orphaned[i] + 1) + (Cardinality(Takers(i)) - 1)
            = launched[i] + orphaned[i] + Cardinality(Takers(i))
      BY <2>1
    <3> QED BY <2>2, <3>1, <3>2, <3>3
  <2>5. CASE k < i
    <3>1. Cardinality(Takers(i)') = Cardinality(Takers(i)) + 1
      <4>1. Takers(i)' = Takers(i) \union {n} /\ n \notin Takers(i)
        BY <1>6, <2>5
      <4> QED BY <2>1, <4>1, FS_AddElement
    <3>2. Orphaned(i)' = Orphaned(i) + 1 /\ orphaned'[i] = orphaned[i] /\ launched'[i] = launched[i]
      BY <1>4, <1>7, <2>3, <2>5
    <3>3. launched[i] + orphaned[i] + (Cardinality(Takers(i)) + 1)
            = (launched[i] + orphaned[i] + Cardinality(Takers(i))) + 1
          /\ 1 + (Orphaned(i) + 1) = (1 + Orphaned(i)) + 1
      BY <2>1
    <3> QED BY <2>2, <3>1, <3>2, <3>3
  <2>6. CASE i < k
    <3>1. Takers(i)' = Takers(i) /\ Orphaned(i)' = Orphaned(i)
      BY <1>6, <1>7, <2>3, <2>6
    <3>2. orphaned'[i] = orphaned[i] /\ launched'[i] = launched[i]
      BY <1>4, <2>3, <2>6
    <3> QED BY <2>2, <3>1, <3>2
  <2> QED BY <2>3, <2>4, <2>5, <2>6
<1> QED BY <1>5, <1>8 DEF TreeInv, TurnsOf

(* The count holds in every reachable state of the process tree.            *)
LEMMA TreeStep == ASSUME TreeInv, [TreeNext]_treeVars PROVE TreeInv'
<1>0. TreeShape
  BY DEF TreeInv
<1>1. CASE ForkMiddle
  BY <1>1, MiddleStep
<1>2. CASE ForkMiddleFails \/ UNCHANGED treeVars
  <2>1. UNCHANGED treeVars
    BY <1>2 DEF ForkMiddleFails
  <2> QED BY <2>1 DEF treeVars, TreeInv, TreeShape, Takers, ToTake, Orphaned, Top, TurnsOf
<1>3. CASE ForkClient
  BY <1>3, ClientForkStep
<1>4. CASE ForkClientFails
  BY <1>4, LeftInLoop
<1>5. CASE LoopEnds
  <2>1. tree # <<>> /\ TopExits /\ Top.at = "fork" /\ Top.i = ClientCount
        /\ launched' = launched /\ orphaned' = orphaned /\ living' = living
    BY <1>5 DEF LoopEnds
  <2>2. living' \in Nat /\ launched' \in [TurnsOf -> Nat] /\ orphaned' \in [TurnsOf -> Nat]
    BY <1>0, <2>1 DEF TreeShape
  <2>3. TreeShape' /\ \A i \in TurnsOf : Takers(i)' = Takers(i)
    BY <1>0, <2>1, <2>2, ExitTakers
  <2> QED BY <2>1, <2>3, SameTakers
<1>6. CASE ClientEnds
  <2>1. living' \in Nat /\ UNCHANGED <<tree, launched, orphaned>>
    BY <1>0, <1>6 DEF ClientEnds, TreeShape
  <2>2. TreeShape'
    BY <1>0, <2>1 DEF TreeShape, Top, TurnsOf
  <2>3. \A i \in TurnsOf : Takers(i)' = Takers(i)
    BY <2>1 DEF Takers, ToTake
  <2> QED BY <2>1, <2>2, <2>3, SameTakers
<1> QED BY <1>1, <1>2, <1>3, <1>4, <1>5, <1>6 DEF TreeNext

(* At the start the first launcher has every turn to take.                  *)
LEMMA TreeStart == ASSUME TreeInit PROVE TreeInv
<1> DEFINE first == Launcher(0)
           Proc == [i : 0 .. ClientCount, at : {"fork", "wait", "middle"}]
<1>1. first \in Proc /\ first.at = "fork" /\ first.i = 0
  BY DoubleForkAssumption DEF Launcher
<1>2. tree = <<first>>
  BY DEF TreeInit
<1> HIDE DEF first, Proc
<1>3. tree \in Seq(Proc) /\ Len(tree) = 1 /\ tree[1] = first /\ Top = first
  BY <1>1, <1>2 DEF Top, Last
<1>4. TreeShape
  <2>1. launched \in [TurnsOf -> Nat] /\ orphaned \in [TurnsOf -> Nat] /\ living \in Nat
    BY DEF TreeInit
  <2>2. \A p \in 1 .. Len(tree) : p = 1 /\ p = Len(tree)
    BY <1>3
  <2> QED BY <1>1, <1>3, <2>1, <2>2 DEF TreeShape, Proc
<1>5. ASSUME NEW i \in TurnsOf
      PROVE  launched[i] + orphaned[i] + Cardinality(Takers(i)) = 1 + Orphaned(i)
  <2>1. launched[i] = 0 /\ orphaned[i] = 0
    BY DEF TreeInit
  <2>2. Takers(i) = {1}
    <3>1. 0 <= i
      BY DoubleForkAssumption DEF TurnsOf
    <3>2. ToTake(1, i)
      BY <1>1, <1>3, <3>1 DEF ToTake
    <3>3. 1 .. Len(tree) = {1}
      BY <1>3
    <3> QED BY <3>2, <3>3 DEF Takers
  <2>3. Cardinality(Takers(i)) = 1
    BY <2>2, FS_Singleton
  <2>4. Orphaned(i) = 0
    <3>1. IsFiniteSet(0 .. i - 1) /\ \A j \in 0 .. i - 1 : j \in TurnsOf
      BY FS_Interval, DoubleForkAssumption DEF TurnsOf
    <3>2. \A j \in 0 .. i - 1 : orphaned[j] = 0
      BY <3>1 DEF TreeInit
    <3> QED BY <3>1, <3>2, SumZero DEF Orphaned
  <2> QED BY <2>1, <2>3, <2>4
<1> QED BY <1>4, <1>5 DEF TreeInv

(* When every process has ended, each turn was taken once by the first      *)
(* launcher and once more by every process that a failed second fork of an  *)
(* earlier turn left in the loop (7/tcpClient, main).  A turn that somebody *)
(* still has to take belongs to a process of the stack: the count is exact  *)
(* all the time, not only at the end.                                       *)
THEOREM ClientsAreCounted == TreeSpec => []ClientsCounted
<1>1. TreeInit => TreeInv
  BY TreeStart
<1>2. TreeInv /\ [TreeNext]_treeVars => TreeInv'
  BY TreeStep
<1>3. TreeInv => ClientsCounted
  <2> SUFFICES ASSUME TreeInv, tree = <<>>, NEW i \in TurnsOf
               PROVE  launched[i] + orphaned[i] = 1 + MapThenSumSet(LAMBDA j : orphaned[j], 0 .. i - 1)
    BY DEF ClientsCounted
  <2>1. Takers(i) = {}
    BY DEF Takers
  <2>2. Cardinality(Takers(i)) = 0
    BY <2>1, FS_EmptySet
  <2>3. MapThenSumSet(LAMBDA j : orphaned[j], 0 .. i - 1) = Orphaned(i)
    BY DEF MapThenSumSet, Orphaned, SumFunctionOnSet, FoldFunctionOnSet, MapThenFoldSet
  <2>4. launched[i] \in Nat /\ orphaned[i] \in Nat
    BY TreeCounts DEF TreeInv
  <2> QED BY <2>2, <2>3, <2>4 DEF TreeInv
<1> QED BY <1>1, <1>2, <1>3, PTL DEF TreeSpec

(* A run of the demos is, for each program, a run of that program: what is  *)
(* proved of one holds of the composition the model checker runs.           *)
THEOREM EachDemoAlone == DemoSpec => Spec /\ TreeSpec /\ KidSpec
<1>1. DemoInit => Init /\ TreeInit /\ KidInit
  BY DEF DemoInit
<1>2. [DemoNext]_demoVars => [Next]_vars /\ [TreeNext]_treeVars /\ [KidNext]_kidVars
  BY DEF DemoNext, demoVars, InServer, InTree, InKids
<1> QED BY <1>1, <1>2, PTL DEF DemoSpec, Spec, TreeSpec, KidSpec
=============================================================================
