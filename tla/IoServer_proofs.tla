--------------------------- MODULE IoServer_proofs ---------------------------
(***************************************************************************)
(* Proofs about IoServer, the multiplexing demo with each of its three     *)
(* workers: a descriptor number means the client it was put there for, no  *)
(* client is forgotten, and whatever worker runs, the program implements   *)
(* ClientService.                                                          *)
(*                                                                         *)
(* The invariant has a part for main and the kernel and one for each       *)
(* worker.  A worker's part speaks of the connections only through four    *)
(* notions -- a connection holds its descriptor, waits for the worker, is  *)
(* complete, is broken -- and one lemma says what a step of the clients or *)
(* of main does to these (HostMoves), whoever the worker is.               *)
(***************************************************************************)
EXTENDS IoServer, DataLemmas

(* Its descriptor is open.                                                  *)
Holds(c) == fd[c] \in FDs /\ table[fd[c]] = c

(* Main holds it, or has put it on the list of new clients.                 *)
Waiting == m_addClientList \union ({info} \ {NoConn})

(* There is something to answer.                                            *)
Complete(c) == input[c] = "full" \/ peer[c] \in {"fin", "reset"}

HostInv ==
  /\ ioMode \in {"select", "poll", "epoll"}
  /\ peer \in [Conns -> {"absent", "open", "fin", "reset"}]
  /\ input \in [Conns -> {"none", "length", "full"}]
  /\ backlog \in Seq(Conns) /\ Distinct(backlog)
  /\ table \in [FDs -> Conns \union {NoConn}]
  /\ fd \in [Conns -> FDs \union {0}]
  /\ answered \in [Conns -> Nat]
  /\ freed \subseteq Conns
  /\ m_addClientList \subseteq Conns
  /\ m_hasNewClient = (m_addClientList # {})
  /\ info \in Conns \union {NoConn} /\ (mpc \in {"lock", "push"} => info # NoConn)
  /\ mpc = "accept" => info = NoConn
  /\ info \notin m_addClientList
  /\ \A c \in Conns : peer[c] = "absent" \/ c \in Elements(backlog) => fd[c] = 0
  /\ \A c \in Elements(backlog) : peer[c] # "absent"
  /\ \A f \in FDs : table[f] # NoConn => fd[table[f]] = f
  /\ \A c \in Waiting : Holds(c) /\ answered[c] = 0 /\ c \notin freed \union shut
  /\ \A c \in Conns : fd[c] = 0 => answered[c] = 0 /\ c \notin freed \union shut

-----------------------------------------------------------------------------
(* EpollWorker: what is registered, reported and handled.                   *)
Jobs == [conn : Conns, event : {"in", "out", "hup"}]
Receiving == {"recvLength", "recvMessage", "rearm"}
Closing == {"del", "close", "delete"}
Handlers == Receiving \union {"send", "shutdown"} \union Closing

(* A registered descriptor is open and the worker's own.                    *)
EpTables ==
  /\ wpc \in {"test", "take", "wait", "dispatch", "closeEp", "exited"} \union Handlers
  /\ arm \in [FDs -> {"none", "in", "out"}]
  /\ owner \in [FDs -> Conns \union {NoConn}]
  /\ edges \subseteq {f \in FDs : arm[f] # "none"}
  /\ \A f \in FDs : arm[f] = "none" <=> owner[f] = NoConn
  /\ \A f \in FDs, c \in Conns : owner[f] = c =>
       fd[c] = f /\ Holds(c) /\ c \notin freed \union Waiting
  /\ \A c \in Conns : Holds(c) =>
       \/ c \in Waiting \/ owner[fd[c]] = c
       \/ wpc = "close" /\ job.conn = c
       \/ wpc = "exited"

(* An event belongs to a registered descriptor and agrees with it, and      *)
(* there is one for each client at most.                                    *)
Valid(e) ==
  /\ fd[e.conn] \in FDs /\ owner[fd[e.conn]] = e.conn
  /\ e.event # "hup" => arm[fd[e.conn]] = e.event /\ e.conn \notin shut
  /\ e.event = "hup" => e.conn \in shut \/ Broken(e.conn)

EpEvents ==
  /\ batch \subseteq Jobs
  /\ \A e \in batch : Valid(e)
  /\ \A d, e \in batch : d.conn = e.conn => d = e
  /\ wpc \in {"test", "take", "wait", "closeEp", "exited"} => batch = {}

(* What is so while the handler of event j runs.                            *)
InHand(j) ==
  /\ j.conn \notin freed \union Waiting /\ fd[j.conn] \in FDs
  /\ \A e \in batch : e.conn # j.conn
  /\ wpc \notin {"close", "delete"} => Valid(j)
  /\ wpc \in Receiving => j.event = "in"
  /\ wpc = "send" => j.event = "out"
  /\ wpc = "shutdown" => j.event # "hup" /\ (answered[j.conn] = 1 \/ Broken(j.conn))
  /\ wpc \in Closing => j.conn \in shut \/ Broken(j.conn)
  /\ wpc = "close" => Holds(j.conn) /\ owner[fd[j.conn]] = NoConn
  /\ wpc = "delete" => ~ Holds(j.conn)
  /\ wpc = "rearm" => Complete(j.conn)

EpJob ==
  /\ wpc \notin Handlers => job = NoJob
  /\ wpc \in Handlers => job \in Jobs
  /\ \A j \in Jobs : wpc \in Handlers /\ job = j => InHand(j)

(* A reply is sent once, and the shutdown that follows keeps a second one   *)
(* from being sent.                                                         *)
EpAnswers ==
  /\ \A f \in FDs, c \in Conns : arm[f] = "out" /\ owner[f] = c => Complete(c)
  /\ \A c \in Conns :
       /\ answered[c] \in {0, 1}
       /\ answered[c] = 1 => c \in shut \/ (wpc = "shutdown" /\ job.conn = c)
       /\ c \in shut => answered[c] = 1 \/ Broken(c)

EpInv == EpTables /\ EpEvents /\ EpJob /\ EpAnswers

-----------------------------------------------------------------------------
(* PollWorker.                                                              *)
PoTables ==
  /\ wpc \in {"test", "take", "poll", "loop", "recvLength", "recvMessage", "send",
              "clear", "forget", "exited"}
  /\ events \in [FDs -> {"none", "in", "out"}]
  /\ cinfoMap \in [FDs -> Conns \union {NoConn}]
  /\ \A f \in FDs : events[f] = "none" <=> cinfoMap[f] = NoConn
  /\ \A f \in FDs, c \in Conns : cinfoMap[f] = c =>
       /\ fd[c] = f /\ c \notin freed \union Waiting
       /\ IF wpc = "forget" /\ curr = f THEN ~ Holds(c) ELSE Holds(c)
  /\ \A c \in Conns : Holds(c) => c \in Waiting \/ cinfoMap[fd[c]] = c

(* The loop looks at each entry once, and closes behind it.                 *)
PoLoop ==
  /\ todo \subseteq {f \in FDs : events[f] # "none"}
  /\ clrfds \subseteq {f \in FDs : events[f] # "none"}
  /\ todo \intersect clrfds = {}
  /\ wpc \in {"test", "take", "poll", "exited"} => clrfds = {}
  /\ wpc \notin {"loop", "recvLength", "recvMessage", "send"} => todo = {}
  /\ wpc \in {"recvLength", "recvMessage", "send"} =>
       curr \in FDs /\ events[curr] # "none" /\ curr \notin todo \union clrfds
  /\ wpc = "send" => events[curr] = "out"
  /\ wpc = "forget" => curr \in clrfds
  /\ \A f \in todo : revents[f] \in {"none", events[f]}

PoAnswers ==
  /\ \A f \in FDs, c \in Conns : events[f] = "out" /\ cinfoMap[f] = c => Complete(c)
  /\ \A c \in Conns :
       /\ answered[c] \in {0, 1}
       /\ answered[c] = 1 /\ Holds(c) => fd[c] \in clrfds
       /\ Holds(c) => c \notin shut

PoInv == PoTables /\ PoLoop /\ PoAnswers

-----------------------------------------------------------------------------
(* SelectWorker.                                                            *)
SeTables ==
  /\ wpc \in {"test", "take", "select", "loop", "recvLength", "recvMessage", "send",
              "clear", "forget", "exited"}
  /\ cinfoList \subseteq Conns
  /\ \A c \in cinfoList :
       /\ fd[c] \in FDs /\ c \notin freed \union Waiting
       /\ IF wpc = "forget" /\ curr = c THEN ~ Holds(c) ELSE Holds(c)
  /\ \A c, d \in cinfoList : fd[c] = fd[d] => c = d
  /\ \A c \in Conns : Holds(c) => c \in Waiting \union cinfoList

SeLoop ==
  /\ todo \subseteq cinfoList
  /\ \A c \in todo : fd[c] \notin clrfds
  /\ wpc \in {"test", "take", "select", "exited"} => clrfds = {}
  /\ wpc \notin {"loop", "recvLength", "recvMessage", "send"} => todo = {}
  /\ wpc \in {"recvLength", "recvMessage", "send"} =>
       curr \in cinfoList /\ curr \notin todo /\ fd[curr] \notin clrfds
  /\ wpc \in {"recvLength", "recvMessage"} => fd[curr] \in readfds
  /\ wpc = "send" => fd[curr] \in writefds
  /\ wpc = "forget" => curr \in cinfoList /\ fd[curr] \in clrfds
  /\ \A c \in todo :
       (fd[c] \in rfds => fd[c] \in readfds) /\ (fd[c] \in wfds => fd[c] \in writefds)

SeSets ==
  /\ \A c \in cinfoList : fd[c] \in readfds \union writefds \union clrfds
  /\ readfds \intersect writefds = {}
  /\ \A f \in readfds \union writefds :
       \/ \E c \in cinfoList : fd[c] = f
       \/ f \in readfds /\ \E c \in freed : fd[c] = f /\ Broken(c)
  /\ \A c \in cinfoList : fd[c] \in clrfds =>
       /\ fd[c] \notin writefds /\ (fd[c] \in readfds => Broken(c))
       /\ answered[c] = 1 \/ Broken(c)

SeAnswers ==
  /\ \A c \in cinfoList : fd[c] \in writefds => Complete(c)
  /\ \A c \in Conns :
       /\ answered[c] \in {0, 1}
       /\ answered[c] = 1 /\ Holds(c) => fd[c] \in clrfds
       /\ Holds(c) => c \notin shut

SeInv == SeTables /\ SeLoop /\ SeSets /\ SeAnswers

-----------------------------------------------------------------------------
(* The inductive invariant of the program.                                  *)
IoInv ==
  /\ HostInv
  /\ ioMode = "epoll" => EpInv
  /\ ioMode = "poll" => PoInv
  /\ ioMode = "select" => SeInv
-----------------------------------------------------------------------------
(* Main, the clients and the kernel.                                        *)

(* The tuples of variables, under the names each worker gives them.         *)
USE DEF hostVars, clientVars, socketVars, mainVars, shareVars, exitVars
USE DEF Ep!hostVars, Ep!clientVars, Ep!socketVars, Ep!mainVars, Ep!shareVars, Ep!exitVars
USE DEF Po!hostVars, Po!clientVars, Po!socketVars, Po!mainVars, Po!shareVars, Po!exitVars
USE DEF Se!hostVars, Se!clientVars, Se!socketVars, Se!mainVars, Se!shareVars, Se!exitVars

(* What a step of the clients or of main does to the connections: the ones  *)
(* accepted before keep their descriptor and their place in the queue to    *)
(* the worker, a new one holds its descriptor only in that queue, and what  *)
(* is complete or broken stays so.                                          *)
HostMoves ==
  /\ UNCHANGED <<ioMode, answered, shut, freed>>
  /\ \A c \in Conns :
       /\ fd[c] # 0 =>
            fd'[c] = fd[c] /\ (Holds(c)' <=> Holds(c)) /\ (c \in Waiting' <=> c \in Waiting)
       /\ fd[c] = 0 /\ Holds(c)' => c \in Waiting'
       /\ Complete(c) => Complete(c)'
       /\ Broken(c) => Broken(c)'

(* A descriptor number is not 0, and no connection is NoConn.               *)
LEMMA Numbers == 0 \notin FDs /\ NoConn \notin Conns /\ FDs \subseteq Nat
  BY FDsAssumption, ConnsAssumption

(* A connection that waits has been accepted.                               *)
LEMMA WaitingConns == ASSUME HostInv PROVE Waiting \subseteq Conns /\ \A c \in Waiting : fd[c] \in FDs
  BY DEF HostInv, Waiting, Holds

(* Open of WorkerHost is the same as Holds.                                 *)
LEMMA OpenIsHolds ==
  ASSUME HostInv, NEW c \in Conns
  PROVE  (Open(c) <=> Holds(c)) /\ (Holds(c) => fd[c] # 0)
<1>1. Holds(c) => Open(c) /\ fd[c] # 0
  BY Numbers DEF Open, Holds
<1>2. ASSUME NEW f \in FDs, table[f] = c PROVE Holds(c)
  <2>1. table[f] # NoConn
    BY <1>2, Numbers
  <2>2. fd[table[f]] = f
    BY <2>1 DEF HostInv
  <2> QED BY <1>2, <2>2 DEF Holds
<1> QED BY <1>1, <1>2 DEF Open

LEMMA ClientHost ==
  ASSUME HostInv, NEW c \in Conns, Connect(c) \/ Deliver(c) \/ Depart(c),
         UNCHANGED <<ioMode, freed>>
  PROVE  HostInv' /\ HostMoves /\ UNCHANGED <<table, fd, mpc, info, m_addClientList>>
<1>1. /\ UNCHANGED <<ioMode, answered, shut, freed, table, fd, mpc, info, m_addClientList, m_hasNewClient>>
      /\ \A d \in Conns : (Complete(d) => Complete(d)') /\ (Broken(d) => Broken(d)')
  <2>1. CASE Connect(c)
    BY <2>1 DEF Connect, HostInv, Complete, Broken
  <2>2. CASE Deliver(c)
    BY <2>2 DEF Deliver, HostInv, Complete, Broken
  <2>3. CASE Depart(c)
    BY <2>3, DeparturesAssumption DEF Depart, HostInv, Complete, Broken
  <2> QED BY <2>1, <2>2, <2>3
<1>2. /\ peer' \in [Conns -> {"absent", "open", "fin", "reset"}]
      /\ input' \in [Conns -> {"none", "length", "full"}]
      /\ \A d \in Conns : peer'[d] = "absent" => peer[d] = "absent"
  <2>1. CASE Connect(c)
    BY <2>1 DEF Connect, HostInv
  <2>2. CASE Deliver(c)
    BY <2>2 DEF Deliver, HostInv
  <2>3. CASE Depart(c)
    BY <2>3, DeparturesAssumption DEF Depart, HostInv
  <2> QED BY <2>1, <2>2, <2>3
<1>3. /\ backlog' \in Seq(Conns) /\ Distinct(backlog')
      /\ \A d \in Elements(backlog') : fd[d] = 0 /\ peer'[d] # "absent"
  <2>1. CASE Connect(c)
    <3>1. c \notin Elements(backlog) /\ fd[c] = 0 /\ peer'[c] = "open" /\ \A d \in Conns \ {c} : peer'[d] = peer[d]
      BY <2>1 DEF Connect, HostInv
    <3>2. backlog' = Pushed(backlog, c, FALSE)
      BY <2>1 DEF Connect, Pushed
    <3> PICK front \in BOOLEAN : front = FALSE
      OBVIOUS
    <3>3. backlog \in Seq(Conns) /\ Distinct(backlog)
      BY DEF HostInv
    <3>4. backlog' \in Seq(Conns) /\ Elements(backlog') = Elements(backlog) \union {c}
      <4>1. backlog' = Pushed(backlog, c, front)
        BY <3>2
      <4> QED BY <3>3, <4>1, PushedProperties
    <3>5. Distinct(backlog')
      BY <3>1, <3>2, <3>3, PushedDistinct
    <3>6. Elements(backlog) \subseteq Conns
      BY <3>3, MemberNonEmpty
    <3> QED BY <3>1, <3>4, <3>5, <3>6 DEF HostInv
  <2>2. CASE ~ Connect(c)
    <3>1. backlog' = backlog
      BY <2>2 DEF Deliver, Depart
    <3>2. Elements(backlog) \subseteq Conns
      BY MemberNonEmpty DEF HostInv
    <3> QED BY <1>2, <3>1, <3>2 DEF HostInv
  <2> QED BY <2>1, <2>2
<1>4. Waiting' = Waiting /\ \A d \in Conns : Holds(d)' <=> Holds(d)
  BY <1>1 DEF Waiting, Holds
<1>5. HostInv'
  <2>1. \A d \in Waiting' : Holds(d)' /\ answered'[d] = 0 /\ d \notin freed' \union shut'
    BY <1>1, <1>4, WaitingConns DEF HostInv
  <2> QED BY <1>1, <1>2, <1>3, <2>1 DEF HostInv
<1>6. HostMoves
  <2>1. \A d \in Conns : fd[d] = 0 => ~ Holds(d)
    BY Numbers DEF Holds
  <2> QED BY <1>1, <1>4, <2>1 DEF HostMoves
<1> QED BY <1>1, <1>5, <1>6

(* The lowest free descriptor is a free one.                                *)
LEMMA FreeDescriptor ==
  ASSUME HostInv, FreeFDs # {}
  PROVE  LowestFree \in FDs /\ table[LowestFree] = NoConn
<1>1. IsFiniteSet(FreeFDs) /\ FreeFDs \subseteq Nat
  BY FDsAssumption, FS_Subset DEF FreeFDs
<1>2. \E f \in FreeFDs : \A g \in FreeFDs : f <= g
  <2>1. PICK f \in FreeFDs : \A g \in FreeFDs : ~ (<<g, f>> \in OpToRel(<, Nat))
    BY <1>1, NatLessThanWellFounded, WFMin
  <2>2. \A g \in FreeFDs : ~ (g < f)
    BY <1>1, <2>1 DEF OpToRel
  <2> QED BY <1>1, <2>2
<1>3. LowestFree \in FreeFDs
  BY <1>2 DEF LowestFree
<1> QED BY <1>3 DEF FreeFDs

LEMMA AcceptHost ==
  ASSUME HostInv, Accept, UNCHANGED <<ioMode, freed>>
  PROVE  HostInv' /\ HostMoves
<1> PICK c, f : c = Head(backlog) /\ f = LowestFree
  OBVIOUS
<1>1. f \in FDs /\ table[f] = NoConn
  BY FreeDescriptor DEF Accept
<1>2. /\ c \in Elements(backlog) /\ c \in Conns
      /\ backlog' \in Seq(Conns) /\ Distinct(backlog')
      /\ Elements(backlog') = Elements(backlog) \ {c}
  BY PoppedProperties DEF Accept, HostInv
<1>3. fd[c] = 0 /\ peer[c] # "absent"
  BY <1>2 DEF HostInv
<1>4. /\ info' = c /\ mpc' = "lock"
      /\ table' = [table EXCEPT ![f] = c] /\ fd' = [fd EXCEPT ![c] = f]
      /\ UNCHANGED <<ioMode, freed, peer, input, shut, answered, m_addClientList, m_hasNewClient>>
      /\ info = NoConn
  BY DEF Accept, HostInv
<1>5. /\ table' \in [FDs -> Conns \union {NoConn}] /\ fd' \in [Conns -> FDs \union {0}]
      /\ table'[f] = c /\ fd'[c] = f
      /\ \A g \in FDs \ {f} : table'[g] = table[g]
      /\ \A d \in Conns \ {c} : fd'[d] = fd[d]
  BY <1>1, <1>2, <1>4 DEF HostInv
<1>6. /\ Waiting = m_addClientList /\ Waiting' = m_addClientList \union {c}
      /\ c \notin m_addClientList /\ m_addClientList \subseteq Conns
  <2>1. c \notin m_addClientList
    BY <1>3, Numbers, WaitingConns DEF Waiting
  <2> QED BY <1>2, <1>4, <2>1, Numbers DEF Waiting, HostInv
<1>7. \A d \in Conns \ {c} : (Holds(d)' <=> Holds(d)) /\ (fd[d] = 0 => ~ Holds(d))
  <2>1. ASSUME NEW d \in Conns \ {c} PROVE Holds(d)' <=> Holds(d)
    <3>1. fd'[d] = fd[d]
      BY <1>5
    <3>2. CASE fd[d] = f
      BY <1>1, <1>5, <3>1, <3>2, Numbers DEF Holds
    <3>3. CASE fd[d] # f
      BY <1>5, <3>1, <3>3 DEF Holds
    <3> QED BY <3>2, <3>3
  <2> QED BY <2>1, Numbers DEF Holds
<1>8. Holds(c)' /\ fd'[c] # 0
  <2>1. fd'[c] \in FDs /\ table'[fd'[c]] = c
    BY <1>1, <1>5
  <2> QED BY <2>1, Numbers DEF Holds
<1>9. HostInv'
  <2>1. \A g \in FDs : table'[g] # NoConn => fd'[table'[g]] = g
    <3> SUFFICES ASSUME NEW g \in FDs, table'[g] # NoConn PROVE fd'[table'[g]] = g
      OBVIOUS
    <3>1. CASE g = f
      BY <1>5, <3>1
    <3>2. CASE g # f
      <4>1. table'[g] = table[g] /\ fd[table[g]] = g /\ table[g] \in Conns
        BY <1>5, <3>2 DEF HostInv
      <4>2. table[g] # c
        BY <1>3, <4>1, Numbers
      <4> QED BY <1>5, <4>1, <4>2
    <3> QED BY <3>1, <3>2
  <2>2. \A d \in Waiting' : Holds(d)' /\ answered'[d] = 0 /\ d \notin freed' \union shut'
    <3>1. Holds(c)' /\ answered'[c] = 0 /\ c \notin freed' \union shut'
      BY <1>2, <1>3, <1>4, <1>8 DEF HostInv
    <3>2. ASSUME NEW d \in m_addClientList PROVE Holds(d)' /\ answered'[d] = 0 /\ d \notin freed' \union shut'
      BY <1>4, <1>6, <1>7 DEF HostInv
    <3>3. ASSUME NEW d, d = c PROVE Holds(d)' /\ answered'[d] = 0 /\ d \notin freed' \union shut'
      BY <3>1, <3>3 DEF Holds
    <3> QED BY <1>6, <3>2, <3>3
  <2>3. \A d \in Conns : fd'[d] = 0 => answered'[d] = 0 /\ d \notin freed' \union shut'
    BY <1>4, <1>5, <1>8 DEF HostInv
  <2>4. \A d \in Conns : peer'[d] = "absent" \/ d \in Elements(backlog') => fd'[d] = 0
    BY <1>2, <1>3, <1>4, <1>5 DEF HostInv
  <2>5. \A d \in Elements(backlog') : peer'[d] # "absent"
    BY <1>2, <1>4 DEF HostInv
  <2>6. info' \in Conns \union {NoConn} /\ info' # NoConn /\ info' \notin m_addClientList'
    BY <1>2, <1>4, <1>6, Numbers
  <2> QED BY <1>2, <1>4, <1>5, <2>1, <2>2, <2>3, <2>4, <2>5, <2>6 DEF HostInv
<1>10. HostMoves
  <2>1. \A d \in Conns : Complete(d)' = Complete(d) /\ Broken(d)' = Broken(d)
    BY <1>4 DEF Complete, Broken
  <2>2. \A d \in Conns \ {c} : d \in Waiting' <=> d \in Waiting
    BY <1>6
  <2> QED BY <1>3, <1>4, <1>5, <1>6, <1>7, <2>1, <2>2 DEF HostMoves
<1> QED BY <1>9, <1>10

(* Any other step of main: what it holds goes on the list, or nothing moves. *)
LEMMA MainHost ==
  ASSUME HostInv, LockList \/ AddClient \/ InterruptMain \/ InterruptWorker \/ JoinWorker(wpc = "exited"),
         UNCHANGED <<ioMode, freed>>
  PROVE  HostInv' /\ HostMoves /\ UNCHANGED <<peer, input, table, fd, answered>>
<1>1. UNCHANGED <<ioMode, freed, peer, input, table, shut, answered, fd, backlog>>
  BY DEF LockList, AddClient, InterruptMain, InterruptWorker, JoinWorker
<1>2. /\ m_addClientList' \subseteq Conns /\ m_hasNewClient' = (m_addClientList' # {})
      /\ info' \in Conns \union {NoConn} /\ (mpc' \in {"lock", "push"} => info' # NoConn)
      /\ mpc' = "accept" => info' = NoConn
      /\ info' \notin m_addClientList'
      /\ Waiting' = Waiting
  <2>1. CASE AddClient
    <3>1. info \in Conns /\ info # NoConn
      BY <2>1, Numbers DEF AddClient, HostInv
    <3> QED BY <2>1, <3>1, Numbers DEF AddClient, HostInv, Waiting
  <2>2. CASE LockList
    BY <2>2 DEF LockList, HostInv, Waiting
  <2>3. CASE ~ AddClient /\ ~ LockList
    <3>1. UNCHANGED <<info, mpc, m_addClientList, m_hasNewClient>>
      BY <2>3 DEF InterruptMain, InterruptWorker, JoinWorker
    <3> QED BY <3>1 DEF HostInv, Waiting
  <2> QED BY <2>1, <2>2, <2>3
<1>3. \A d \in Conns : /\ Complete(d)' = Complete(d) /\ Broken(d)' = Broken(d) /\ Holds(d)' = Holds(d)
  BY <1>1 DEF Complete, Broken, Holds
<1>4. \A d \in Conns : fd[d] = 0 => ~ Holds(d)
  BY Numbers DEF Holds
<1>5. HostMoves
  BY <1>1, <1>2, <1>3, <1>4 DEF HostMoves
<1>6. HostInv'
  <2>1. \A d \in Waiting' : Holds(d)' /\ answered'[d] = 0 /\ d \notin freed' \union shut'
    BY <1>1, <1>2, <1>3, WaitingConns DEF HostInv
  <2> QED BY <1>1, <1>2, <2>1 DEF HostInv
<1> QED BY <1>1, <1>5, <1>6

-----------------------------------------------------------------------------
(* The worker, seen from the other side.                                    *)

(* What a step of a worker may do to a connection it owns: close it, answer *)
(* it, shut it down, delete its clientInfo.                                 *)
Handles(c) ==
  /\ UNCHANGED <<ioMode, clientVars, mainVars, m_addClientList, m_hasNewClient>>
  /\ table' = table \/ (Holds(c) /\ table' = [table EXCEPT ![fd[c]] = NoConn])
  /\ answered' \in [Conns -> Nat] /\ \A d \in Conns \ {c} : answered'[d] = answered[d]
  /\ shut' \subseteq shut \union {c} /\ freed' \subseteq freed \union {c}

LEMMA WorkerHost ==
  ASSUME HostInv, NEW c \in Conns, fd[c] \in FDs, c \notin Waiting, Handles(c)
  PROVE  /\ HostInv'
         /\ Waiting' = Waiting
         /\ \A d \in Conns : /\ Complete(d)' <=> Complete(d)
                             /\ Broken(d)' <=> Broken(d)
                             /\ Holds(d)' <=> Holds(d) /\ (d # c \/ table' = table)
<1>0. fd[c] # 0
  BY Numbers
<1>1. Waiting' = Waiting /\ UNCHANGED <<ioMode, peer, input, fd, info, backlog, mpc, m_addClientList, m_hasNewClient>>
  BY DEF Handles, Waiting
<1>2. \A d \in Conns : (Complete(d)' <=> Complete(d)) /\ (Broken(d)' <=> Broken(d))
  BY <1>1 DEF Complete, Broken
<1>3. ASSUME NEW d \in Conns PROVE Holds(d)' <=> Holds(d) /\ (d # c \/ table' = table)
  <2>1. CASE table' = table
    BY <1>1, <2>1 DEF Holds
  <2>2. CASE table' # table
    <3>1. Holds(c) /\ table' = [table EXCEPT ![fd[c]] = NoConn]
      BY <2>2 DEF Handles
    <3>2. table'[fd[c]] = NoConn /\ \A f \in FDs : f # fd[c] => table'[f] = table[f]
      BY <3>1 DEF HostInv
    <3>3. CASE fd[d] = fd[c]
      BY <1>1, <2>2, <3>1, <3>2, <3>3, Numbers DEF Holds
    <3>4. CASE fd[d] # fd[c]
      BY <1>1, <2>2, <3>1, <3>2, <3>4 DEF Holds
    <3> QED BY <3>3, <3>4
  <2> QED BY <2>1, <2>2
<1>4. HostInv'
  <2>1. table' \in [FDs -> Conns \union {NoConn}] /\ \A f \in FDs : table'[f] # NoConn => table'[f] = table[f]
    BY DEF Handles, HostInv
  <2>2. \A f \in FDs : table'[f] # NoConn => fd'[table'[f]] = f
    BY <1>1, <2>1 DEF HostInv
  <2>3. \A d \in Waiting' : Holds(d)' /\ answered'[d] = 0 /\ d \notin freed' \union shut'
    <3>1. \A d \in Waiting : d \in Conns /\ d # c
      BY WaitingConns
    <3> QED BY <1>1, <1>3, <3>1 DEF HostInv, Handles
  <2>4. \A d \in Conns : fd'[d] = 0 => answered'[d] = 0 /\ d \notin freed' \union shut'
    BY <1>0, <1>1 DEF HostInv, Handles
  <2>5. freed' \subseteq Conns /\ answered' \in [Conns -> Nat]
    BY DEF HostInv, Handles
  <2> QED BY <1>1, <2>1, <2>2, <2>3, <2>4, <2>5 DEF HostInv
<1> QED BY <1>1, <1>2, <1>3, <1>4

(* The worker does nothing to any connection.                               *)
LEMMA WorkerIdle ==
  ASSUME HostInv,
         UNCHANGED <<ioMode, clientVars, socketVars, mainVars, m_addClientList, m_hasNewClient, freed>>
  PROVE  /\ HostInv'
         /\ Waiting' = Waiting
         /\ \A d \in Conns : /\ Complete(d)' <=> Complete(d)
                             /\ Broken(d)' <=> Broken(d)
                             /\ Holds(d)' <=> Holds(d)
  BY DEF HostInv, Waiting, Complete, Broken, Holds

(* The worker takes the new clients.                                        *)
LEMMA TakeHost ==
  ASSUME HostInv, TakeList, UNCHANGED <<ioMode, freed>>
  PROVE  /\ HostInv'
         /\ NewClients = m_addClientList
         /\ Waiting' = Waiting \ NewClients
         /\ NewClients \subseteq Waiting
         /\ \A d \in Conns : /\ Complete(d)' <=> Complete(d)
                             /\ Broken(d)' <=> Broken(d)
                             /\ Holds(d)' <=> Holds(d)
<1>1. /\ UNCHANGED <<ioMode, freed, peer, input, table, shut, answered, mpc, info, fd, backlog>>
      /\ m_addClientList' = {} /\ m_hasNewClient' = FALSE
      /\ NewClients = m_addClientList
  BY DEF TakeList, NewClients, HostInv
<1>2. Waiting' = Waiting \ NewClients /\ NewClients \subseteq Waiting
  BY <1>1 DEF Waiting, HostInv
<1>3. \A d \in Conns : /\ Complete(d)' <=> Complete(d)
                       /\ Broken(d)' <=> Broken(d)
                       /\ Holds(d)' <=> Holds(d)
  BY <1>1 DEF Complete, Broken, Holds
<1>4. HostInv'
  <2>1. \A d \in Waiting' : Holds(d)' /\ answered'[d] = 0 /\ d \notin freed' \union shut'
    BY <1>1, <1>2, <1>3, WaitingConns DEF HostInv
  <2> QED BY <1>1, <2>1 DEF HostInv
<1> QED BY <1>1, <1>2, <1>3, <1>4

(* Whoever is connected has something to read, or has not sent anything.    *)
LEMMA ReadableConn ==
  ASSUME HostInv, NEW c \in Conns, Holds(c), Readable(c), c \notin shut
  PROVE  input[c] = "none" => Complete(c)
<1>1. peer[c] # "absent"
  BY Numbers DEF HostInv, Holds
<1> QED BY <1>1 DEF HostInv, Readable, Complete

(* The client that ended its connection counts as complete.                 *)
LEMMA EndedConn ==
  ASSUME HostInv, NEW c \in Conns, Holds(c)
  PROVE  input[c] = "full" \/ peer[c] # "open" => Complete(c)
<1>1. peer[c] # "absent"
  BY Numbers DEF HostInv, Holds
<1> QED BY <1>1 DEF HostInv, Complete

-----------------------------------------------------------------------------
(* EpollWorker.                                                             *)

(* The connections of the events and of the handler that runs.              *)
LEMMA EpConns ==
  ASSUME HostInv, EpInv
  PROVE  /\ \A f \in FDs : owner[f] \in Conns \union {NoConn}
         /\ \A e \in batch : e \in Jobs
         /\ \A j \in Jobs : j.conn \in Conns /\ j.event \in {"in", "out", "hup"}
  BY DEF EpInv, EpTables, EpEvents, Jobs

(* A step of the clients or of main does not disturb the worker.            *)
LEMMA EpHost ==
  ASSUME HostInv, EpInv, HostMoves, UNCHANGED <<wpc, arm, owner, batch, job>>,
         edges' \subseteq edges \union {f \in FDs : arm[f] # "none"}
  PROVE  EpInv'
<1>0. EpTables /\ EpEvents /\ EpJob /\ EpAnswers
  BY DEF EpInv
<1>1. \A c \in Conns : fd[c] \in FDs =>
        fd'[c] = fd[c] /\ (Holds(c)' <=> Holds(c)) /\ (c \in Waiting' <=> c \in Waiting)
  BY Numbers DEF HostMoves
<1>2. \A c \in Conns : (Complete(c) => Complete(c)') /\ (Broken(c) => Broken(c)')
  BY DEF HostMoves
<1>3. UNCHANGED <<answered, shut, freed>>
  BY DEF HostMoves
<1>4. EpTables'
  <2>1. ASSUME NEW f \in FDs, NEW c \in Conns, owner[f] = c
        PROVE  fd'[c] = f /\ Holds(c)' /\ c \notin freed' \union Waiting'
    BY <1>0, <1>1, <1>3, <2>1 DEF EpTables
  <2>2. ASSUME NEW c \in Conns, Holds(c)'
        PROVE  \/ c \in Waiting' \/ owner'[fd'[c]] = c
               \/ wpc' = "close" /\ job'.conn = c
               \/ wpc' = "exited"
    <3>1. CASE fd[c] = 0
      BY <2>2, <3>1 DEF HostMoves
    <3>2. CASE fd[c] # 0
      <4>1. fd'[c] = fd[c] /\ Holds(c) /\ (c \in Waiting' <=> c \in Waiting)
        BY <2>2, <3>2 DEF HostMoves
      <4> QED BY <1>0, <4>1 DEF EpTables
    <3> QED BY <3>1, <3>2
  <2> QED BY <1>0, <2>1, <2>2 DEF EpTables
<1>5. ASSUME NEW e \in Jobs, Valid(e) PROVE Valid(e)'
  BY <1>1, <1>2, <1>3, <1>5, EpConns DEF Valid
<1>6. EpEvents'
  BY <1>0, <1>5 DEF EpEvents
<1>7. EpJob'
  <2>1. ASSUME NEW j \in Jobs, wpc \in Handlers, job = j PROVE InHand(j)'
    <3>1. InHand(j) /\ j.conn \in Conns
      BY <1>0, <2>1, EpConns DEF EpJob
    <3> QED BY <1>1, <1>2, <1>3, <1>5, <3>1 DEF InHand
  <2> QED BY <1>0, <2>1 DEF EpJob
<1>8. EpAnswers'
  BY <1>0, <1>2, <1>3 DEF EpAnswers
<1> QED BY <1>4, <1>6, <1>7, <1>8 DEF EpInv

(* Socket and FD of the handler that runs are those of its client.          *)
LEMMA EpSocket ==
  ASSUME HostInv, EpInv, wpc \in Handlers
  PROVE  /\ job \in Jobs /\ InHand(job) /\ job.conn \in Conns /\ Ep!FD = fd[job.conn] /\ Ep!FD \in FDs
         /\ wpc \notin {"close", "delete"} =>
              /\ Ep!Socket = job.conn /\ Holds(job.conn)
              /\ owner[Ep!FD] = job.conn /\ Valid(job)
<1>1. job \in Jobs /\ InHand(job) /\ job.conn \in Conns
  BY EpConns DEF EpInv, EpJob
<1>2. fd[job.conn] \in FDs
  BY <1>1 DEF InHand
<1>3. wpc \notin {"close", "delete"} => Valid(job) /\ owner[fd[job.conn]] = job.conn
  BY <1>1 DEF InHand, Valid
<1>4. wpc \notin {"close", "delete"} => Holds(job.conn)
  BY <1>1, <1>2, <1>3 DEF EpInv, EpTables
<1> QED BY <1>1, <1>2, <1>3, <1>4 DEF Ep!FD, Ep!Socket, Holds

(* Steps that touch no connection and leave the registrations alone.        *)
LEMMA EpLoop ==
  ASSUME HostInv, EpInv, Ep!TestExit \/ Ep!EpollWait \/ Ep!Dispatch \/ Ep!RecvLength \/ Ep!RecvMessage,
         UNCHANGED ioMode
  PROVE  HostInv' /\ EpInv'
<1>0. EpTables /\ EpEvents /\ EpJob /\ EpAnswers
  BY DEF EpInv
<1>1. UNCHANGED <<ioMode, hostVars, freed, arm, owner>> /\ edges' \subseteq edges
  BY DEF Ep!TestExit, Ep!EpollWait, Ep!Dispatch, Ep!RecvLength, Ep!RecvMessage
<1>2. /\ HostInv' /\ Waiting' = Waiting
      /\ \A d \in Conns : /\ Complete(d)' <=> Complete(d)
                          /\ Broken(d)' <=> Broken(d)
                          /\ Holds(d)' <=> Holds(d)
  BY <1>1, WorkerIdle
<1>3. wpc' \in {"test", "take", "wait", "dispatch", "closeEp"} \union Handlers /\ wpc' # "close"
      /\ wpc # "close" /\ wpc # "exited"
  BY <1>0 DEF Ep!TestExit, Ep!EpollWait, Ep!Dispatch, Ep!RecvLength, Ep!RecvMessage, Ep!Goto, Ep!Handler,
              EpEvents, Jobs, Handlers, Receiving, Closing
<1>4. EpTables'
  BY <1>0, <1>1, <1>2, <1>3 DEF EpTables
<1>5. \A e \in Jobs : Valid(e)' <=> Valid(e)
  BY <1>1, <1>2, EpConns DEF Valid
<1>6. CASE Ep!TestExit
  <2>1. batch = {} /\ batch' = {} /\ job' = job /\ wpc' \in {"take", "closeEp"} /\ job = NoJob
    BY <1>0, <1>6 DEF Ep!TestExit, Ep!Goto, EpEvents, EpJob, Handlers, Receiving, Closing
  <2>2. EpEvents' /\ EpJob'
    BY <2>1 DEF EpEvents, EpJob, Handlers, Receiving, Closing
  <2>3. EpAnswers'
    BY <1>0, <1>1, <1>2, <1>6 DEF EpAnswers, Ep!TestExit
  <2> QED BY <1>2, <1>4, <2>2, <2>3 DEF EpInv
<1>7. CASE Ep!EpollWait
  <2>1. PICK some \in SUBSET Ep!ReadyFDs :
          /\ some = {} => Ep!ReadyFDs = {}
          /\ batch' = {[conn |-> owner[f], event |-> Ep!EventOf(f)] : f \in some}
          /\ wpc' = IF some = {} THEN "test" ELSE "dispatch"
    BY <1>7 DEF Ep!EpollWait, Ep!Goto
  <2>2. wpc = "wait" /\ job' = job /\ job = NoJob
    BY <1>0, <1>7 DEF Ep!EpollWait, EpJob, Handlers, Receiving, Closing
  <2>3. ASSUME NEW f \in some
        PROVE  /\ f \in FDs /\ owner[f] \in Conns /\ fd[owner[f]] = f
               /\ [conn |-> owner[f], event |-> Ep!EventOf(f)] \in Jobs
               /\ Valid([conn |-> owner[f], event |-> Ep!EventOf(f)])
    <3>1. f \in FDs /\ arm[f] \in {"in", "out"} /\ owner[f] # NoConn
      BY <1>0, <2>3 DEF Ep!ReadyFDs, EpTables
    <3>2. PICK c \in Conns : c = owner[f]
      BY <3>1, EpConns
    <3>3. fd[c] = f /\ table[f] = c
      BY <1>0, <3>1, <3>2 DEF EpTables, Holds
    <3>4. Ep!EventOf(f) = IF c \in shut \/ Broken(c) THEN "hup" ELSE arm[f]
      BY <3>3 DEF Ep!EventOf, Ep!Broken, Broken
    <3>5. [conn |-> c, event |-> Ep!EventOf(f)] \in Jobs
      BY <3>1, <3>4 DEF Jobs
    <3>6. Valid([conn |-> c, event |-> Ep!EventOf(f)])
      BY <3>1, <3>2, <3>3, <3>4 DEF Valid
    <3> QED BY <3>1, <3>2, <3>3, <3>5, <3>6
  <2>4. EpEvents'
    <3>1. \A e \in batch' : e \in Jobs /\ Valid(e)
      BY <2>1, <2>3
    <3>2. \A d, e \in batch' : d.conn = e.conn => d = e
      <4> SUFFICES ASSUME NEW f \in some, NEW g \in some, owner[f] = owner[g]
                   PROVE  f = g
        BY <2>1
      <4> QED BY <2>3
    <3>3. batch' = {} \/ wpc' = "dispatch"
      BY <2>1
    <3>4. \A e \in batch' : Valid(e)'
      BY <1>5, <3>1
    <3> QED BY <3>1, <3>2, <3>3, <3>4 DEF EpEvents
  <2>5. EpJob' /\ EpAnswers'
    <3>1. wpc' \notin Handlers
      BY <2>1 DEF Handlers, Receiving, Closing
    <3> QED BY <1>0, <1>1, <1>2, <2>2, <3>1 DEF EpJob, EpAnswers
  <2> QED BY <1>2, <1>4, <2>4, <2>5 DEF EpInv
<1>8. CASE Ep!Dispatch
  <2>0. wpc = "dispatch" /\ job = NoJob
    BY <1>0, <1>8 DEF Ep!Dispatch, EpJob, Handlers, Receiving, Closing
  <2>a. EpAnswers'
    BY <1>0, <1>1, <1>2, <2>0 DEF EpAnswers
  <2>1. CASE batch = {} /\ wpc' = "test" /\ UNCHANGED <<batch, job>>
    <3>1. EpEvents' /\ EpJob'
      BY <2>0, <2>1 DEF EpEvents, EpJob, Handlers, Receiving, Closing
    <3> QED BY <1>2, <1>4, <2>a, <3>1 DEF EpInv
  <2>2. ASSUME NEW e \in batch, job' = e, batch' = batch \ {e}, wpc' = Ep!Handler(e.event)
        PROVE  EpInv'
    <3>1. e \in Jobs /\ Valid(e) /\ e.event \in {"in", "out", "hup"} /\ e.conn \in Conns
      BY <1>0, <2>2, EpConns DEF EpEvents
    <3>2. wpc' = IF e.event = "in" THEN "recvLength" ELSE IF e.event = "out" THEN "send" ELSE "del"
      BY <2>2, <3>1 DEF Ep!Handler
    <3>3. EpEvents'
      <4>1. wpc' \notin {"test", "take", "wait", "closeEp", "exited"}
        BY <3>1, <3>2
      <4> QED BY <1>0, <1>5, <2>2, <4>1 DEF EpEvents
    <3>4. InHand(e)'
      <4>1. Valid(e)' /\ \A d \in batch' : d.conn # e.conn
        BY <1>0, <1>5, <2>2, <3>1 DEF EpEvents
      <4>2. fd[e.conn] \in FDs /\ owner[fd[e.conn]] = e.conn /\ (e.event = "hup" => e.conn \in shut \/ Broken(e.conn))
        BY <3>1 DEF Valid
      <4>3. e.conn \notin freed \union Waiting
        BY <1>0, <3>1, <4>2 DEF EpTables
      <4> QED BY <1>1, <1>2, <3>1, <3>2, <4>1, <4>2, <4>3 DEF InHand, Receiving, Closing
    <3>5. EpJob'
      BY <2>2, <3>1, <3>2, <3>4 DEF EpJob, Handlers, Receiving, Closing
    <3> QED BY <1>4, <2>a, <3>3, <3>5 DEF EpInv
  <2> QED BY <1>2, <1>8, <2>1, <2>2 DEF Ep!Dispatch, Ep!Goto
<1>9. CASE Ep!RecvLength \/ Ep!RecvMessage
  <2>1. wpc \in {"recvLength", "recvMessage"} /\ UNCHANGED <<batch, job>>
    BY <1>9 DEF Ep!RecvLength, Ep!RecvMessage
  <2>2. PICK c \in Conns : c = job.conn
    BY <2>1, EpSocket DEF Handlers, Receiving
  <2>3. /\ job \in Jobs /\ InHand(job) /\ Ep!Socket = c /\ Holds(c)
        /\ c \notin shut /\ job.event = "in"
    BY <2>1, <2>2, EpSocket DEF Handlers, Receiving, InHand, Valid
  <2>4. \/ wpc' = "rearm" /\ Complete(c)
        \/ wpc' = "recvMessage"
        \/ wpc' = "shutdown" /\ Broken(c)
    <3>1. CASE Ep!RecvLength
      <4>1. Readable(c) /\ wpc' = IF input[c] = "none" THEN "rearm" ELSE "recvMessage"
        BY <3>1, <2>3 DEF Ep!RecvLength, Ep!Goto, Ep!Readable, Readable
      <4> QED BY <2>3, <4>1, ReadableConn
    <3>2. CASE Ep!RecvMessage
      <4>1. input[c] = "full" \/ peer[c] # "open"
        BY <3>2, <2>3 DEF Ep!RecvMessage
      <4>2. wpc' = "rearm" \/ (wpc' = "shutdown" /\ Broken(c))
        BY <3>2, <2>3 DEF Ep!RecvMessage, Ep!Goto, Ep!Broken, Broken
      <4> QED BY <2>3, <4>1, <4>2, EndedConn
    <3> QED BY <1>9, <3>1, <3>2
  <2>5. EpEvents'
    <3>1. wpc' \notin {"test", "take", "wait", "closeEp", "exited"}
      BY <2>4
    <3> QED BY <1>0, <1>5, <2>1, <3>1 DEF EpEvents
  <2>6. ASSUME NEW j \in Jobs, job = j PROVE InHand(j)'
    <3>1. InHand(j) /\ j.conn = c /\ j.event = "in" /\ Valid(j)
      BY <2>1, <2>2, <2>3, <2>6 DEF InHand
    <3>2. Valid(j)'
      BY <1>5, <3>1
    <3>3. wpc' \in {"rearm", "recvMessage", "shutdown"}
      BY <2>4
    <3> QED BY <1>1, <1>2, <2>1, <2>4, <3>1, <3>2, <3>3 DEF InHand, Receiving, Closing
  <2>7. EpJob'
    <3>1. wpc' \in Handlers
      BY <2>4 DEF Handlers, Receiving
    <3> QED BY <2>1, <2>3, <2>6, <3>1 DEF EpJob
  <2>8. EpAnswers'
    BY <1>0, <1>1, <1>2, <2>1 DEF EpAnswers
  <2> QED BY <1>2, <1>4, <2>5, <2>7, <2>8 DEF EpInv
<1> QED BY <1>6, <1>7, <1>8, <1>9

(* The new clients are registered for input.                                *)
LEMMA EpTake ==
  ASSUME HostInv, EpInv, Ep!TakeNewClients, UNCHANGED ioMode
  PROVE  HostInv' /\ EpInv'
<1>0. EpTables /\ EpEvents /\ EpJob /\ EpAnswers
  BY DEF EpInv
<1> PICK list, new : list = NewClients /\ new = {fd[c] : c \in list}
  OBVIOUS
<1>1. /\ wpc = "take" /\ wpc' = "wait" /\ TakeList
      /\ UNCHANGED <<ioMode, freed, batch, job>>
      /\ arm' = [f \in FDs |-> IF f \in new THEN "in" ELSE arm[f]]
      /\ owner' = [f \in FDs |-> IF f \in new THEN table[f] ELSE owner[f]]
      /\ edges' \subseteq edges \union new
  BY DEF Ep!TakeNewClients, Ep!Goto, Ep!TakeList, TakeList, Ep!NewClients, NewClients
<1>2. /\ HostInv' /\ list = m_addClientList /\ Waiting' = Waiting \ list /\ list \subseteq Waiting
      /\ \A d \in Conns : /\ Complete(d)' <=> Complete(d)
                          /\ Broken(d)' <=> Broken(d)
                          /\ Holds(d)' <=> Holds(d)
  BY <1>1, TakeHost
<1>3. UNCHANGED <<fd, table, answered, shut>>
  BY <1>1 DEF TakeList
<1>4. \A c \in list : c \in Conns /\ Holds(c) /\ fd[c] \in FDs /\ table[fd[c]] = c /\ c \notin freed \union shut
                      /\ answered[c] = 0
  BY <1>2, WaitingConns DEF HostInv, Holds
<1>5. \A f \in new : f \in FDs /\ table[f] \in list /\ fd[table[f]] = f
  BY <1>4
<1>6. EpTables'
  <2>1. /\ arm' \in [FDs -> {"none", "in", "out"}] /\ owner' \in [FDs -> Conns \union {NoConn}]
        /\ edges' \subseteq {f \in FDs : arm'[f] # "none"}
        /\ \A f \in FDs : arm'[f] = "none" <=> owner'[f] = NoConn
    BY <1>0, <1>1, <1>4, <1>5, Numbers DEF EpTables
  <2>2. ASSUME NEW f \in FDs, NEW c \in Conns, owner'[f] = c
        PROVE  fd'[c] = f /\ Holds(c)' /\ c \notin freed' \union Waiting'
    <3>1. CASE f \in new
      BY <1>1, <1>2, <1>3, <1>4, <1>5, <2>2, <3>1
    <3>2. CASE f \notin new
      BY <1>0, <1>1, <1>2, <1>3, <2>2, <3>2 DEF EpTables
    <3> QED BY <3>1, <3>2
  <2>3. ASSUME NEW c \in Conns, Holds(c)' PROVE c \in Waiting' \/ owner'[fd'[c]] = c
    <3>1. Holds(c) /\ fd[c] \in FDs /\ table[fd[c]] = c
      BY <1>2, <2>3 DEF Holds
    <3>2. CASE fd[c] \in new
      BY <1>1, <1>3, <3>1, <3>2
    <3>3. CASE fd[c] \notin new
      <4>1. c \notin list
        BY <3>3
      <4>2. c \in Waiting \/ owner[fd[c]] = c
        BY <1>0, <1>1, <3>1 DEF EpTables
      <4> QED BY <1>1, <1>2, <1>3, <3>1, <3>3, <4>1, <4>2
    <3> QED BY <3>2, <3>3
  <2> QED BY <1>1, <2>1, <2>2, <2>3 DEF EpTables
<1>7. EpEvents' /\ EpJob'
  <2>1. batch = {} /\ job = NoJob
    BY <1>0, <1>1 DEF EpEvents, EpJob, Handlers, Receiving, Closing
  <2> QED BY <1>1, <2>1 DEF EpEvents, EpJob, Handlers, Receiving, Closing
<1>8. EpAnswers'
  <2>1. ASSUME NEW f \in FDs, NEW c \in Conns, arm'[f] = "out", owner'[f] = c PROVE Complete(c)'
    BY <1>0, <1>1, <1>2, <2>1 DEF EpAnswers
  <2>2. ASSUME NEW c \in Conns
        PROVE  /\ answered'[c] \in {0, 1} /\ (answered'[c] = 1 => c \in shut')
               /\ c \in shut' => answered'[c] = 1 \/ Broken(c)'
    BY <1>0, <1>1, <1>2, <1>3 DEF EpAnswers
  <2> QED BY <2>1, <2>2 DEF EpAnswers
<1> QED BY <1>2, <1>6, <1>7, <1>8 DEF EpInv

(* A registration changes: rearm, EPOLL_CTL_DEL, and the end of the instance. *)
LEMMA EpRegister ==
  ASSUME HostInv, EpInv, Ep!Rearm \/ Ep!Deregister \/ Ep!CloseEpoll, UNCHANGED ioMode
  PROVE  HostInv' /\ EpInv'
<1>0. EpTables /\ EpEvents /\ EpJob /\ EpAnswers
  BY DEF EpInv
<1>1. UNCHANGED <<ioMode, hostVars, freed, batch>>
  BY DEF Ep!Rearm, Ep!Deregister, Ep!CloseEpoll
<1>2. /\ HostInv' /\ Waiting' = Waiting
      /\ \A d \in Conns : /\ Complete(d)' <=> Complete(d)
                          /\ Broken(d)' <=> Broken(d)
                          /\ Holds(d)' <=> Holds(d)
  BY <1>1, WorkerIdle
<1>3. CASE Ep!CloseEpoll
  <2>1. /\ wpc = "closeEp" /\ wpc' = "exited" /\ edges' = {} /\ job' = job
        /\ arm' = [f \in FDs |-> "none"] /\ owner' = [f \in FDs |-> NoConn]
    BY <1>3 DEF Ep!CloseEpoll, Ep!Goto
  <2>2. batch = {} /\ job = NoJob
    BY <1>0, <2>1 DEF EpEvents, EpJob, Handlers, Receiving, Closing
  <2>3. EpTables'
    BY <1>0, <2>1, Numbers DEF EpTables
  <2>4. EpEvents' /\ EpJob'
    BY <1>1, <2>1, <2>2 DEF EpEvents, EpJob, Handlers, Receiving, Closing
  <2>5. EpAnswers'
    BY <1>0, <1>1, <1>2, <2>1 DEF EpAnswers
  <2> QED BY <1>2, <2>3, <2>4, <2>5 DEF EpInv
<1>4. CASE Ep!Rearm
  <2>0. wpc = "rearm"
    BY <1>4 DEF Ep!Rearm
  <2> PICK j, g : j = job /\ g = fd[job.conn]
    OBVIOUS
  <2>1. /\ j \in Jobs /\ InHand(j) /\ j.conn \in Conns /\ g \in FDs /\ Ep!FD = g
        /\ owner[g] = j.conn /\ Complete(j.conn) /\ fd[j.conn] = g
    BY <2>0, EpSocket DEF Handlers, Receiving, InHand
  <2>2. /\ wpc' = "dispatch" /\ job' = NoJob /\ owner' = owner
        /\ arm' = [arm EXCEPT ![g] = "out"] /\ edges' = edges \union {g}
    BY <1>4, <2>1 DEF Ep!Rearm, Ep!Goto
  <2>3. EpTables'
    <3>1. /\ arm' \in [FDs -> {"none", "in", "out"}] /\ edges' \subseteq {f \in FDs : arm'[f] # "none"}
          /\ \A f \in FDs : arm'[f] = "none" <=> owner[f] = NoConn
      <4>1. arm \in [FDs -> {"none", "in", "out"}] /\ arm[g] # "none" /\ owner[g] # NoConn
        BY <1>0, <2>1, Numbers DEF EpTables
      <4>2. /\ arm' \in [FDs -> {"none", "in", "out"}]
            /\ \A f \in FDs : arm'[f] = IF f = g THEN "out" ELSE arm[f]
        BY <2>1, <2>2, <4>1
      <4> QED BY <1>0, <2>1, <2>2, <4>1, <4>2 DEF EpTables
    <3> QED BY <1>0, <1>1, <1>2, <2>0, <2>2, <3>1 DEF EpTables
  <2>4. EpEvents'
    <3>1. ASSUME NEW e \in batch PROVE Valid(e)'
      <4>1. Valid(e) /\ e \in Jobs /\ e.conn # j.conn /\ e.conn \in Conns
        BY <1>0, <2>1, EpConns DEF EpEvents, InHand
      <4>2. fd[e.conn] # g
        BY <2>1, <4>1 DEF Valid
      <4>3. arm'[fd[e.conn]] = arm[fd[e.conn]] /\ owner' = owner
        BY <1>0, <2>2, <4>1, <4>2 DEF EpTables, Valid
      <4> QED BY <1>1, <1>2, <4>1, <4>3 DEF Valid
    <3> QED BY <1>0, <1>1, <2>2, <3>1 DEF EpEvents
  <2>5. EpJob'
    BY <2>2 DEF EpJob, Handlers, Receiving, Closing
  <2>6. EpAnswers'
    <3>1. ASSUME NEW f \in FDs, NEW c \in Conns, arm'[f] = "out", owner'[f] = c PROVE Complete(c)'
      <4>1. CASE f = g
        BY <1>2, <2>1, <2>2, <3>1, <4>1
      <4>2. CASE f # g
        BY <1>0, <1>2, <2>2, <3>1, <4>2 DEF EpAnswers, EpTables
      <4> QED BY <4>1, <4>2
    <3> QED BY <1>0, <1>1, <1>2, <2>0, <2>2, <3>1 DEF EpAnswers
  <2> QED BY <1>2, <2>3, <2>4, <2>5, <2>6 DEF EpInv
<1>5. CASE Ep!Deregister
  <2>0. wpc = "del"
    BY <1>5 DEF Ep!Deregister
  <2> PICK j, g : j = job /\ g = fd[job.conn]
    OBVIOUS
  <2>1. /\ j \in Jobs /\ InHand(j) /\ j.conn \in Conns /\ g \in FDs /\ Ep!FD = g
        /\ owner[g] = j.conn /\ fd[j.conn] = g /\ Holds(j.conn)
    BY <2>0, EpSocket DEF Handlers, Closing, InHand
  <2>2. /\ wpc' = "close" /\ job' = job
        /\ arm' = [arm EXCEPT ![g] = "none"] /\ owner' = [owner EXCEPT ![g] = NoConn]
        /\ edges' = edges \ {g}
    BY <1>5, <2>1 DEF Ep!Deregister, Ep!Goto
  <2>3. EpTables'
    <3>1. /\ arm' \in [FDs -> {"none", "in", "out"}] /\ edges' \subseteq {f \in FDs : arm'[f] # "none"}
          /\ owner' \in [FDs -> Conns \union {NoConn}]
          /\ \A f \in FDs : arm'[f] = "none" <=> owner'[f] = NoConn
      BY <1>0, <2>1, <2>2, Numbers DEF EpTables
    <3>2. ASSUME NEW f \in FDs, NEW c \in Conns, owner'[f] = c
          PROVE  fd'[c] = f /\ Holds(c)' /\ c \notin freed' \union Waiting'
      <4>1. f # g /\ owner[f] = c
        BY <1>0, <2>1, <2>2, <3>2, Numbers DEF EpTables
      <4> QED BY <1>0, <1>1, <1>2, <4>1 DEF EpTables
    <3>3. ASSUME NEW c \in Conns, Holds(c)'
          PROVE  c \in Waiting' \/ owner'[fd'[c]] = c \/ (wpc' = "close" /\ job'.conn = c)
      <4>1. Holds(c) /\ fd[c] \in FDs
        BY <1>2, <3>3 DEF Holds
      <4>2. c \in Waiting \/ owner[fd[c]] = c
        BY <1>0, <2>0, <4>1 DEF EpTables
      <4> QED BY <1>0, <1>1, <1>2, <2>1, <2>2, <4>1, <4>2 DEF EpTables
    <3> QED BY <2>2, <3>1, <3>2, <3>3 DEF EpTables, Handlers, Closing
  <2>4. EpEvents'
    <3>1. ASSUME NEW e \in batch PROVE Valid(e)'
      <4>1. Valid(e) /\ e \in Jobs /\ e.conn # j.conn /\ e.conn \in Conns
        BY <1>0, <2>1, EpConns DEF EpEvents, InHand
      <4>2. fd[e.conn] # g
        BY <2>1, <4>1 DEF Valid
      <4>3. arm'[fd[e.conn]] = arm[fd[e.conn]] /\ owner'[fd[e.conn]] = owner[fd[e.conn]]
        BY <1>0, <2>2, <4>1, <4>2 DEF EpTables, Valid
      <4> QED BY <1>1, <1>2, <4>1, <4>3 DEF Valid
    <3> QED BY <1>0, <1>1, <2>2, <3>1 DEF EpEvents
  <2>5. InHand(j)'
    <3>1. owner'[g] = NoConn
      BY <1>0, <2>1, <2>2 DEF EpTables
    <3> QED BY <1>1, <1>2, <2>0, <2>1, <2>2, <3>1 DEF InHand, Receiving, Closing
  <2>6. EpJob'
    BY <2>1, <2>2, <2>5 DEF EpJob, Handlers, Closing
  <2>7. EpAnswers'
    <3>1. ASSUME NEW f \in FDs, NEW c \in Conns, arm'[f] = "out", owner'[f] = c PROVE Complete(c)'
      <4>1. f # g
        BY <1>0, <2>1, <2>2, <3>1 DEF EpTables
      <4> QED BY <1>0, <1>2, <2>2, <3>1, <4>1 DEF EpAnswers, EpTables
    <3> QED BY <1>0, <1>1, <1>2, <2>0, <2>2, <3>1 DEF EpAnswers
  <2> QED BY <1>2, <2>3, <2>4, <2>6, <2>7 DEF EpInv
<1> QED BY <1>3, <1>4, <1>5

(* The worker answers, shuts down, closes or deletes the client in hand.    *)
LEMMA EpHandle ==
  ASSUME HostInv, EpInv, Ep!Send \/ Ep!Shutdown \/ Ep!Close \/ Ep!DeleteInfo, UNCHANGED ioMode
  PROVE  HostInv' /\ EpInv'
<1>0. EpTables /\ EpEvents /\ EpJob /\ EpAnswers
  BY DEF EpInv
<1>1. wpc \in {"send", "shutdown", "close", "delete"} /\ UNCHANGED <<ioMode, fd, arm, owner, batch>>
  BY DEF Ep!Send, Ep!Shutdown, Ep!Close, Ep!DeleteInfo
<1> PICK j, c, g : j = job /\ c = job.conn /\ g = fd[job.conn]
  OBVIOUS
<1>2. /\ j \in Jobs /\ InHand(j) /\ j.conn = c /\ c \in Conns /\ g \in FDs /\ Ep!FD = g /\ g = fd[c]
      /\ c \notin freed \union Waiting
      /\ wpc \in {"send", "shutdown"} => Ep!Socket = c /\ owner[g] = c /\ Valid(j) /\ Holds(c)
      /\ wpc = "close" => Holds(c) /\ owner[g] = NoConn
      /\ wpc = "delete" => ~ Holds(c)
  BY <1>1, EpSocket DEF Handlers, Closing, InHand
<1>3. /\ wpc = "send" =>
           /\ wpc' = "shutdown" /\ job' = job /\ edges' = edges
           /\ UNCHANGED <<table, shut, freed>>
           /\ answered' = [d \in Conns |-> IF d = c THEN answered[d] + 1 ELSE answered[d]]
      /\ wpc = "shutdown" =>
           /\ wpc' = "dispatch" /\ job' = NoJob
           /\ edges' \subseteq edges \union {f \in FDs : arm[f] # "none"}
           /\ UNCHANGED <<table, answered, freed>> /\ shut' = shut \union {c}
      /\ wpc = "close" =>
           /\ wpc' = "delete" /\ job' = job /\ edges' = edges
           /\ UNCHANGED <<answered, shut, freed>> /\ table' = [table EXCEPT ![g] = NoConn]
      /\ wpc = "delete" =>
           /\ wpc' = "dispatch" /\ job' = NoJob /\ edges' = edges
           /\ UNCHANGED <<table, answered, shut>> /\ freed' = freed \union {c}
  <2>1. CASE Ep!Send
    BY <1>2, <2>1 DEF Ep!Send, Ep!Goto
  <2>2. CASE Ep!Shutdown
    BY <1>2, <2>2 DEF Ep!Shutdown, Ep!Goto, Ep!Notify, Ep!Registered
  <2>3. CASE Ep!Close
    BY <1>2, <2>3 DEF Ep!Close, Ep!Goto
  <2>4. CASE Ep!DeleteInfo
    BY <1>2, <2>4 DEF Ep!DeleteInfo, Ep!Goto
  <2> QED BY <2>1, <2>2, <2>3, <2>4
<1>4. Handles(c)
  <2>1. UNCHANGED <<ioMode, clientVars, mainVars, m_addClientList, m_hasNewClient>>
    BY DEF Ep!Send, Ep!Shutdown, Ep!Close, Ep!DeleteInfo
  <2>2. answered' \in [Conns -> Nat] /\ \A d \in Conns \ {c} : answered'[d] = answered[d]
    BY <1>1, <1>3 DEF HostInv
  <2> QED BY <1>1, <1>2, <1>3, <2>1, <2>2 DEF Handles
<1>5. /\ HostInv' /\ Waiting' = Waiting
      /\ \A d \in Conns : /\ Complete(d)' <=> Complete(d)
                          /\ Broken(d)' <=> Broken(d)
                          /\ Holds(d)' <=> Holds(d) /\ (d # c \/ table' = table)
  BY <1>2, <1>4, WorkerHost
<1>6. ~ Holds(c)' <=> wpc \in {"close", "delete"}
  <2>1. wpc = "close" => table' # table
    BY <1>2, <1>3, Numbers DEF Holds, HostInv
  <2> QED BY <1>1, <1>2, <1>3, <1>5, <2>1
<1>7. wpc' \in {"shutdown", "dispatch", "delete"} /\ (wpc' = "shutdown" => wpc = "send")
      /\ (wpc' = "delete" => wpc = "close")
  BY <1>1, <1>3
<1>8. EpTables'
  <2>1. ASSUME NEW f \in FDs, NEW d \in Conns, owner[f] = d
        PROVE  fd'[d] = f /\ Holds(d)' /\ d \notin freed' \union Waiting'
    <3>1. fd[d] = f /\ Holds(d) /\ d \notin freed \union Waiting
      BY <1>0, <2>1 DEF EpTables
    <3>2. CASE d = c
      <4>1. wpc \in {"send", "shutdown"}
        BY <1>1, <1>2, <2>1, <3>1, <3>2, Numbers
      <4> QED BY <1>1, <1>3, <1>5, <3>1, <4>1
    <3>3. CASE d # c
      BY <1>1, <1>3, <1>5, <3>1, <3>3
    <3> QED BY <3>2, <3>3
  <2>2. ASSUME NEW d \in Conns, Holds(d)' PROVE d \in Waiting' \/ owner'[fd'[d]] = d
    <3>1. Holds(d) /\ (d = c => wpc \in {"send", "shutdown"})
      BY <1>1, <1>5, <1>6, <2>2
    <3> QED BY <1>0, <1>1, <1>2, <1>5, <3>1 DEF EpTables
  <2>3. edges' \subseteq {f \in FDs : arm'[f] # "none"}
    BY <1>0, <1>1, <1>3 DEF EpTables
  <2> QED BY <1>0, <1>1, <1>7, <2>1, <2>2, <2>3 DEF EpTables, Handlers, Closing
<1>9. ASSUME NEW e \in Jobs, e.conn # c \/ wpc = "send", Valid(e) PROVE Valid(e)'
  BY <1>1, <1>3, <1>5, <1>9, EpConns DEF Valid
<1>10. EpEvents'
  <2>1. \A e \in batch : e \in Jobs /\ e.conn # c /\ Valid(e)
    BY <1>0, <1>2 DEF EpEvents, InHand
  <2> QED BY <1>0, <1>1, <1>7, <1>9, <2>1 DEF EpEvents
<1>11. EpAnswers'
  <2>1. ASSUME NEW f \in FDs, NEW d \in Conns, arm'[f] = "out", owner'[f] = d PROVE Complete(d)'
    BY <1>0, <1>1, <1>5, <2>1 DEF EpAnswers
  <2>2. ASSUME NEW d \in Conns
        PROVE  /\ answered'[d] \in {0, 1}
               /\ answered'[d] = 1 => d \in shut' \/ (wpc' = "shutdown" /\ job'.conn = d)
               /\ d \in shut' => answered'[d] = 1 \/ Broken(d)'
    <3>1. /\ answered[d] \in {0, 1}
          /\ answered[d] = 1 => d \in shut \/ (wpc = "shutdown" /\ c = d)
          /\ d \in shut => answered[d] = 1 \/ Broken(d)
          /\ Broken(d)' <=> Broken(d)
      BY <1>0, <1>5 DEF EpAnswers
    <3>2. CASE wpc = "send"
      <4>1. c \notin shut
        BY <1>2, <3>2 DEF InHand, Valid
      <4>2. answered'[d] = IF d = c THEN answered[d] + 1 ELSE answered[d]
        BY <1>3, <3>2
      <4> QED BY <1>3, <3>1, <3>2, <4>1, <4>2
    <3>3. CASE wpc = "shutdown"
      <4>1. answered[c] = 1 \/ Broken(c)
        BY <1>2, <3>3 DEF InHand
      <4> QED BY <1>3, <3>1, <3>3, <4>1
    <3>4. CASE wpc \in {"close", "delete"}
      BY <1>3, <3>1, <3>4
    <3> QED BY <1>1, <3>2, <3>3, <3>4
  <2> QED BY <2>1, <2>2 DEF EpAnswers
<1>12. EpJob'
  <2>1. CASE wpc' = "dispatch"
    <3>1. job' = NoJob
      BY <1>1, <1>3, <2>1
    <3> QED BY <2>1, <3>1 DEF EpJob, Handlers, Receiving, Closing
  <2>2. CASE wpc' \in {"shutdown", "delete"}
    <3>1. job' = j /\ wpc \in {"send", "close"} /\ UNCHANGED <<freed, batch, fd, shut>>
      BY <1>1, <1>3, <2>2
    <3>2. InHand(j)'
      <4>1. CASE wpc = "send"
        <5>1. answered'[c] = 1 /\ wpc' = "shutdown"
          <6>1. c \notin shut
            BY <1>2, <4>1 DEF InHand, Valid
          <6>2. answered[c] = 0
            BY <1>0, <1>2, <4>1, <6>1 DEF EpAnswers
          <6> QED BY <1>2, <1>3, <4>1, <6>2
        <5>2. Valid(j)'
          BY <1>2, <1>9, <4>1
        <5>3. j.event = "out" /\ \A e \in batch : e.conn # c
          BY <1>2, <4>1 DEF InHand
        <5> QED BY <1>2, <1>5, <3>1, <5>1, <5>2, <5>3 DEF InHand, Receiving, Closing
      <4>2. CASE wpc = "close"
        <5>1. (c \in shut \/ Broken(c)) /\ \A e \in batch : e.conn # c
          BY <1>2, <4>2 DEF InHand, Closing
        <5>2. wpc' = "delete" /\ ~ Holds(c)'
          BY <1>3, <1>6, <4>2
        <5> QED BY <1>2, <1>5, <3>1, <5>1, <5>2 DEF InHand, Receiving, Closing
      <4> QED BY <3>1, <4>1, <4>2
    <3> QED BY <1>2, <2>2, <3>1, <3>2 DEF EpJob, Handlers, Closing
  <2> QED BY <1>7, <2>1, <2>2
<1> QED BY <1>5, <1>8, <1>10, <1>11, <1>12 DEF EpInv

(* Every step of the epoll worker keeps the invariant.                      *)
LEMMA EpWorker ==
  ASSUME HostInv, EpInv, Ep!WorkerStep, UNCHANGED ioMode
  PROVE  HostInv' /\ EpInv'
  BY EpLoop, EpTake, EpRegister, EpHandle DEF Ep!WorkerStep

(* It has done nothing at the start.                                        *)
LEMMA EpStart == ASSUME HostInv, Ep!Init PROVE EpInv
<1>1. /\ wpc = "test" /\ edges = {} /\ batch = {} /\ job = NoJob
      /\ arm = [f \in FDs |-> "none"] /\ owner = [f \in FDs |-> NoConn]
      /\ fd = [c \in Conns |-> 0] /\ answered = [c \in Conns |-> 0] /\ shut = {}
  BY DEF Ep!Init, Ep!HostInit
<1>2. EpTables
  BY <1>1, Numbers DEF EpTables, Holds
<1>3. EpEvents /\ EpJob
  BY <1>1 DEF EpEvents, EpJob, Handlers, Receiving, Closing
<1>4. EpAnswers
  BY <1>1 DEF EpAnswers
<1> QED BY <1>2, <1>3, <1>4 DEF EpInv

-----------------------------------------------------------------------------
(* PollWorker.                                                              *)

(* A step of the clients or of main does not disturb the worker.            *)
LEMMA PoHost ==
  ASSUME HostInv, PoInv, HostMoves, UNCHANGED <<wpc, events, cinfoMap, revents, todo, curr, clrfds>>
  PROVE  PoInv'
<1>0. PoTables /\ PoLoop /\ PoAnswers
  BY DEF PoInv
<1>1. /\ \A c \in Conns : fd[c] # 0 =>
           fd'[c] = fd[c] /\ (Holds(c)' <=> Holds(c)) /\ (c \in Waiting' <=> c \in Waiting)
      /\ \A c \in Conns : fd[c] = 0 /\ Holds(c)' => c \in Waiting'
      /\ \A c \in Conns : Complete(c) => Complete(c)'
      /\ UNCHANGED <<answered, shut, freed>>
  BY DEF HostMoves
<1>2. PoTables'
  <2>1. ASSUME NEW f \in FDs, NEW c \in Conns, cinfoMap[f] = c
        PROVE  /\ fd'[c] = f /\ c \notin freed' \union Waiting'
               /\ IF wpc = "forget" /\ curr = f THEN ~ Holds(c)' ELSE Holds(c)'
    <3>1. fd[c] = f /\ fd[c] # 0
      BY <1>0, <2>1, Numbers DEF PoTables
    <3> QED BY <1>0, <1>1, <2>1, <3>1 DEF PoTables
  <2>2. ASSUME NEW c \in Conns, Holds(c)' PROVE c \in Waiting' \/ cinfoMap[fd'[c]] = c
    BY <1>0, <1>1, <2>2 DEF PoTables
  <2> QED BY <1>0, <2>1, <2>2 DEF PoTables
<1>3. PoLoop'
  BY <1>0 DEF PoLoop
<1>4. PoAnswers'
  <2>1. ASSUME NEW c \in Conns
        PROVE  /\ answered'[c] = 1 /\ Holds(c)' => fd'[c] \in clrfds
               /\ Holds(c)' => c \notin shut'
    <3>1. CASE fd[c] # 0
      BY <1>0, <1>1, <3>1 DEF PoAnswers
    <3>2. CASE fd[c] = 0
      BY <1>1, <3>2 DEF HostInv
    <3> QED BY <3>1, <3>2
  <2> QED BY <1>0, <1>1, <2>1 DEF PoAnswers
<1> QED BY <1>2, <1>3, <1>4 DEF PoInv

(* Steps that touch no connection and no entry of the list.                 *)
LEMMA PoLoopStep ==
  ASSUME HostInv, PoInv, UNCHANGED ioMode,
         Po!TestExit \/ Po!Poll \/ Po!Examine \/ Po!LoopDone \/ Po!ClearDone
  PROVE  HostInv' /\ PoInv'
<1>0. PoTables /\ PoLoop /\ PoAnswers
  BY DEF PoInv
<1>1. UNCHANGED <<ioMode, hostVars, freed, cinfoMap, events>> /\ wpc # "forget" /\ wpc' # "forget"
  BY DEF Po!TestExit, Po!Poll, Po!Examine, Po!LoopDone, Po!ClearDone, Po!Goto
<1>2. /\ HostInv' /\ Waiting' = Waiting
      /\ \A d \in Conns : /\ Complete(d)' <=> Complete(d)
                          /\ Broken(d)' <=> Broken(d)
                          /\ Holds(d)' <=> Holds(d)
  BY <1>1, WorkerIdle
<1>3. wpc' \in {"exited", "take", "loop", "recvLength", "send", "clear", "test"}
  BY DEF Po!TestExit, Po!Poll, Po!Examine, Po!LoopDone, Po!ClearDone, Po!Goto
<1>4. PoTables'
  BY <1>0, <1>1, <1>2, <1>3 DEF PoTables
<1>5. clrfds \subseteq clrfds'
  BY DEF Po!TestExit, Po!Poll, Po!Examine, Po!LoopDone, Po!ClearDone
<1>6. PoAnswers'
  BY <1>0, <1>1, <1>2, <1>5 DEF PoAnswers
<1>7. PoLoop'
  <2>1. CASE Po!TestExit
    BY <1>0, <2>1 DEF Po!TestExit, Po!Goto, PoLoop
  <2>2. CASE Po!Poll
    <3>1. /\ wpc = "poll" /\ wpc' = "loop" /\ events' = events /\ clrfds' = clrfds /\ curr' = curr
          /\ todo' = {f \in FDs : events[f] # "none"}
          /\ revents' = [f \in FDs |-> Po!Reported(f)]
      BY <2>2 DEF Po!Poll, Po!Goto, Po!Listed
    <3>2. \A f \in FDs : Po!Reported(f) \in {"none", events[f]}
      BY DEF Po!Reported
    <3>3. clrfds = {} /\ \A f \in todo' : revents'[f] \in {"none", events[f]}
      BY <1>0, <3>1, <3>2 DEF PoLoop
    <3> QED BY <3>1, <3>3 DEF PoLoop
  <2>3. CASE Po!Examine
    <3>1. PICK f \in todo :
            /\ todo' = todo \ {f}
            /\ \/ revents[f] = "in" /\ wpc' = "recvLength" /\ curr' = f /\ UNCHANGED clrfds
               \/ revents[f] = "out" /\ wpc' = "send" /\ curr' = f /\ UNCHANGED clrfds
               \/ revents[f] = "none" /\ wpc' = "loop" /\ clrfds' = clrfds \union {f} /\ UNCHANGED curr
      BY <2>3 DEF Po!Examine, Po!Goto
    <3>2. wpc = "loop" /\ UNCHANGED <<events, revents>>
      BY <2>3 DEF Po!Examine
    <3>3. f \in FDs /\ events[f] # "none" /\ f \notin clrfds /\ revents[f] \in {"none", events[f]}
      BY <1>0 DEF PoLoop
    <3> QED BY <1>0, <3>1, <3>2, <3>3 DEF PoLoop
  <2>4. CASE Po!LoopDone \/ Po!ClearDone
    BY <1>0, <2>4 DEF Po!LoopDone, Po!ClearDone, Po!Goto, PoLoop
  <2> QED BY <2>1, <2>2, <2>3, <2>4
<1> QED BY <1>2, <1>4, <1>6, <1>7 DEF PoInv

(* The new clients are listed for input.                                    *)
LEMMA PoTake ==
  ASSUME HostInv, PoInv, Po!TakeNewClients, UNCHANGED ioMode
  PROVE  HostInv' /\ PoInv'
<1>0. PoTables /\ PoLoop /\ PoAnswers
  BY DEF PoInv
<1> PICK list, new : list = NewClients /\ new = {fd[c] : c \in list}
  OBVIOUS
<1>1. /\ wpc = "take" /\ wpc' \in {"test", "poll"} /\ TakeList
      /\ UNCHANGED <<ioMode, freed, revents, todo, curr, clrfds>>
      /\ cinfoMap' = [f \in FDs |-> IF f \in new THEN table[f] ELSE cinfoMap[f]]
      /\ events' = [f \in FDs |-> IF f \in new THEN "in" ELSE events[f]]
  BY DEF Po!TakeNewClients, Po!Goto, Po!TakeList, TakeList, Po!NewClients, NewClients
<1>2. /\ HostInv' /\ list = m_addClientList /\ Waiting' = Waiting \ list /\ list \subseteq Waiting
      /\ \A d \in Conns : /\ Complete(d)' <=> Complete(d)
                          /\ Broken(d)' <=> Broken(d)
                          /\ Holds(d)' <=> Holds(d)
  BY <1>1, TakeHost
<1>3. UNCHANGED <<fd, table, answered, shut>>
  BY <1>1 DEF TakeList
<1>4. \A c \in list : c \in Conns /\ Holds(c) /\ fd[c] \in FDs /\ table[fd[c]] = c /\ c \notin freed \union shut
                      /\ answered[c] = 0
  BY <1>2, WaitingConns DEF HostInv, Holds
<1>5. \A f \in new : f \in FDs /\ table[f] \in list /\ fd[table[f]] = f
  BY <1>4
<1>6. PoTables'
  <2>1. /\ events' \in [FDs -> {"none", "in", "out"}] /\ cinfoMap' \in [FDs -> Conns \union {NoConn}]
        /\ \A f \in FDs : events'[f] = "none" <=> cinfoMap'[f] = NoConn
    BY <1>0, <1>1, <1>4, <1>5, Numbers DEF PoTables
  <2>2. ASSUME NEW f \in FDs, NEW c \in Conns, cinfoMap'[f] = c
        PROVE  fd'[c] = f /\ Holds(c)' /\ c \notin freed' \union Waiting'
    <3>1. CASE f \in new
      BY <1>1, <1>2, <1>3, <1>4, <1>5, <2>2, <3>1
    <3>2. CASE f \notin new
      BY <1>0, <1>1, <1>2, <1>3, <2>2, <3>2 DEF PoTables
    <3> QED BY <3>1, <3>2
  <2>3. ASSUME NEW c \in Conns, Holds(c)' PROVE c \in Waiting' \/ cinfoMap'[fd'[c]] = c
    <3>1. Holds(c) /\ fd[c] \in FDs /\ table[fd[c]] = c
      BY <1>2, <2>3 DEF Holds
    <3>2. CASE fd[c] \in new
      BY <1>1, <1>3, <3>1, <3>2
    <3>3. CASE fd[c] \notin new
      <4>1. c \notin list
        BY <3>3
      <4>2. c \in Waiting \/ cinfoMap[fd[c]] = c
        BY <1>0, <1>1, <3>1 DEF PoTables
      <4> QED BY <1>1, <1>2, <1>3, <3>1, <3>3, <4>1, <4>2
    <3> QED BY <3>2, <3>3
  <2> QED BY <1>1, <2>1, <2>2, <2>3 DEF PoTables
<1>7. PoLoop'
  <2>1. clrfds = {} /\ todo = {}
    BY <1>0, <1>1 DEF PoLoop
  <2> QED BY <1>1, <2>1 DEF PoLoop
<1>8. PoAnswers'
  <2>1. ASSUME NEW f \in FDs, NEW c \in Conns, events'[f] = "out", cinfoMap'[f] = c PROVE Complete(c)'
    BY <1>0, <1>1, <1>2, <2>1 DEF PoAnswers
  <2>2. ASSUME NEW c \in Conns
        PROVE  /\ answered'[c] \in {0, 1}
               /\ answered'[c] = 1 /\ Holds(c)' => fd'[c] \in clrfds'
               /\ Holds(c)' => c \notin shut'
    BY <1>0, <1>1, <1>2, <1>3 DEF PoAnswers
  <2> QED BY <2>1, <2>2 DEF PoAnswers
<1> QED BY <1>2, <1>6, <1>7, <1>8 DEF PoInv

(* recv: the entry listens for output, or is to be closed.                  *)
LEMMA PoReceive ==
  ASSUME HostInv, PoInv, Po!RecvLength \/ Po!RecvMessage, UNCHANGED ioMode
  PROVE  HostInv' /\ PoInv'
<1>0. PoTables /\ PoLoop /\ PoAnswers
  BY DEF PoInv
<1>1. wpc \in {"recvLength", "recvMessage"} /\ UNCHANGED <<ioMode, hostVars, freed, cinfoMap, revents, todo>>
  BY DEF Po!RecvLength, Po!RecvMessage, Po!HoldCurrent
<1>2. /\ HostInv' /\ Waiting' = Waiting
      /\ \A d \in Conns : /\ Complete(d)' <=> Complete(d)
                          /\ Broken(d)' <=> Broken(d)
                          /\ Holds(d)' <=> Holds(d)
  BY <1>1, WorkerIdle
<1> PICK g : g = curr
  OBVIOUS
<1>3. g \in FDs /\ events[g] # "none" /\ g \notin todo \union clrfds
  BY <1>0, <1>1 DEF PoLoop
<1>4. PICK c \in Conns : c = cinfoMap[g]
  BY <1>0, <1>3, Numbers DEF PoTables
<1>5. fd[c] = g /\ Holds(c) /\ Po!Socket = c /\ c \notin shut
  <2>1. fd[c] = g /\ Holds(c)
    BY <1>0, <1>1, <1>3, <1>4 DEF PoTables
  <2> QED BY <1>0, <2>1 DEF PoAnswers, Po!Socket, Holds
<1>6. \/ wpc' = "recvMessage" /\ UNCHANGED <<events, curr, clrfds>>
      \/ wpc' = "loop" /\ Complete(c) /\ events' = [events EXCEPT ![g] = "out"] /\ clrfds' = clrfds
      \/ wpc' = "loop" /\ events' = events /\ clrfds' = clrfds \union {g}
  <2>1. CASE Po!RecvLength
    <3>1. Readable(c) /\ clrfds' = clrfds
      BY <1>5, <2>1 DEF Po!RecvLength, Po!Readable, Readable
    <3>2. CASE input[c] = "none"
      <4>1. wpc' = "loop" /\ events' = [events EXCEPT ![g] = "out"]
        BY <1>5, <2>1, <3>2 DEF Po!RecvLength, Po!Goto
      <4> QED BY <1>5, <3>1, <3>2, <4>1, ReadableConn
    <3>3. CASE input[c] # "none"
      BY <1>5, <2>1, <3>1, <3>3 DEF Po!RecvLength, Po!Goto
    <3> QED BY <3>2, <3>3
  <2>2. CASE Po!RecvMessage
    <3>1. input[c] = "full" \/ peer[c] # "open"
      BY <1>5, <2>2 DEF Po!RecvMessage
    <3>2. Complete(c)
      BY <1>5, <3>1, EndedConn
    <3> QED BY <2>2, <3>2 DEF Po!RecvMessage, Po!Goto
  <2> QED BY <1>1, <2>1, <2>2
<1>7. /\ events' \in [FDs -> {"none", "in", "out"}] /\ clrfds \subseteq clrfds' /\ clrfds' \subseteq clrfds \union {g}
      /\ \A f \in FDs : (events'[f] = "none" <=> events[f] = "none") /\ (f # g => events'[f] = events[f])
      /\ events'[g] = "out" => events[g] = "out" \/ Complete(c)
      /\ wpc' \in {"loop", "recvMessage"}
  <2>1. events \in [FDs -> {"none", "in", "out"}]
    BY <1>0 DEF PoTables
  <2> QED BY <1>3, <1>6, <2>1
<1>8. PoTables'
  BY <1>0, <1>1, <1>2, <1>7 DEF PoTables
<1>9. PoLoop'
  BY <1>0, <1>1, <1>3, <1>6, <1>7 DEF PoLoop
<1>10. PoAnswers'
  <2>1. ASSUME NEW f \in FDs, NEW d \in Conns, events'[f] = "out", cinfoMap'[f] = d PROVE Complete(d)'
    BY <1>0, <1>1, <1>2, <1>4, <1>7, <2>1 DEF PoAnswers
  <2>2. ASSUME NEW d \in Conns
        PROVE  /\ answered'[d] \in {0, 1}
               /\ answered'[d] = 1 /\ Holds(d)' => fd'[d] \in clrfds'
               /\ Holds(d)' => d \notin shut'
    BY <1>0, <1>1, <1>2, <1>7 DEF PoAnswers
  <2> QED BY <2>1, <2>2 DEF PoAnswers
<1> QED BY <1>2, <1>8, <1>9, <1>10 DEF PoInv

(* The reply: the entry is to be closed behind the loop.                    *)
LEMMA PoSend ==
  ASSUME HostInv, PoInv, Po!Send, UNCHANGED ioMode
  PROVE  HostInv' /\ PoInv'
<1>0. PoTables /\ PoLoop /\ PoAnswers
  BY DEF PoInv
<1> PICK g : g = curr
  OBVIOUS
<1>1. g \in FDs /\ events[g] = "out" /\ g \notin todo \union clrfds /\ wpc = "send"
  BY <1>0 DEF PoLoop, Po!Send
<1>2. PICK c \in Conns : c = cinfoMap[g]
  BY <1>0, <1>1, Numbers DEF PoTables
<1>3. fd[c] = g /\ Holds(c) /\ Po!Socket = c /\ c \notin freed \union Waiting
  BY <1>0, <1>1, <1>2 DEF PoTables, Po!Socket, Holds
<1>4. /\ wpc' = "loop" /\ clrfds' = clrfds \union {g}
      /\ answered' = [d \in Conns |-> IF d = c THEN answered[d] + 1 ELSE answered[d]]
      /\ UNCHANGED <<ioMode, peer, input, table, shut, mainVars, m_addClientList, m_hasNewClient,
                     freed, cinfoMap, events, revents, todo>>
  BY <1>3 DEF Po!Send, Po!Goto, Po!HoldCurrent
<1>5. Handles(c)
  BY <1>4 DEF Handles, HostInv
<1>6. /\ HostInv' /\ Waiting' = Waiting
      /\ \A d \in Conns : /\ Complete(d)' <=> Complete(d)
                          /\ Broken(d)' <=> Broken(d)
                          /\ Holds(d)' <=> Holds(d)
  BY <1>1, <1>3, <1>4, <1>5, WorkerHost
<1>7. PoTables'
  BY <1>0, <1>1, <1>4, <1>6 DEF PoTables
<1>8. PoLoop'
  BY <1>0, <1>1, <1>4 DEF PoLoop
<1>9. PoAnswers'
  <2>1. answered[c] = 0
    BY <1>0, <1>1, <1>3 DEF PoAnswers
  <2>2. ASSUME NEW d \in Conns
        PROVE  /\ answered'[d] \in {0, 1}
               /\ answered'[d] = 1 /\ Holds(d)' => fd'[d] \in clrfds'
               /\ Holds(d)' => d \notin shut'
    BY <1>0, <1>3, <1>4, <1>6, <2>1 DEF PoAnswers
  <2> QED BY <1>0, <1>4, <1>6, <2>2 DEF PoAnswers
<1> QED BY <1>6, <1>7, <1>8, <1>9 DEF PoInv

(* Behind the loop: shutdown and close.                                     *)
LEMMA PoClose ==
  ASSUME HostInv, PoInv, Po!Close, UNCHANGED ioMode
  PROVE  HostInv' /\ PoInv'
<1>0. PoTables /\ PoLoop /\ PoAnswers
  BY DEF PoInv
<1>1. PICK g \in clrfds :
        /\ wpc = "clear" /\ wpc' = "forget" /\ curr' = g
        /\ shut' = shut \union ({table[g]} \ {NoConn})
        /\ table' = [table EXCEPT ![g] = NoConn]
        /\ UNCHANGED <<ioMode, peer, input, answered, mainVars, m_addClientList, m_hasNewClient,
                       freed, cinfoMap, events, revents, todo, clrfds>>
  BY DEF Po!Close, Po!Goto, Po!HoldCurrent
<1>2. g \in FDs /\ events[g] # "none"
  BY <1>0 DEF PoLoop
<1>3. PICK c \in Conns : c = cinfoMap[g]
  BY <1>0, <1>2, Numbers DEF PoTables
<1>4. fd[c] = g /\ Holds(c) /\ table[g] = c /\ c \notin freed \union Waiting
  BY <1>0, <1>1, <1>2, <1>3 DEF PoTables, Holds
<1>5. Handles(c)
  BY <1>1, <1>4 DEF Handles, HostInv
<1>6. /\ HostInv' /\ Waiting' = Waiting /\ table' # table
      /\ \A d \in Conns : /\ Complete(d)' <=> Complete(d)
                          /\ Broken(d)' <=> Broken(d)
                          /\ Holds(d)' <=> Holds(d) /\ d # c
  <2>1. table' # table
    BY <1>1, <1>2, <1>4, Numbers DEF HostInv
  <2> QED BY <1>2, <1>4, <1>5, <2>1, WorkerHost
<1>7. PoTables'
  <2>1. ASSUME NEW f \in FDs, NEW d \in Conns, cinfoMap[f] = d
        PROVE  /\ fd'[d] = f /\ d \notin freed' \union Waiting'
               /\ IF wpc' = "forget" /\ curr' = f THEN ~ Holds(d)' ELSE Holds(d)'
    BY <1>0, <1>1, <1>3, <1>4, <1>6, <2>1 DEF PoTables
  <2> QED BY <1>0, <1>1, <1>6, <2>1 DEF PoTables
<1>8. PoLoop'
  BY <1>0, <1>1 DEF PoLoop
<1>9. PoAnswers'
  <2>1. ASSUME NEW d \in Conns, Holds(d)' PROVE d \notin shut'
    BY <1>0, <1>1, <1>4, <1>6, <2>1 DEF PoAnswers
  <2> QED BY <1>0, <1>1, <1>6, <2>1 DEF PoAnswers
<1> QED BY <1>6, <1>7, <1>8, <1>9 DEF PoInv

(* Then the clientInfo is deleted and its entry leaves the list.  The       *)
(* number may belong to a new client by now, which is not in the list yet.  *)
LEMMA PoForget ==
  ASSUME HostInv, PoInv, Po!Forget, UNCHANGED ioMode
  PROVE  HostInv' /\ PoInv'
<1>0. PoTables /\ PoLoop /\ PoAnswers
  BY DEF PoInv
<1> PICK g : g = curr
  OBVIOUS
<1>1. g \in FDs /\ events[g] # "none" /\ g \in clrfds /\ wpc = "forget"
  BY <1>0 DEF PoLoop, Po!Forget
<1>2. PICK c \in Conns : c = cinfoMap[g]
  BY <1>0, <1>1, Numbers DEF PoTables
<1>3. fd[c] = g /\ ~ Holds(c) /\ c \notin freed \union Waiting
  BY <1>0, <1>1, <1>2 DEF PoTables
<1>4. /\ wpc' = "clear" /\ clrfds' = clrfds \ {g} /\ freed' = freed \union {c}
      /\ cinfoMap' = [cinfoMap EXCEPT ![g] = NoConn] /\ events' = [events EXCEPT ![g] = "none"]
      /\ UNCHANGED <<ioMode, hostVars, revents, todo>>
  BY <1>2 DEF Po!Forget, Po!Goto
<1>5. Handles(c)
  BY <1>4 DEF Handles, HostInv
<1>6. /\ HostInv' /\ Waiting' = Waiting
      /\ \A d \in Conns : /\ Complete(d)' <=> Complete(d)
                          /\ Broken(d)' <=> Broken(d)
                          /\ Holds(d)' <=> Holds(d)
  BY <1>1, <1>3, <1>4, <1>5, WorkerHost
<1>7. /\ events' \in [FDs -> {"none", "in", "out"}] /\ cinfoMap' \in [FDs -> Conns \union {NoConn}]
      /\ \A f \in FDs : /\ events'[f] = IF f = g THEN "none" ELSE events[f]
                        /\ cinfoMap'[f] = IF f = g THEN NoConn ELSE cinfoMap[f]
  <2>1. events \in [FDs -> {"none", "in", "out"}] /\ cinfoMap \in [FDs -> Conns \union {NoConn}]
    BY <1>0 DEF PoTables
  <2> QED BY <1>1, <1>4, <2>1
<1>8. PoTables'
  <2>1. ASSUME NEW f \in FDs, NEW d \in Conns, cinfoMap'[f] = d
        PROVE  fd'[d] = f /\ Holds(d)' /\ d \notin freed' \union Waiting'
    <3>1. f # g /\ cinfoMap[f] = d
      BY <1>7, <2>1, Numbers
    <3>2. fd[d] = f /\ Holds(d) /\ d \notin freed \union Waiting
      BY <1>0, <1>1, <3>1 DEF PoTables
    <3> QED BY <1>3, <1>4, <1>6, <3>1, <3>2
  <2>2. ASSUME NEW d \in Conns, Holds(d)' PROVE d \in Waiting' \/ cinfoMap'[fd'[d]] = d
    <3>1. Holds(d) /\ fd[d] \in FDs /\ d # c
      BY <1>3, <1>6, <2>2 DEF Holds
    <3>2. d \in Waiting \/ cinfoMap[fd[d]] = d
      BY <1>0, <3>1 DEF PoTables
    <3> QED BY <1>2, <1>4, <1>6, <1>7, <3>1, <3>2
  <2>3. \A f \in FDs : events'[f] = "none" <=> cinfoMap'[f] = NoConn
    BY <1>0, <1>7 DEF PoTables
  <2> QED BY <1>4, <1>7, <2>1, <2>2, <2>3 DEF PoTables
<1>9. PoLoop'
  BY <1>0, <1>1, <1>4, <1>7 DEF PoLoop
<1>10. PoAnswers'
  <2>1. ASSUME NEW f \in FDs, NEW d \in Conns, events'[f] = "out", cinfoMap'[f] = d PROVE Complete(d)'
    BY <1>0, <1>6, <1>7, <2>1 DEF PoAnswers
  <2>2. ASSUME NEW d \in Conns
        PROVE  /\ answered'[d] \in {0, 1}
               /\ answered'[d] = 1 /\ Holds(d)' => fd'[d] \in clrfds'
               /\ Holds(d)' => d \notin shut'
    <3>1. ASSUME Holds(d), answered[d] = 1 PROVE fd[d] \in clrfds /\ fd[d] # g
      <4>1. fd[d] \in clrfds
        BY <1>0, <3>1 DEF PoAnswers
      <4>2. ASSUME fd[d] = g PROVE FALSE
        <5>1. d \in Waiting \/ cinfoMap[g] = d
          BY <1>0, <3>1, <4>2 DEF PoTables
        <5>2. d \notin Waiting
          BY <3>1 DEF HostInv
        <5> QED BY <1>2, <1>3, <3>1, <5>1, <5>2
      <4> QED BY <4>1, <4>2
    <3> QED BY <1>0, <1>4, <1>6, <3>1 DEF PoAnswers
  <2> QED BY <2>1, <2>2 DEF PoAnswers
<1> QED BY <1>6, <1>8, <1>9, <1>10 DEF PoInv

(* Every step of the poll worker keeps the invariant.                       *)
LEMMA PoWorker ==
  ASSUME HostInv, PoInv, Po!WorkerStep, UNCHANGED ioMode
  PROVE  HostInv' /\ PoInv'
  BY PoLoopStep, PoTake, PoReceive, PoSend, PoClose, PoForget DEF Po!WorkerStep

LEMMA PoStart == ASSUME HostInv, Po!Init PROVE PoInv
<1>1. /\ wpc = "test" /\ todo = {} /\ clrfds = {}
      /\ events = [f \in FDs |-> "none"] /\ cinfoMap = [f \in FDs |-> NoConn]
      /\ fd = [c \in Conns |-> 0] /\ answered = [c \in Conns |-> 0] /\ shut = {}
  BY DEF Po!Init, Po!HostInit
<1> QED BY <1>1, Numbers DEF PoInv, PoTables, PoLoop, PoAnswers, Holds

-----------------------------------------------------------------------------
(* SelectWorker.                                                            *)

(* A step of the clients or of main does not disturb the worker.            *)
LEMMA SeHost ==
  ASSUME HostInv, SeInv, HostMoves,
         UNCHANGED <<wpc, cinfoList, readfds, writefds, rfds, wfds, todo, curr, clrfds>>
  PROVE  SeInv'
<1>0. SeTables /\ SeLoop /\ SeSets /\ SeAnswers
  BY DEF SeInv
<1>1. /\ \A c \in Conns : fd[c] # 0 =>
           fd'[c] = fd[c] /\ (Holds(c)' <=> Holds(c)) /\ (c \in Waiting' <=> c \in Waiting)
      /\ \A c \in Conns : fd[c] = 0 /\ Holds(c)' => c \in Waiting'
      /\ \A c \in Conns : (Complete(c) => Complete(c)') /\ (Broken(c) => Broken(c)')
      /\ UNCHANGED <<answered, shut, freed>>
  BY DEF HostMoves
<1>2. \A c \in cinfoList : c \in Conns /\ fd[c] # 0 /\ fd'[c] = fd[c]
  BY <1>0, <1>1, Numbers DEF SeTables
<1>3. SeTables'
  <2>1. \A c \in cinfoList : c \notin freed' \union Waiting' /\ (Holds(c)' <=> Holds(c))
    BY <1>0, <1>1, <1>2 DEF SeTables
  <2>2. ASSUME NEW c \in Conns, Holds(c)' PROVE c \in Waiting' \union cinfoList
    BY <1>0, <1>1, <2>2 DEF SeTables
  <2> QED BY <1>0, <1>2, <2>1, <2>2 DEF SeTables
<1>4. SeLoop'
  <2>1. wpc \in {"recvLength", "recvMessage", "send", "forget"} => fd'[curr] = fd[curr]
    BY <1>0, <1>2 DEF SeLoop
  <2>2. \A c \in todo : fd'[c] = fd[c]
    BY <1>0, <1>2 DEF SeLoop
  <2> QED BY <1>0, <2>1, <2>2 DEF SeLoop
<1>5. SeSets'
  <2>1. \A c \in freed : c \in Conns /\ fd'[c] = fd[c]
    BY <1>1 DEF HostInv
  <2>2. \A f \in readfds \union writefds :
          \/ \E c \in cinfoList : fd'[c] = f
          \/ f \in readfds /\ \E c \in freed : fd'[c] = f /\ Broken(c)'
    BY <1>0, <1>1, <1>2, <2>1 DEF SeSets
  <2> QED BY <1>0, <1>1, <1>2, <2>2 DEF SeSets
<1>6. SeAnswers'
  <2>1. ASSUME NEW c \in Conns
        PROVE  /\ answered'[c] = 1 /\ Holds(c)' => fd'[c] \in clrfds
               /\ Holds(c)' => c \notin shut'
    <3>1. CASE fd[c] # 0
      BY <1>0, <1>1, <3>1 DEF SeAnswers
    <3>2. CASE fd[c] = 0
      BY <1>1, <3>2 DEF HostInv
    <3> QED BY <3>1, <3>2
  <2> QED BY <1>0, <1>1, <1>2, <2>1 DEF SeAnswers
<1> QED BY <1>3, <1>4, <1>5, <1>6 DEF SeInv

(* Steps that touch no connection and neither the list nor the sets.        *)
LEMMA SeLoopStep ==
  ASSUME HostInv, SeInv, UNCHANGED ioMode,
         Se!TestExit \/ Se!SelectFails \/ Se!Select \/ Se!Examine \/ Se!LoopDone \/ Se!ClearDone
  PROVE  HostInv' /\ SeInv'
<1>0. SeTables /\ SeLoop /\ SeSets /\ SeAnswers
  BY DEF SeInv
<1> USE DEF Se!listVars, Se!fdSets, Se!results
<1>1. UNCHANGED <<ioMode, hostVars, freed, cinfoList, readfds, writefds, clrfds>>
      /\ wpc # "forget" /\ wpc' # "forget"
  BY DEF Se!TestExit, Se!SelectFails, Se!Select, Se!Examine, Se!LoopDone, Se!ClearDone, Se!Goto
<1>2. /\ HostInv' /\ Waiting' = Waiting
      /\ \A d \in Conns : /\ Complete(d)' <=> Complete(d)
                          /\ Broken(d)' <=> Broken(d)
                          /\ Holds(d)' <=> Holds(d)
  BY <1>1, WorkerIdle
<1>3. wpc' \in {"exited", "take", "loop", "recvLength", "send", "clear", "test"}
  BY DEF Se!TestExit, Se!SelectFails, Se!Select, Se!Examine, Se!LoopDone, Se!ClearDone, Se!Goto
<1>4. SeTables'
  BY <1>0, <1>1, <1>2, <1>3 DEF SeTables
<1>5. SeSets'
  <2>1. \A c \in cinfoList : c \in Conns
    BY <1>0 DEF SeTables
  <2>2. \A c \in freed : c \in Conns
    BY DEF HostInv
  <2> QED BY <1>0, <1>1, <1>2, <2>1, <2>2 DEF SeSets
<1>6. SeAnswers'
  <2>1. \A c \in cinfoList : c \in Conns
    BY <1>0 DEF SeTables
  <2> QED BY <1>0, <1>1, <1>2, <2>1 DEF SeAnswers
<1>7. SeLoop'
  <2>1. CASE Se!TestExit \/ Se!SelectFails \/ Se!LoopDone \/ Se!ClearDone
    BY <1>0, <1>1, <2>1 DEF Se!TestExit, Se!SelectFails, Se!LoopDone, Se!ClearDone, Se!Goto, SeLoop
  <2>2. CASE Se!Select
    <3>1. /\ wpc = "select" /\ wpc' = "loop" /\ todo' = cinfoList
          /\ rfds' \subseteq readfds /\ wfds' \subseteq writefds
      BY <2>2 DEF Se!Select, Se!Goto, Se!ReadyToRead, Se!ReadyToWrite, Se!Watched
    <3>2. clrfds = {}
      BY <1>0, <3>1 DEF SeLoop
    <3> QED BY <1>1, <3>1, <3>2 DEF SeLoop
  <2>3. CASE Se!Examine
    <3>1. PICK c \in todo :
            /\ todo' = todo \ {c}
            /\ \/ fd[c] \in rfds /\ wpc' = "recvLength" /\ curr' = c
               \/ fd[c] \in wfds \ rfds /\ wpc' = "send" /\ curr' = c
               \/ fd[c] \notin rfds \union wfds /\ wpc' = "loop" /\ UNCHANGED curr
      BY <2>3 DEF Se!Examine, Se!Goto
    <3>2. wpc = "loop" /\ UNCHANGED <<rfds, wfds>>
      BY <2>3 DEF Se!Examine
    <3>3. /\ c \in cinfoList /\ fd[c] \notin clrfds
          /\ (fd[c] \in rfds => fd[c] \in readfds) /\ (fd[c] \in wfds => fd[c] \in writefds)
      BY <1>0 DEF SeLoop
    <3> QED BY <1>0, <1>1, <3>1, <3>2, <3>3 DEF SeLoop
  <2> QED BY <2>1, <2>2, <2>3
<1> QED BY <1>2, <1>4, <1>5, <1>6, <1>7 DEF SeInv

(* The new clients are listened to.  A number among them may still be in    *)
(* readfds, left there by an error, but not in writefds.                    *)
LEMMA SeTake ==
  ASSUME HostInv, SeInv, Se!TakeNewClients, UNCHANGED ioMode
  PROVE  HostInv' /\ SeInv'
<1>0. SeTables /\ SeLoop /\ SeSets /\ SeAnswers
  BY DEF SeInv
<1> PICK list : list = NewClients
  OBVIOUS
<1>1. /\ wpc = "take" /\ wpc' \in {"test", "select"} /\ TakeList
      /\ UNCHANGED <<ioMode, freed, writefds, rfds, wfds, todo, curr, clrfds>>
      /\ cinfoList' = cinfoList \union list
      /\ readfds' = readfds \union {fd[c] : c \in list}
  BY DEF Se!TakeNewClients, Se!Goto, Se!TakeList, TakeList, Se!NewClients, NewClients
<1>2. /\ HostInv' /\ list = m_addClientList /\ Waiting' = Waiting \ list /\ list \subseteq Waiting
      /\ \A d \in Conns : /\ Complete(d)' <=> Complete(d)
                          /\ Broken(d)' <=> Broken(d)
                          /\ Holds(d)' <=> Holds(d)
  BY <1>1, TakeHost
<1>3. UNCHANGED <<fd, table, answered, shut>>
  BY <1>1 DEF TakeList
<1>4. \A c \in list : c \in Conns /\ Holds(c) /\ fd[c] \in FDs /\ c \notin freed \union shut /\ answered[c] = 0
  BY <1>2, WaitingConns DEF HostInv
<1>5. clrfds = {} /\ todo = {} /\ \A c \in cinfoList : c \in Conns /\ Holds(c) /\ fd[c] \in FDs
  BY <1>0, <1>1 DEF SeLoop, SeTables
<1>6. \A c, d \in cinfoList \union list : fd[c] = fd[d] => c = d
  BY <1>4, <1>5 DEF Holds
<1>7. \A c \in list : fd[c] \notin writefds
  <2> SUFFICES ASSUME NEW c \in list, fd[c] \in writefds PROVE FALSE
    OBVIOUS
  <2>1. PICK d \in cinfoList : fd[d] = fd[c]
    BY <1>0 DEF SeSets
  <2>2. d = c
    BY <1>6, <2>1
  <2> QED BY <1>0, <1>2, <2>1, <2>2 DEF SeTables
<1>8. SeTables'
  <2>1. \A c \in cinfoList' : /\ fd'[c] \in FDs /\ c \notin freed' \union Waiting' /\ c \in Conns
                              /\ Holds(c)'
    BY <1>0, <1>1, <1>2, <1>3, <1>4, <1>5 DEF SeTables
  <2>2. \A c \in Conns : Holds(c)' => c \in Waiting' \union cinfoList'
    BY <1>0, <1>1, <1>2 DEF SeTables
  <2> QED BY <1>1, <1>3, <1>6, <2>1, <2>2 DEF SeTables
<1>9. SeLoop'
  BY <1>1, <1>5 DEF SeLoop
<1>10. SeSets'
  <2>1. \A f \in readfds' \union writefds' :
          \/ \E c \in cinfoList' : fd'[c] = f
          \/ f \in readfds' /\ \E c \in freed' : fd'[c] = f /\ Broken(c)'
    <3> SUFFICES ASSUME NEW f \in readfds' \union writefds'
                 PROVE  \/ \E c \in cinfoList' : fd'[c] = f
                        \/ f \in readfds' /\ \E c \in freed' : fd'[c] = f /\ Broken(c)'
      OBVIOUS
    <3>1. CASE \E c \in list : fd[c] = f
      BY <1>1, <1>3, <3>1
    <3>2. CASE ~ \E c \in list : fd[c] = f
      <4>1. f \in readfds \union writefds
        BY <1>1, <3>2
      <4>2. freed \subseteq Conns
        BY DEF HostInv
      <4> QED BY <1>0, <1>1, <1>2, <1>3, <4>1, <4>2 DEF SeSets
    <3> QED BY <3>1, <3>2
  <2>2. \A c \in cinfoList' : fd'[c] \in readfds' \union writefds' \union clrfds'
    BY <1>0, <1>1, <1>3 DEF SeSets
  <2>3. readfds' \intersect writefds' = {}
    BY <1>0, <1>1, <1>7 DEF SeSets
  <2> QED BY <1>1, <1>5, <2>1, <2>2, <2>3 DEF SeSets
<1>11. SeAnswers'
  <2>1. \A c \in cinfoList' : fd'[c] \in writefds' => Complete(c)'
    BY <1>0, <1>1, <1>2, <1>3, <1>5, <1>7 DEF SeAnswers
  <2>2. \A c \in Conns : /\ answered'[c] \in {0, 1}
                         /\ answered'[c] = 1 /\ Holds(c)' => fd'[c] \in clrfds'
                         /\ Holds(c)' => c \notin shut'
    BY <1>0, <1>1, <1>2, <1>3 DEF SeAnswers
  <2> QED BY <2>1, <2>2 DEF SeAnswers
<1> QED BY <1>2, <1>8, <1>9, <1>10, <1>11 DEF SeInv

(* The client in hand, and its descriptor.                                  *)
LEMMA SeSocket ==
  ASSUME HostInv, SeInv, wpc \in {"recvLength", "recvMessage", "send"}
  PROVE  /\ curr \in cinfoList /\ curr \in Conns /\ curr \notin todo /\ fd[curr] \notin clrfds
         /\ Se!FD = fd[curr] /\ Se!Socket = curr /\ fd[curr] \in FDs /\ Holds(curr)
         /\ curr \notin freed \union Waiting \union shut /\ answered[curr] = 0
         /\ \A d \in cinfoList : fd[d] = fd[curr] => d = curr
<1>1. curr \in cinfoList /\ curr \notin todo /\ fd[curr] \notin clrfds
  BY DEF SeInv, SeLoop
<1>2. curr \in Conns /\ fd[curr] \in FDs /\ Holds(curr) /\ curr \notin freed \union Waiting
      /\ \A d \in cinfoList : fd[d] = fd[curr] => d = curr
  BY <1>1 DEF SeInv, SeTables
<1>3. curr \notin shut /\ answered[curr] = 0
  BY <1>1, <1>2 DEF SeInv, SeAnswers
<1> QED BY <1>1, <1>2, <1>3 DEF Se!FD, Se!Socket, Holds

(* recv: the client moves from one set to the other, or is to be closed     *)
(* with its bit left in readfds.                                            *)
LEMMA SeReceive ==
  ASSUME HostInv, SeInv, Se!RecvLength \/ Se!RecvMessage, UNCHANGED ioMode
  PROVE  HostInv' /\ SeInv'
<1>0. SeTables /\ SeLoop /\ SeSets /\ SeAnswers
  BY DEF SeInv
<1> USE DEF Se!listVars, Se!fdSets, Se!results
<1>1. wpc \in {"recvLength", "recvMessage"}
      /\ UNCHANGED <<ioMode, hostVars, freed, cinfoList, rfds, wfds, todo>>
  BY DEF Se!RecvLength, Se!RecvMessage, Se!ListenForOutput
<1>2. /\ HostInv' /\ Waiting' = Waiting
      /\ \A d \in Conns : /\ Complete(d)' <=> Complete(d)
                          /\ Broken(d)' <=> Broken(d)
                          /\ Holds(d)' <=> Holds(d)
  BY <1>1, WorkerIdle
<1> PICK c, g : c = curr /\ g = fd[curr]
  OBVIOUS
<1>3. /\ c \in cinfoList /\ c \in Conns /\ c \notin todo /\ g \notin clrfds /\ g = fd[c]
      /\ Se!FD = g /\ Se!Socket = c /\ g \in FDs /\ Holds(c) /\ c \notin shut
      /\ \A d \in cinfoList : fd[d] = g => d = c
  BY <1>1, SeSocket
<1>4. g \in readfds /\ g \notin writefds
  BY <1>0, <1>1 DEF SeLoop, SeSets
<1>5. \/ wpc' = "recvMessage" /\ UNCHANGED <<curr, readfds, writefds, clrfds>>
      \/ /\ wpc' = "loop" /\ Complete(c)
         /\ readfds' = readfds \ {g} /\ writefds' = writefds \union {g} /\ clrfds' = clrfds
      \/ wpc' = "loop" /\ Broken(c) /\ UNCHANGED <<readfds, writefds>> /\ clrfds' = clrfds \union {g}
  <2>1. CASE Se!RecvLength
    <3>1. Readable(c) /\ clrfds' = clrfds
      BY <1>3, <2>1 DEF Se!RecvLength, Se!Readable, Readable
    <3>2. CASE input[c] = "none"
      <4>1. wpc' = "loop" /\ readfds' = readfds \ {g} /\ writefds' = writefds \union {g}
        BY <1>3, <2>1, <3>2 DEF Se!RecvLength, Se!Goto, Se!ListenForOutput
      <4> QED BY <1>3, <3>1, <3>2, <4>1, ReadableConn
    <3>3. CASE input[c] # "none"
      BY <1>3, <2>1, <3>1, <3>3 DEF Se!RecvLength, Se!Goto
    <3> QED BY <3>2, <3>3
  <2>2. CASE Se!RecvMessage
    <3>1. input[c] = "full" \/ peer[c] # "open"
      BY <1>3, <2>2 DEF Se!RecvMessage
    <3>2. Complete(c)
      BY <1>3, <3>1, EndedConn
    <3> QED BY <1>3, <2>2, <3>2 DEF Se!RecvMessage, Se!Goto, Se!ListenForOutput, Se!Broken, Broken
  <2> QED BY <1>1, <2>1, <2>2
<1>6. SeTables'
  <2>1. wpc' \in {"recvMessage", "loop"}
    BY <1>5
  <2> QED BY <1>0, <1>1, <1>2, <2>1 DEF SeTables
<1>7. \A d \in todo : d \in cinfoList /\ fd[d] # g
  BY <1>0, <1>3 DEF SeLoop
<1>8. SeLoop'
  BY <1>0, <1>1, <1>3, <1>4, <1>5, <1>7 DEF SeLoop
<1>9. SeSets'
  <2>0. freed \subseteq Conns /\ cinfoList \subseteq Conns
    BY <1>0 DEF HostInv, SeTables
  <2>1. \A f \in readfds' \union writefds' :
          \/ \E d \in cinfoList : fd'[d] = f
          \/ f \in readfds' /\ \E d \in freed : fd'[d] = f /\ Broken(d)'
    <3> SUFFICES ASSUME NEW f \in readfds' \union writefds'
                 PROVE  \/ \E d \in cinfoList : fd'[d] = f
                        \/ f \in readfds' /\ \E d \in freed : fd'[d] = f /\ Broken(d)'
      OBVIOUS
    <3>1. CASE f = g
      BY <1>1, <1>3, <3>1
    <3>2. CASE f # g
      <4>1. f \in readfds \union writefds /\ (f \in readfds => f \in readfds')
        BY <1>5, <3>2
      <4> QED BY <1>0, <1>1, <1>2, <2>0, <4>1 DEF SeSets
    <3> QED BY <3>1, <3>2
  <2>2. ASSUME NEW d \in cinfoList
        PROVE  /\ fd'[d] \in readfds' \union writefds' \union clrfds'
               /\ fd'[d] \in clrfds' =>
                    /\ fd'[d] \notin writefds' /\ (fd'[d] \in readfds' => Broken(d)')
                    /\ answered'[d] = 1 \/ Broken(d)'
    <3>1. CASE d = c
      BY <1>1, <1>2, <1>3, <1>4, <1>5, <3>1
    <3>2. CASE d # c
      <4>1. fd[d] # g
        BY <1>3, <3>2
      <4>2. /\ fd[d] \in readfds' <=> fd[d] \in readfds
            /\ fd[d] \in writefds' <=> fd[d] \in writefds
            /\ fd[d] \in clrfds' <=> fd[d] \in clrfds
        BY <1>5, <4>1
      <4> QED BY <1>0, <1>1, <1>2, <2>0, <4>2 DEF SeSets
    <3> QED BY <3>1, <3>2
  <2>3. readfds' \intersect writefds' = {}
    BY <1>0, <1>5 DEF SeSets
  <2> QED BY <1>1, <2>1, <2>2, <2>3 DEF SeSets
<1>10. SeAnswers'
  <2>1. \A d \in cinfoList : d \in Conns /\ (fd[d] \in writefds' => Complete(d))
    BY <1>0, <1>3, <1>5 DEF SeAnswers, SeTables
  <2>2. clrfds \subseteq clrfds'
    BY <1>5
  <2> QED BY <1>0, <1>1, <1>2, <2>1, <2>2 DEF SeAnswers
<1> QED BY <1>2, <1>6, <1>8, <1>9, <1>10 DEF SeInv

(* The reply: the client leaves writefds and is to be closed.               *)
LEMMA SeSend ==
  ASSUME HostInv, SeInv, Se!Send, UNCHANGED ioMode
  PROVE  HostInv' /\ SeInv'
<1>0. SeTables /\ SeLoop /\ SeSets /\ SeAnswers
  BY DEF SeInv
<1> USE DEF Se!listVars, Se!fdSets, Se!results
<1>1. wpc = "send" /\ wpc' = "loop"
      /\ UNCHANGED <<ioMode, peer, input, table, shut, mainVars, m_addClientList, m_hasNewClient,
                     freed, cinfoList, readfds, rfds, wfds, todo>>
  BY DEF Se!Send, Se!Goto
<1> PICK c, g : c = curr /\ g = fd[curr]
  OBVIOUS
<1>2. /\ c \in cinfoList /\ c \in Conns /\ c \notin todo /\ g \notin clrfds /\ g = fd[c]
      /\ Se!FD = g /\ Se!Socket = c /\ g \in FDs /\ Holds(c) /\ c \notin Waiting /\ answered[c] = 0
      /\ \A d \in cinfoList : fd[d] = g => d = c
  BY <1>1, SeSocket
<1>3. g \in writefds /\ g \notin readfds
  BY <1>0, <1>1 DEF SeLoop, SeSets
<1>4. /\ answered' = [d \in Conns |-> IF d = c THEN answered[d] + 1 ELSE answered[d]]
      /\ writefds' = writefds \ {g} /\ clrfds' = clrfds \union {g}
  BY <1>2 DEF Se!Send, Se!Count
<1>5. Handles(c)
  BY <1>1, <1>4 DEF Handles, HostInv
<1>6. /\ HostInv' /\ Waiting' = Waiting
      /\ \A d \in Conns : /\ Complete(d)' <=> Complete(d)
                          /\ Broken(d)' <=> Broken(d)
                          /\ Holds(d)' <=> Holds(d)
  BY <1>1, <1>2, <1>5, WorkerHost
<1>7. SeTables'
  BY <1>0, <1>1, <1>6 DEF SeTables
<1>8. \A d \in todo : d \in cinfoList /\ fd[d] # g
  BY <1>0, <1>2 DEF SeLoop
<1>9. SeLoop'
  BY <1>0, <1>1, <1>4, <1>8 DEF SeLoop
<1>10. SeSets'
  <2>0. freed \subseteq Conns /\ cinfoList \subseteq Conns
    BY <1>0 DEF HostInv, SeTables
  <2>1. \A f \in readfds' \union writefds' :
          \/ \E d \in cinfoList : fd'[d] = f
          \/ f \in readfds' /\ \E d \in freed : fd'[d] = f /\ Broken(d)'
    BY <1>0, <1>1, <1>4, <1>6, <2>0 DEF SeSets
  <2>2. ASSUME NEW d \in cinfoList
        PROVE  /\ fd'[d] \in readfds' \union writefds' \union clrfds'
               /\ fd'[d] \in clrfds' =>
                    /\ fd'[d] \notin writefds' /\ (fd'[d] \in readfds' => Broken(d)')
                    /\ answered'[d] = 1 \/ Broken(d)'
    <3>1. CASE d = c
      BY <1>1, <1>2, <1>3, <1>4, <3>1
    <3>2. CASE d # c
      BY <1>0, <1>1, <1>2, <1>4, <1>6, <2>0, <3>2 DEF SeSets
    <3> QED BY <3>1, <3>2
  <2>3. readfds' \intersect writefds' = {}
    BY <1>0, <1>1, <1>4 DEF SeSets
  <2> QED BY <1>1, <2>1, <2>2, <2>3 DEF SeSets
<1>11. SeAnswers'
  <2>1. \A d \in cinfoList : d \in Conns /\ (fd[d] \in writefds' => Complete(d))
    BY <1>0, <1>4 DEF SeAnswers, SeTables
  <2>2. ASSUME NEW d \in Conns
        PROVE  /\ answered'[d] \in {0, 1}
               /\ answered'[d] = 1 /\ Holds(d)' => fd'[d] \in clrfds'
               /\ Holds(d)' => d \notin shut'
    BY <1>0, <1>1, <1>2, <1>4, <1>6 DEF SeAnswers
  <2> QED BY <1>1, <1>6, <2>1, <2>2 DEF SeAnswers
<1> QED BY <1>6, <1>7, <1>9, <1>10, <1>11 DEF SeInv

(* Behind the loop: shutdown and close.                                     *)
LEMMA SeClose ==
  ASSUME HostInv, SeInv, Se!Close, UNCHANGED ioMode
  PROVE  HostInv' /\ SeInv'
<1>0. SeTables /\ SeLoop /\ SeSets /\ SeAnswers
  BY DEF SeInv
<1> USE DEF Se!listVars, Se!fdSets, Se!results
<1>1. PICK c \in cinfoList :
        /\ wpc = "clear" /\ wpc' = "forget" /\ fd[c] \in clrfds /\ curr' = c
        /\ shut' = shut \union {table[fd[c]]}
        /\ table' = [table EXCEPT ![fd[c]] = NoConn]
        /\ UNCHANGED <<ioMode, peer, input, answered, mainVars, m_addClientList, m_hasNewClient,
                       freed, cinfoList, readfds, writefds, rfds, wfds, todo, clrfds>>
  BY DEF Se!Close, Se!Goto
<1>2. /\ c \in Conns /\ fd[c] \in FDs /\ Holds(c) /\ c \notin freed \union Waiting /\ table[fd[c]] = c
  BY <1>0, <1>1 DEF SeTables, Holds
<1>3. Handles(c)
  BY <1>1, <1>2 DEF Handles, HostInv
<1>4. /\ HostInv' /\ Waiting' = Waiting
      /\ \A d \in Conns : /\ Complete(d)' <=> Complete(d)
                          /\ Broken(d)' <=> Broken(d)
                          /\ Holds(d)' <=> Holds(d) /\ d # c
  <2>1. table' # table
    BY <1>1, <1>2, Numbers DEF HostInv
  <2> QED BY <1>2, <1>3, <2>1, WorkerHost
<1>5. SeTables'
  <2>1. ASSUME NEW d \in cinfoList
        PROVE  /\ fd'[d] \in FDs /\ d \notin freed' \union Waiting'
               /\ IF wpc' = "forget" /\ curr' = d THEN ~ Holds(d)' ELSE Holds(d)'
    BY <1>0, <1>1, <1>4 DEF SeTables
  <2> QED BY <1>0, <1>1, <1>4, <2>1 DEF SeTables
<1>6. SeLoop'
  BY <1>0, <1>1 DEF SeLoop
<1>7. SeSets'
  <2>1. freed \subseteq Conns /\ cinfoList \subseteq Conns
    BY <1>0 DEF HostInv, SeTables
  <2> QED BY <1>0, <1>1, <1>4, <2>1 DEF SeSets
<1>8. SeAnswers'
  <2>1. ASSUME NEW d \in Conns, Holds(d)' PROVE d \notin shut'
    BY <1>0, <1>1, <1>2, <1>4, <2>1 DEF SeAnswers
  <2>2. cinfoList \subseteq Conns
    BY <1>0 DEF SeTables
  <2> QED BY <1>0, <1>1, <1>4, <2>1, <2>2 DEF SeAnswers
<1> QED BY <1>4, <1>5, <1>6, <1>7, <1>8 DEF SeInv

(* Then the clientInfo is deleted and leaves the list.  Its number may      *)
(* belong to a new client by now, and stays in readfds after an error.      *)
LEMMA SeForget ==
  ASSUME HostInv, SeInv, Se!Forget, UNCHANGED ioMode
  PROVE  HostInv' /\ SeInv'
<1>0. SeTables /\ SeLoop /\ SeSets /\ SeAnswers
  BY DEF SeInv
<1> USE DEF Se!listVars, Se!fdSets, Se!results
<1> PICK c, g : c = curr /\ g = fd[curr]
  OBVIOUS
<1>1. /\ c \in cinfoList /\ c \in Conns /\ g = fd[c] /\ g \in clrfds /\ g \in FDs /\ wpc = "forget"
      /\ ~ Holds(c) /\ c \notin freed \union Waiting
      /\ \A d \in cinfoList : fd[d] = g => d = c
  BY <1>0 DEF Se!Forget, SeLoop, SeTables
<1>2. /\ wpc' = "clear" /\ freed' = freed \union {c} /\ cinfoList' = cinfoList \ {c}
      /\ clrfds' = clrfds \ {g}
      /\ UNCHANGED <<ioMode, hostVars, readfds, writefds, rfds, wfds, todo>>
  BY DEF Se!Forget, Se!Goto, Se!FD
<1>3. Handles(c)
  BY <1>2 DEF Handles, HostInv
<1>4. /\ HostInv' /\ Waiting' = Waiting
      /\ \A d \in Conns : /\ Complete(d)' <=> Complete(d)
                          /\ Broken(d)' <=> Broken(d)
                          /\ Holds(d)' <=> Holds(d)
  BY <1>1, <1>2, <1>3, WorkerHost
<1>5. cinfoList \subseteq Conns /\ freed \subseteq Conns
  BY <1>0 DEF HostInv, SeTables
<1>6. SeTables'
  <2>1. ASSUME NEW d \in cinfoList' PROVE fd'[d] \in FDs /\ d \notin freed' \union Waiting' /\ Holds(d)'
    BY <1>0, <1>1, <1>2, <1>4, <1>5, <2>1 DEF SeTables
  <2>2. ASSUME NEW d \in Conns, Holds(d)' PROVE d \in Waiting' \union cinfoList'
    BY <1>0, <1>1, <1>2, <1>4, <2>2 DEF SeTables
  <2> QED BY <1>0, <1>2, <1>5, <2>1, <2>2 DEF SeTables
<1>7. SeLoop'
  BY <1>0, <1>1, <1>2 DEF SeLoop
<1>8. SeSets'
  <2>1. ASSUME NEW f \in readfds \union writefds
        PROVE  \/ \E d \in cinfoList' : fd'[d] = f
               \/ f \in readfds /\ \E d \in freed' : fd'[d] = f /\ Broken(d)'
    <3>1. CASE f = g
      <4>1. g \notin writefds /\ (g \in readfds => Broken(c))
        BY <1>0, <1>1 DEF SeSets
      <4> QED BY <1>1, <1>2, <1>4, <3>1, <4>1
    <3>2. CASE f # g
      BY <1>0, <1>1, <1>2, <1>4, <1>5, <3>2 DEF SeSets
    <3> QED BY <3>1, <3>2
  <2>2. \A d \in cinfoList' : d \in cinfoList /\ d \in Conns /\ fd[d] # g
    BY <1>1, <1>2, <1>5
  <2> QED BY <1>0, <1>2, <1>4, <2>1, <2>2 DEF SeSets
<1>9. SeAnswers'
  <2>1. ASSUME NEW d \in Conns, Holds(d), answered[d] = 1 PROVE fd[d] \in clrfds'
    <3>1. fd[d] \in clrfds /\ d \notin Waiting
      BY <1>0, <2>1 DEF SeAnswers, HostInv
    <3>2. d \in cinfoList /\ d # c
      BY <1>0, <1>1, <2>1, <3>1 DEF SeTables
    <3> QED BY <1>1, <1>2, <3>1, <3>2
  <2> QED BY <1>0, <1>2, <1>4, <1>5, <2>1 DEF SeAnswers
<1> QED BY <1>4, <1>6, <1>7, <1>8, <1>9 DEF SeInv

(* Every step of the select worker keeps the invariant.                     *)
LEMMA SeWorker ==
  ASSUME HostInv, SeInv, Se!WorkerStep, UNCHANGED ioMode
  PROVE  HostInv' /\ SeInv'
  BY SeLoopStep, SeTake, SeReceive, SeSend, SeClose, SeForget DEF Se!WorkerStep

LEMMA SeStart == ASSUME HostInv, Se!Init PROVE SeInv
<1>1. /\ wpc = "test" /\ todo = {} /\ clrfds = {} /\ cinfoList = {}
      /\ readfds = {} /\ writefds = {}
      /\ fd = [c \in Conns |-> 0] /\ answered = [c \in Conns |-> 0] /\ shut = {}
  BY DEF Se!Init, Se!HostInit
<1> QED BY <1>1, Numbers DEF SeInv, SeTables, SeLoop, SeSets, SeAnswers, Holds

-----------------------------------------------------------------------------
(* The program.                                                             *)
USE DEF runVars, epollVars, loopVars, pollVars, selectVars, workerVars
USE DEF Ep!workerVars, Po!workerVars, Se!workerVars, Se!listVars, Se!fdSets, Se!results

LEMMA IoStart == ASSUME Init PROVE IoInv
<1>1. Ep!Init /\ Po!Init /\ Se!Init /\ ioMode \in {"select", "poll", "epoll"}
  BY DEF Init
<1>2. HostInv
  <2>1. /\ peer = [c \in Conns |-> "absent"] /\ input = [c \in Conns |-> "none"]
        /\ backlog = <<>> /\ table = [f \in FDs |-> NoConn] /\ shut = {}
        /\ answered = [c \in Conns |-> 0] /\ mpc = "accept" /\ info = NoConn
        /\ fd = [c \in Conns |-> 0] /\ m_addClientList = {} /\ m_hasNewClient = FALSE /\ freed = {}
    BY <1>1 DEF Ep!Init, Ep!HostInit
  <2>2. backlog \in Seq(Conns) /\ Distinct(backlog) /\ Elements(backlog) = {}
    BY <2>1, EmptyQueueMembers
  <2> QED BY <1>1, <2>1, <2>2, Numbers DEF HostInv, Waiting
<1> QED BY <1>1, <1>2, EpStart, PoStart, SeStart DEF IoInv

(* A step of the clients, of main or of the signal handler.                 *)
HostStep ==
  \/ \E c \in Conns : ClientStep(c)
  \/ Main \/ Interrupt \/ Join

(* What such a step does beside the worker's tables, and what it leaves.    *)
LEMMA HostStepMoves ==
  ASSUME HostInv, HostStep
  PROVE  /\ HostInv' /\ HostMoves
         /\ \/ \E c \in Conns : Connect(c) \/ Deliver(c) \/ Depart(c)
            \/ Accept
            \/ UNCHANGED <<peer, input, table, fd, answered>>
         /\ UNCHANGED <<ioMode, wpc, freed, arm, owner, batch, job, loopVars, pollVars, selectVars>>
         /\ ioMode = "epoll" => edges' \subseteq edges \union {f \in FDs : arm[f] # "none"}
<1>1. CASE \E c \in Conns : ClientStep(c)
  <2>1. PICK c \in Conns : ClientStep(c)
    BY <1>1
  <2>2. /\ Connect(c) \/ Deliver(c) \/ Depart(c)
        /\ UNCHANGED <<ioMode, wpc, freed, arm, owner, batch, job, loopVars, pollVars, selectVars>>
        /\ edges' \subseteq edges \union {f \in FDs : arm[f] # "none"}
    <3>1. CASE InSelect(Se!ClientStep(c))
      BY <3>1 DEF InSelect, Se!ClientStep, Se!Connect, Se!Deliver, Se!Depart, Se!Closed, Se!Accepted, Se!Open,
                  Connect, Deliver, Depart, Closed, Accepted, Open
    <3>2. CASE InPoll(Po!ClientStep(c))
      BY <3>2 DEF InPoll, Po!ClientStep, Po!Connect, Po!Deliver, Po!Depart, Po!Closed, Po!Accepted, Po!Open,
                  Connect, Deliver, Depart, Closed, Accepted, Open
    <3>3. CASE InEpoll(Ep!ClientStep(c))
      BY <3>3 DEF InEpoll, Ep!ClientStep, Ep!Connect, Ep!Deliver, Ep!Depart, Ep!Closed, Ep!Accepted, Ep!Open,
                  Ep!Notify, Ep!Registered, Connect, Deliver, Depart, Closed, Accepted, Open
    <3> QED BY <2>1, <3>1, <3>2, <3>3 DEF ClientStep
  <2>3. HostInv' /\ HostMoves
    BY <2>2, ClientHost
  <2> QED BY <2>2, <2>3
<1>2. CASE Main /\ Accept
  BY <1>2, AcceptHost DEF Main
<1>3. CASE (Main /\ ~ Accept) \/ Interrupt \/ Join
  <2>1. /\ LockList \/ AddClient \/ InterruptMain \/ InterruptWorker \/ JoinWorker(wpc = "exited")
        /\ UNCHANGED <<ioMode, workerVars>>
    BY <1>3 DEF Main, MainStep, Interrupt, Join
  <2>2. HostInv' /\ HostMoves /\ UNCHANGED <<peer, input, table, fd, answered>>
    BY <2>1, MainHost
  <2> QED BY <2>1, <2>2
<1> QED BY <1>1, <1>2, <1>3 DEF HostStep

LEMMA IoStep == ASSUME IoInv, [Next]_vars PROVE IoInv'
<1>0. HostInv /\ ioMode \in {"select", "poll", "epoll"}
  BY DEF IoInv, HostInv
<1>1. CASE HostStep
  <2>1. /\ HostInv' /\ HostMoves
        /\ UNCHANGED <<ioMode, wpc, freed, arm, owner, batch, job, loopVars, pollVars, selectVars>>
        /\ ioMode = "epoll" => edges' \subseteq edges \union {f \in FDs : arm[f] # "none"}
    BY <1>0, <1>1, HostStepMoves
  <2> QED BY <2>1, EpHost, PoHost, SeHost DEF IoInv
<1>2. CASE WorkerStep
  <2>1. CASE InEpoll(Ep!WorkerStep)
    BY <2>1, EpWorker DEF IoInv, InEpoll
  <2>2. CASE InPoll(Po!WorkerStep)
    BY <2>2, PoWorker DEF IoInv, InPoll
  <2>3. CASE InSelect(Se!WorkerStep)
    BY <2>3, SeWorker DEF IoInv, InSelect
  <2> QED BY <1>2, <2>1, <2>2, <2>3 DEF WorkerStep
<1>3. CASE UNCHANGED vars
  <2>1. UNCHANGED <<ioMode, hostVars, wpc, freed, epollVars, loopVars, pollVars, selectVars>>
    BY <1>3 DEF vars
  <2>2. HostInv' /\ HostMoves
    <3>1. /\ HostInv' /\ Waiting' = Waiting
          /\ \A d \in Conns : /\ Complete(d)' <=> Complete(d)
                              /\ Broken(d)' <=> Broken(d)
                              /\ Holds(d)' <=> Holds(d)
      BY <1>0, <2>1, WorkerIdle
    <3>2. \A d \in Conns : Holds(d) => fd[d] # 0
      BY Numbers DEF Holds
    <3> QED BY <2>1, <3>1, <3>2 DEF HostMoves
  <2> QED BY <2>1, <2>2, EpHost, PoHost, SeHost DEF IoInv
<1> QED BY <1>1, <1>2, <1>3 DEF Next, HostStep

THEOREM IoInvariant == Spec => []IoInv
<1>1. Init => IoInv
  BY IoStart
<1>2. IoInv /\ [Next]_vars => IoInv'
  BY IoStep
<1> QED BY <1>1, <1>2, PTL DEF Spec

-----------------------------------------------------------------------------
(* What the invariant is for.                                               *)

(* A descriptor number in the tables of the worker, in an undispatched      *)
(* event or in the handler that runs means the client it was put there for, *)
(* whatever accept hands out in between.                                    *)
THEOREM EachOwnDescriptor == Spec => []OwnDescriptor
<1>1. ASSUME IoInv, ioMode = "epoll" PROVE Ep!OwnDescriptor
  <2>1. HostInv /\ EpTables /\ EpEvents /\ EpJob
    BY <1>1 DEF IoInv, EpInv
  <2>2. ASSUME NEW f \in FDs, Ep!Registered(f)
        PROVE  owner[f] \notin freed \union {NoConn} /\ table[f] = owner[f]
    BY <2>1, <2>2, Numbers DEF Ep!Registered, EpTables, Holds
  <2>3. ASSUME NEW e \in batch PROVE e.conn \notin freed /\ table[fd[e.conn]] = e.conn
    <3>1. e.conn \in Conns /\ fd[e.conn] \in FDs /\ owner[fd[e.conn]] = e.conn
      BY <2>1 DEF EpEvents, Valid, Jobs
    <3> QED BY <2>1, <3>1 DEF EpTables, Holds
  <2>4. ASSUME job # NoJob PROVE job.conn \notin freed /\ (Ep!Socket = job.conn \/ wpc = "delete")
    <3>1. wpc \in Handlers /\ InHand(job) /\ Ep!FD = fd[job.conn]
      <4>1. wpc \in Handlers
        BY <2>1, <2>4 DEF EpJob
      <4> QED BY <1>1, <2>1, <4>1, EpSocket DEF IoInv
    <3>2. CASE wpc \in {"close", "delete"}
      BY <3>1, <3>2 DEF InHand, Holds, Ep!Socket
    <3>3. CASE wpc \notin {"close", "delete"}
      BY <1>1, <2>1, <3>1, <3>3, EpSocket DEF IoInv, InHand
    <3> QED BY <3>2, <3>3
  <2> QED BY <2>2, <2>3, <2>4 DEF Ep!OwnDescriptor
<1>2. ASSUME IoInv, ioMode = "poll" PROVE Po!OwnDescriptor
  <2>1. PoTables
    BY <1>2 DEF IoInv, PoInv
  <2> QED BY <2>1, Numbers DEF PoTables, Po!OwnDescriptor, Po!Listed, Holds
<1>3. ASSUME IoInv, ioMode = "select" PROVE Se!OwnDescriptor
  <2>1. SeTables
    BY <1>3 DEF IoInv, SeInv
  <2> QED BY <2>1 DEF SeTables, Se!OwnDescriptor, Holds
<1>4. IoInv => OwnDescriptor
  BY <1>1, <1>2, <1>3 DEF OwnDescriptor
<1> QED BY <1>4, IoInvariant, PTL

(* Every open connection that was accepted is in somebody's hands, and      *)
(* SelectWorker keeps its two descriptor sets in step with its list.        *)
THEOREM NoClientIsForgotten == Spec => []NoClientForgotten
<1>1. ASSUME IoInv, NEW c \in Conns, Accepted(c), Open(c)
      PROVE  \/ c = info
             \/ c \in m_addClientList
             \/ c \in cinfoList
             \/ \E f \in FDs : cinfoMap[f] = c
             \/ \E f \in FDs : owner[f] = c
             \/ job # NoJob /\ job.conn = c /\ wpc = "close"
             \/ ioMode = "epoll" /\ wpc = "exited"
  <2>1. HostInv /\ ioMode \in {"select", "poll", "epoll"}
    BY <1>1 DEF IoInv, HostInv
  <2>2. Holds(c) /\ fd[c] \in FDs
    BY <1>1, <2>1, OpenIsHolds DEF Holds
  <2>3. CASE c \in Waiting
    BY <2>3 DEF Waiting
  <2>4. CASE ioMode = "epoll"
    <3>1. EpTables /\ EpJob
      BY <1>1, <2>4 DEF IoInv, EpInv
    <3>2. wpc = "close" => job # NoJob
      <4>1. wpc = "close" => job \in Jobs
        BY <3>1 DEF EpJob, Handlers, Closing
      <4> QED BY <4>1, NoJobAssumption DEF Jobs
    <3> QED BY <2>2, <2>3, <2>4, <3>1, <3>2 DEF EpTables
  <2>5. CASE ioMode = "poll"
    BY <1>1, <2>2, <2>3, <2>5 DEF IoInv, PoInv, PoTables
  <2>6. CASE ioMode = "select"
    BY <1>1, <2>2, <2>3, <2>6 DEF IoInv, SeInv, SeTables
  <2> QED BY <2>1, <2>4, <2>5, <2>6
<1>2. ASSUME IoInv, ioMode = "select" PROVE Se!SetsInStep
  BY <1>2 DEF IoInv, SeInv, SeSets, Se!SetsInStep, Broken
<1>3. IoInv => NoClientForgotten
  BY <1>1, <1>2 DEF NoClientForgotten
<1> QED BY <1>3, IoInvariant, PTL

-----------------------------------------------------------------------------
(* The promise to the clients.                                              *)

(* The worker sends the reply to c ...                                      *)
Answers(c) ==
  /\ Holds(c) /\ answered[c] = 0 /\ Complete(c)
  /\ answered' = [d \in Conns |-> IF d = c THEN answered[d] + 1 ELSE answered[d]]
  /\ UNCHANGED <<ioMode, peer, input, table, fd>>

(* ... or closes its descriptor: after the reply, or because the client     *)
(* left, or because the worker is not patient.                              *)
Closes(c) ==
  /\ Holds(c)
  /\ answered[c] = 1 \/ (answered[c] = 0 /\ (Broken(c) \/ ioMode = "poll"))
  /\ table' = [table EXCEPT ![fd[c]] = NoConn]
  /\ UNCHANGED <<ioMode, peer, input, fd, answered>>

(* A step of any worker does one of the two or changes no connection.       *)
LEMMA WorkerServes ==
  ASSUME IoInv, WorkerStep
  PROVE  \/ \E c \in Conns : Answers(c) \/ Closes(c)
         \/ UNCHANGED <<ioMode, peer, input, table, fd, answered>>
<1>0. HostInv
  BY DEF IoInv
<1>1. CASE InEpoll(Ep!WorkerStep)
  <2>0. EpInv /\ EpTables /\ EpEvents /\ EpJob /\ EpAnswers /\ Ep!WorkerStep /\ ioMode' = ioMode
    BY <1>1 DEF IoInv, EpInv, InEpoll
  <2>1. CASE Ep!Send
    <3>1. wpc = "send"
      BY <2>1 DEF Ep!Send
    <3>2. PICK c \in Conns : c = job.conn
      BY <1>0, <2>0, <3>1, EpSocket DEF Handlers
    <3>3. Ep!Socket = c /\ Holds(c) /\ Valid(job) /\ job.event = "out" /\ job \in Jobs
      BY <1>0, <2>0, <3>1, <3>2, EpSocket DEF Handlers, InHand, Receiving, Closing
    <3>4. Complete(c) /\ c \notin shut
      BY <2>0, <3>2, <3>3 DEF Valid, EpAnswers
    <3>5. answered[c] = 0
      BY <2>0, <3>1, <3>4 DEF EpAnswers
    <3> QED BY <2>0, <2>1, <3>3, <3>4, <3>5 DEF Ep!Send, Answers
  <2>2. CASE Ep!Close
    <3>1. wpc = "close"
      BY <2>2 DEF Ep!Close
    <3>2. PICK c \in Conns : c = job.conn
      BY <1>0, <2>0, <3>1, EpSocket DEF Handlers, Closing
    <3>3. Ep!FD = fd[c] /\ Holds(c) /\ (c \in shut \/ Broken(c))
      BY <1>0, <2>0, <3>1, <3>2, EpSocket DEF Handlers, Closing, InHand
    <3>4. answered[c] = 1 \/ (answered[c] = 0 /\ Broken(c))
      BY <2>0, <3>3 DEF EpAnswers
    <3> QED BY <2>0, <2>2, <3>3, <3>4 DEF Ep!Close, Closes
  <2>3. CASE ~ Ep!Send /\ ~ Ep!Close
    <3>1. UNCHANGED <<peer, input, table, fd, answered>>
      BY <2>0, <2>3 DEF Ep!WorkerStep, Ep!TestExit, Ep!TakeNewClients, Ep!TakeList, Ep!EpollWait, Ep!Dispatch,
        Ep!RecvLength, Ep!RecvMessage, Ep!Rearm, Ep!Shutdown, Ep!Deregister, Ep!DeleteInfo, Ep!CloseEpoll
    <3> QED BY <2>0, <3>1
  <2> QED BY <2>1, <2>2, <2>3
<1>2. CASE InPoll(Po!WorkerStep)
  <2>0. ioMode = "poll" /\ PoTables /\ PoLoop /\ PoAnswers /\ Po!WorkerStep /\ ioMode' = ioMode
    BY <1>2 DEF IoInv, PoInv, InPoll
  <2>1. CASE Po!Send
    <3>1. curr \in FDs /\ events[curr] = "out" /\ curr \notin clrfds /\ wpc = "send"
      BY <2>0, <2>1 DEF PoLoop, Po!Send
    <3>2. PICK c \in Conns : c = cinfoMap[curr]
      BY <2>0, <3>1, Numbers DEF PoTables
    <3>3. fd[c] = curr /\ Holds(c) /\ Po!Socket = c
      BY <2>0, <3>1, <3>2 DEF PoTables, Po!Socket, Holds
    <3>4. Complete(c) /\ answered[c] = 0
      BY <2>0, <3>1, <3>2, <3>3 DEF PoAnswers
    <3> QED BY <2>0, <2>1, <3>3, <3>4 DEF Po!Send, Answers
  <2>2. CASE Po!Close
    <3>1. PICK g \in clrfds :
            /\ wpc = "clear" /\ table' = [table EXCEPT ![g] = NoConn]
            /\ UNCHANGED <<peer, input, fd, answered>>
      BY <2>2 DEF Po!Close
    <3>2. g \in FDs /\ events[g] # "none"
      BY <2>0 DEF PoLoop
    <3>3. PICK c \in Conns : c = cinfoMap[g]
      BY <2>0, <3>2, Numbers DEF PoTables
    <3>4. fd[c] = g /\ Holds(c)
      BY <2>0, <3>1, <3>2, <3>3 DEF PoTables
    <3>5. answered[c] = 0 \/ answered[c] = 1
      BY <2>0 DEF PoAnswers
    <3> QED BY <2>0, <3>1, <3>4, <3>5 DEF Closes
  <2>3. CASE ~ Po!Send /\ ~ Po!Close
    <3>1. UNCHANGED <<peer, input, table, fd, answered>>
      BY <2>0, <2>3 DEF Po!WorkerStep, Po!TestExit, Po!TakeNewClients, Po!TakeList, Po!Poll, Po!Examine,
        Po!LoopDone, Po!RecvLength, Po!RecvMessage, Po!Forget, Po!ClearDone
    <3> QED BY <2>0, <3>1
  <2> QED BY <2>1, <2>2, <2>3
<1>3. CASE InSelect(Se!WorkerStep)
  <2>0. SeInv /\ SeTables /\ SeLoop /\ SeSets /\ SeAnswers /\ Se!WorkerStep /\ ioMode' = ioMode
    BY <1>3 DEF IoInv, SeInv, InSelect
  <2>1. CASE Se!Send
    <3>1. wpc = "send"
      BY <2>1 DEF Se!Send
    <3>2. PICK c \in Conns : c = curr
      BY <1>0, <2>0, <3>1, SeSocket
    <3>3. c \in cinfoList /\ Se!Socket = c /\ Holds(c) /\ answered[c] = 0 /\ fd[c] \in writefds
      BY <1>0, <2>0, <3>1, <3>2, SeSocket DEF SeLoop
    <3>4. Complete(c)
      BY <2>0, <3>3 DEF SeAnswers
    <3> QED BY <2>0, <2>1, <3>3, <3>4 DEF Se!Send, Se!Count, Answers
  <2>2. CASE Se!Close
    <3>1. PICK c \in cinfoList :
            /\ wpc = "clear" /\ fd[c] \in clrfds
            /\ table' = [table EXCEPT ![fd[c]] = NoConn]
            /\ UNCHANGED <<peer, input, fd, answered>>
      BY <2>2 DEF Se!Close
    <3>2. c \in Conns /\ Holds(c)
      BY <2>0, <3>1 DEF SeTables
    <3>3. answered[c] = 1 \/ (answered[c] = 0 /\ Broken(c))
      BY <2>0, <3>1, <3>2 DEF SeSets, SeAnswers
    <3> QED BY <2>0, <3>1, <3>2, <3>3 DEF Closes
  <2>3. CASE ~ Se!Send /\ ~ Se!Close
    <3>1. UNCHANGED <<peer, input, table, fd, answered>>
      BY <2>0, <2>3 DEF Se!WorkerStep, Se!TestExit, Se!TakeNewClients, Se!TakeList, Se!SelectFails, Se!Select,
        Se!Examine, Se!LoopDone, Se!RecvLength, Se!RecvMessage, Se!Forget, Se!ClearDone
    <3> QED BY <2>0, <3>1
  <2> QED BY <2>1, <2>2, <2>3
<1> QED BY <1>1, <1>2, <1>3 DEF WorkerStep


(* The stage a client has reached, without looking into the table of        *)
(* descriptors twice.                                                       *)
Stage(c) ==
  IF fd[c] = 0 THEN "away"
  ELSE IF ~ Holds(c) THEN "closed"
  ELSE IF answered[c] = 1 THEN "answered" ELSE "accepted"
Stages == [c \in Conns |-> Stage(c)]
Asked == {c \in Conns : input[c] = "full"}
Left == {c \in Conns : peer[c] \in {"fin", "reset"}}

(* What the refinement puts for stage.                                      *)
ServiceStage ==
  [c \in Conns |->
     IF Closed(c) THEN "closed"
     ELSE IF answered[c] > 1 THEN "answered again"
     ELSE IF answered[c] = 1 THEN "answered"
     ELSE IF Accepted(c) THEN "accepted" ELSE "away"]

(* Nobody is answered twice.                                                *)
LEMMA OneAnswer == ASSUME IoInv, NEW c \in Conns PROVE answered[c] \in {0, 1}
  BY DEF IoInv, HostInv, EpInv, EpAnswers, PoInv, PoAnswers, SeInv, SeAnswers

(* Under the invariant the two agree.                                       *)
LEMMA StageNow ==
  IoInv => Stages = ServiceStage
<1> SUFFICES ASSUME IoInv, NEW c \in Conns
             PROVE  Stage(c) = IF Closed(c) THEN "closed"
                               ELSE IF answered[c] > 1 THEN "answered again"
                               ELSE IF answered[c] = 1 THEN "answered"
                               ELSE IF Accepted(c) THEN "accepted" ELSE "away"
  BY DEF Stages, ServiceStage
<1>1. HostInv /\ answered[c] \in {0, 1}
  BY OneAnswer DEF IoInv
<1>2. (Open(c) <=> Holds(c)) /\ (Holds(c) => fd[c] # 0) /\ (fd[c] = 0 => answered[c] = 0)
  BY <1>1, OpenIsHolds DEF HostInv
<1>3. CASE answered[c] = 0
  BY <1>2, <1>3 DEF Stage, Closed, Accepted
<1>4. CASE answered[c] = 1
  BY <1>2, <1>4 DEF Stage, Closed, Accepted
<1> QED BY <1>1, <1>3, <1>4

(* What a step does to the stages, in the terms of the service.             *)
Serves ==
  \/ UNCHANGED <<Asked, Left, Stages, ioMode>>
  \/ \E c \in Conns :
       \/ Asked' = Asked \union {c} /\ UNCHANGED <<Left, Stages, ioMode>>
       \/ Left' = Left \union {c} /\ UNCHANGED <<Asked, Stages, ioMode>>
       \/ /\ UNCHANGED <<Asked, Left, ioMode>>
          /\ \E to \in {"accepted", "answered", "closed"} :
               /\ Stages' = [Stages EXCEPT ![c] = to]
               /\ \/ Stages[c] = "away" /\ to = "accepted"
                  \/ Stages[c] = "accepted" /\ to = "answered" /\ c \in Asked \union Left
                  \/ Stages[c] = "answered" /\ to = "closed"
                  \/ Stages[c] = "accepted" /\ to = "closed" /\ (c \in Left \/ ioMode = "poll")

(* The stage of one client moves.                                           *)
LEMMA OneStage ==
  ASSUME NEW c \in Conns, NEW to, Stage(c)' = to, \A d \in Conns \ {c} : Stage(d)' = Stage(d)
  PROVE  Stages' = [Stages EXCEPT ![c] = to]
  BY DEF Stages

(* A client that does not move keeps its stage.                             *)
LEMMA SameStage ==
  ASSUME NEW c \in Conns, fd'[c] = fd[c], answered'[c] = answered[c], Holds(c)' <=> Holds(c)
  PROVE  Stage(c)' = Stage(c)
  BY DEF Stage

(* A step of the clients or of main.                                        *)
LEMMA HostServes == ASSUME IoInv, HostStep PROVE Serves
<1>0. HostInv /\ HostInv' /\ HostMoves
  BY HostStepMoves DEF IoInv
<1>1. ASSUME NEW c \in Conns, fd[c] # 0 PROVE Stage(c)' = Stage(c)
  BY <1>0, <1>1, SameStage DEF HostMoves
<1>2. CASE UNCHANGED fd
  <2>1. ASSUME NEW c \in Conns, fd[c] = 0 PROVE Stage(c)' = Stage(c)
    BY <1>2, <2>1 DEF Stage
  <2>2. UNCHANGED <<Stages, ioMode>>
    BY <1>0, <1>1, <2>1 DEF Stages, HostMoves
  <2>3. CASE UNCHANGED <<peer, input>>
    BY <2>2, <2>3 DEF Serves, Asked, Left
  <2>4. CASE \E c \in Conns : Connect(c) \/ Deliver(c) \/ Depart(c)
    <3>1. PICK c \in Conns : Connect(c) \/ Deliver(c) \/ Depart(c)
      BY <2>4
    <3>2. CASE Connect(c)
      BY <1>0, <2>2, <3>2 DEF Connect, Serves, Asked, Left, HostInv
    <3>3. CASE Deliver(c)
      <4>1. Left' = Left /\ (Asked' = Asked \/ Asked' = Asked \union {c})
        BY <1>0, <3>3 DEF Deliver, Asked, Left, HostInv
      <4> QED BY <2>2, <4>1 DEF Serves
    <3>4. CASE Depart(c)
      <4>1. Asked' = Asked /\ Left' = Left \union {c}
        BY <1>0, <3>4, DeparturesAssumption DEF Depart, Asked, Left, HostInv
      <4> QED BY <2>2, <4>1 DEF Serves
    <3> QED BY <3>1, <3>2, <3>3, <3>4
  <2>5. CASE Accept
    BY <2>3, <2>5 DEF Accept
  <2> QED BY <1>0, <2>3, <2>4, <2>5, HostStepMoves
<1>3. CASE ~ UNCHANGED fd
  <2>1. Accept
    BY <1>0, <1>3, HostStepMoves DEF Connect, Deliver, Depart
  <2> PICK c, f : c = Head(backlog) /\ f = LowestFree
    OBVIOUS
  <2>2. /\ c \in Conns /\ c \in Elements(backlog) /\ fd' = [fd EXCEPT ![c] = f] /\ f \in FDs
        /\ table' = [table EXCEPT ![f] = c] /\ table[f] = NoConn
        /\ UNCHANGED <<peer, input, answered>>
    BY <1>0, <2>1, PoppedProperties, FreeDescriptor DEF Accept, HostInv
  <2>3. fd[c] = 0 /\ answered[c] = 0 /\ fd'[c] = f /\ table'[f] = c /\ f # 0
    BY <1>0, <2>2, Numbers DEF HostInv
  <2>4. Stage(c) = "away" /\ Stage(c)' = "accepted"
    <3>1. Holds(c)'
      BY <2>2, <2>3 DEF Holds
    <3> QED BY <2>2, <2>3, <3>1 DEF Stage
  <2>5. ASSUME NEW d \in Conns \ {c} PROVE Stage(d)' = Stage(d)
    <3>1. fd'[d] = fd[d]
      BY <1>0, <2>2 DEF HostInv
    <3> QED BY <1>1, <3>1 DEF Stage
  <2>6. Stages[c] = "away" /\ Stages' = [Stages EXCEPT ![c] = "accepted"]
    BY <2>2, <2>4, <2>5, OneStage DEF Stages
  <2>7. UNCHANGED <<Asked, Left, ioMode>>
    BY <1>0, <2>2 DEF Asked, Left, HostMoves
  <2> QED BY <2>2, <2>6, <2>7 DEF Serves
<1> QED BY <1>2, <1>3

(* A step of the worker.                                                    *)
LEMMA WorkersServe == ASSUME IoInv, WorkerStep PROVE Serves
<1>0. HostInv
  BY DEF IoInv
<1>1. ASSUME NEW c \in Conns, Answers(c) PROVE Serves
  <2>1. UNCHANGED <<Asked, Left, ioMode>> /\ \A d \in Conns : Holds(d)' <=> Holds(d)
    BY <1>1 DEF Answers, Asked, Left, Holds
  <2>2. Holds(c) /\ fd[c] # 0 /\ c \in Asked \union Left
    BY <1>0, <1>1, OpenIsHolds DEF Answers, Complete, Asked, Left
  <2>3. Stage(c) = "accepted" /\ Stage(c)' = "answered"
    BY <1>1, <2>1, <2>2 DEF Answers, Stage
  <2>4. ASSUME NEW d \in Conns \ {c} PROVE Stage(d)' = Stage(d)
    BY <1>1, <2>1, SameStage DEF Answers
  <2>5. Stages[c] = "accepted" /\ Stages' = [Stages EXCEPT ![c] = "answered"]
    BY <2>3, <2>4, OneStage DEF Stages
  <2> QED BY <2>1, <2>2, <2>5 DEF Serves
<1>2. ASSUME NEW c \in Conns, Closes(c) PROVE Serves
  <2>1. UNCHANGED <<Asked, Left, ioMode>>
    BY <1>2 DEF Closes, Asked, Left
  <2>2. Holds(c) /\ fd[c] # 0 /\ fd[c] \in FDs /\ table[fd[c]] = c
    BY <1>0, <1>2, OpenIsHolds DEF Closes, Holds
  <2>3. ~ Holds(c)' /\ \A d \in Conns \ {c} : Holds(d)' <=> Holds(d)
    BY <1>0, <1>2, <2>2, Numbers DEF Closes, Holds, HostInv
  <2>4. /\ Stage(c)' = "closed"
        /\ \/ Stage(c) = "answered"
           \/ Stage(c) = "accepted" /\ (c \in Left \/ ioMode = "poll")
    BY <1>2, <2>2, <2>3 DEF Closes, Stage, Broken, Left
  <2>5. ASSUME NEW d \in Conns \ {c} PROVE Stage(d)' = Stage(d)
    BY <1>2, <2>3, SameStage DEF Closes
  <2>6. Stages[c] = Stage(c) /\ Stages' = [Stages EXCEPT ![c] = "closed"]
    BY <2>4, <2>5, OneStage DEF Stages
  <2> QED BY <2>1, <2>4, <2>6 DEF Serves
<1>3. CASE UNCHANGED <<ioMode, peer, input, table, fd, answered>>
  <2>1. UNCHANGED <<Asked, Left, Stages, ioMode>>
    BY <1>3 DEF Asked, Left, Stages, Stage, Holds
  <2> QED BY <2>1 DEF Serves
<1> QED BY <1>1, <1>2, <1>3, WorkerServes

LEMMA Serving == ASSUME IoInv, [Next]_vars PROVE Serves
<1>1. CASE UNCHANGED vars
  <2>1. UNCHANGED <<Asked, Left, Stages, ioMode>>
    BY <1>1 DEF vars, Asked, Left, Stages, Stage, Holds
  <2> QED BY <2>1 DEF Serves
<1> QED BY <1>1, HostServes, WorkersServe DEF Next, HostStep

(* Whatever worker it runs, the program keeps the promise of the service:   *)
(* one answer at most, not before there is a request or a departure, and a  *)
(* close only behind the answer, after a departure, or by PollWorker.       *)
THEOREM ServiceImplemented == Spec => ImplementsService
<1>1. Init => Service!Init
  <2> SUFFICES ASSUME Init PROVE Service!Init
    OBVIOUS
  <2>1. IoInv
    BY IoStart
  <2>2. /\ peer = [c \in Conns |-> "absent"] /\ input = [c \in Conns |-> "none"]
        /\ fd = [c \in Conns |-> 0]
    BY DEF Init, Ep!Init, Ep!HostInit
  <2>3. Asked = {} /\ Left = {} /\ Stages = [c \in Conns |-> "away"]
    BY <2>2 DEF Asked, Left, Stages, Stage
  <2> QED BY <2>1, <2>3, StageNow DEF ServiceStage, Service!Init, Asked, Left
<1>2. (IoInv => Stages = ServiceStage)'
  BY StageNow, PTL
<1>3. IoInv /\ [Next]_vars => [Service!Next]_Service!serviceVars
  <2> SUFFICES ASSUME IoInv, [Next]_vars PROVE [Service!Next]_Service!serviceVars
    OBVIOUS
  <2>1. IoInv' /\ Serves
    BY IoStep, Serving
  <2>2. ServiceStage = Stages /\ ServiceStage' = Stages'
    BY <1>2, <2>1, StageNow
  <2>3. UNCHANGED Service!serviceVars <=> UNCHANGED <<Asked, Left, ServiceStage, ioMode # "poll">>
    BY DEF Service!serviceVars, Asked, Left, ServiceStage
  <2>4. \A c \in Conns :
          /\ Service!Ask(c) <=>
               Asked' = Asked \union {c} /\ UNCHANGED <<Left, ServiceStage, ioMode # "poll">>
          /\ Service!Leave(c) <=>
               Left' = Left \union {c} /\ UNCHANGED <<Asked, ServiceStage, ioMode # "poll">>
    BY DEF Service!Ask, Service!Leave, Asked, Left, ServiceStage
  <2>5. \A c \in Conns : \A from, to :
          Service!Move(c, from, to) <=>
            /\ ServiceStage[c] = from /\ ServiceStage' = [ServiceStage EXCEPT ![c] = to]
            /\ UNCHANGED <<Asked, Left, ioMode # "poll">>
    BY DEF Service!Move, Asked, Left, ServiceStage
  <2>6. \A c \in Conns :
          /\ Service!Accept(c) <=> Service!Move(c, "away", "accepted")
          /\ Service!Answer(c) <=> c \in Asked \union Left /\ Service!Move(c, "accepted", "answered")
          /\ Service!Dismiss(c) <=> Service!Move(c, "answered", "closed")
          /\ Service!GiveUp(c) <=>
               (c \in Left \/ ioMode = "poll") /\ Service!Move(c, "accepted", "closed")
    BY DEF Service!Accept, Service!Answer, Service!Dismiss, Service!GiveUp, Asked, Left
  <2>7. ASSUME NEW c \in Conns,
               \/ Asked' = Asked \union {c} /\ UNCHANGED <<Left, Stages, ioMode>>
               \/ Left' = Left \union {c} /\ UNCHANGED <<Asked, Stages, ioMode>>
        PROVE  Service!Next
    BY <2>2, <2>4, <2>7 DEF Service!Next
  <2>8. ASSUME NEW c \in Conns, NEW to \in {"accepted", "answered", "closed"},
               UNCHANGED <<Asked, Left, ioMode>>, Stages' = [Stages EXCEPT ![c] = to],
               \/ Stages[c] = "away" /\ to = "accepted"
               \/ Stages[c] = "accepted" /\ to = "answered" /\ c \in Asked \union Left
               \/ Stages[c] = "answered" /\ to = "closed"
               \/ Stages[c] = "accepted" /\ to = "closed" /\ (c \in Left \/ ioMode = "poll")
        PROVE  Service!Next
    <3>1. Service!Move(c, Stages[c], to)
      BY <2>2, <2>5, <2>8
    <3> QED BY <2>6, <2>8, <3>1 DEF Service!Next
  <2> QED BY <2>1, <2>2, <2>3, <2>7, <2>8 DEF Serves
<1> QED BY <1>1, <1>3, IoInvariant, PTL DEF Spec, Service!Spec, ImplementsService

=============================================================================
