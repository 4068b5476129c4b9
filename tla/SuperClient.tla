---------------------------- MODULE SuperClient ----------------------------
(***************************************************************************)
(* 9/superClient: one thread opens many connections and drives them through*)
(* an edge-triggered epoll instance.  Each one is registered for output;   *)
(* doWrite sends the request and registers it for input; doRead reads the  *)
(* reply and calls shutdown().  The server is the environment.             *)
(*                                                                         *)
(* Nothing is closed before SIGINT: a hung-up socket is readable and       *)
(* writable, so the events come with EPOLLIN or EPOLLOUT and the branch    *)
(* that closes and deletes is not reached.  Instead every shutdown() makes *)
(* the entry ready again, and the loop turns for ever.                     *)
(***************************************************************************)
EXTENDS Naturals, Sequences, FiniteSets

CONSTANTS
  Conns,      \* the connections, by number: clientCount
  WaitSize,   \* EPOLL_WAIT_SIZE
  NoConn      \* no event is being handled

ASSUME ConnsAssumption == Conns \subseteq Nat /\ IsFiniteSet(Conns) /\ NoConn \notin Conns
ASSUME WaitSizeAssumption == WaitSize \in Nat \ {0}

VARIABLES
  mainPc,      \* "connect", "add", "wait", "dispatch", "mod", "cleanup", "closeEp", "done"
  sock,        \* "none", "open", "closed"; "leaked" after a failed connect
  queryMap,    \* the connections that have a QueryInfo
  entry,       \* what each socket is registered for: "none", "out", "in"
  rdlist,      \* the ready list of epoll, first come first served
  batch,       \* the events returned and not yet handled
  curr,        \* the connection main is working on
  shut,        \* the connections the client called shutdown() on
  sent,        \* how many requests went out on each connection
  replies,     \* the connections whose reply was read
  server,      \* the other end: "none", "open", "replied", then "served" when it has
               \* closed as well; without a reply "closed" or "reset"
  user_canel   \* SIGINT was caught

querySame == UNCHANGED <<sock, queryMap>>
kernelSame == UNCHANGED <<entry, rdlist>>
clientVars == <<mainPc, sock, queryMap, entry, rdlist, batch, curr, shut, sent, replies, server, user_canel>>

ClientInit ==
  /\ mainPc = "connect"
  /\ sock = [c \in Conns |-> "none"]
  /\ queryMap = {}
  /\ entry = [c \in Conns |-> "none"]
  /\ rdlist = <<>> /\ batch = <<>> /\ curr = NoConn
  /\ shut = {}
  /\ sent = [c \in Conns |-> 0]
  /\ replies = {}
  /\ server = [c \in Conns |-> "none"]
  /\ user_canel = FALSE

At(label, next) == mainPc = label /\ mainPc' = next
Registered(c) == entry[c] # "none"

(* The ready list: an entry joins it once, at the end. *)
OnList(c) == \E i \in DOMAIN rdlist : rdlist[i] = c
Wake(c) == rdlist' = IF ~ Registered(c) \/ OnList(c) THEN rdlist ELSE Append(rdlist, c)
Without(c) == SelectSeq(rdlist, LAMBDA d : d # c)

(* What makes an entry for input ready; one for output always is.           *)
Replied(c) == server[c] \in {"replied", "served"}
Readable(c) == Replied(c) \/ server[c] \in {"closed", "reset"} \/ c \in shut

-----------------------------------------------------------------------------
(* Faulty variants: definitions of the sections below with one programming  *)
(* error each.  ClientSpec uses none of them; PROJECT.json pairs each one   *)
(* with the property that rejects it.                                       *)

(* The entry stays registered for output. *)
SendOnly ==
  /\ At("send", "dispatch")
  /\ server[curr] # "reset" /\ curr \notin shut
  /\ sent' = [sent EXCEPT ![curr] = @ + 1]
  /\ curr' = NoConn
  /\ querySame /\ kernelSame
  /\ UNCHANGED <<batch, shut, replies, server, user_canel>>

(* An entry for input that is told only of what comes later. *)
ModifyWithoutLook ==
  /\ At("mod", "dispatch")
  /\ entry' = [entry EXCEPT ![curr] = "in"]
  /\ UNCHANGED rdlist
  /\ curr' = NoConn
  /\ querySame
  /\ UNCHANGED <<batch, shut, sent, replies, server, user_canel>>

-----------------------------------------------------------------------------
(* The loop that opens the connections; an error ends it.  The socket of a  *)
(* failed connect is in no map and is never closed.                         *)

NextConn == {c \in Conns : sock[c] = "none" /\ \A d \in Conns : d < c => sock[d] # "none"}

Connect ==
  /\ At("connect", "add")
  /\ ~ user_canel
  /\ \E c \in NextConn :
       /\ sock' = [sock EXCEPT ![c] = "open"]
       /\ server' = [server EXCEPT ![c] = "open"]
       /\ queryMap' = queryMap \union {c}
       /\ curr' = c
  /\ kernelSame
  /\ UNCHANGED <<batch, shut, sent, replies, user_canel>>

(* EPOLL_CTL_ADD for output: the socket is writable, so it is ready.        *)
Register ==
  /\ At("add", "connect")
  /\ entry' = [entry EXCEPT ![curr] = "out"]
  /\ rdlist' = Append(rdlist, curr)
  /\ curr' = NoConn
  /\ querySame
  /\ UNCHANGED <<batch, shut, sent, replies, server, user_canel>>

SocketFails ==
  /\ At("connect", "wait") /\ NextConn # {} /\ ~ user_canel
  /\ querySame /\ kernelSame
  /\ UNCHANGED <<batch, curr, shut, sent, replies, server, user_canel>>

ConnectFails ==
  /\ At("connect", "wait") /\ ~ user_canel
  /\ \E c \in NextConn : sock' = [sock EXCEPT ![c] = "leaked"]
  /\ kernelSame
  /\ UNCHANGED <<queryMap, batch, curr, shut, sent, replies, server, user_canel>>

AllConnected ==
  /\ At("connect", "wait")
  /\ NextConn = {} \/ user_canel
  /\ querySame /\ kernelSame
  /\ UNCHANGED <<batch, curr, shut, sent, replies, server, user_canel>>

-----------------------------------------------------------------------------
(* The event loop.                                                          *)

(* The numbers of S in order, as the only sequence of a set.                *)
InOrder(S) == {s \in [1 .. Cardinality(S) -> S] : \A i, j \in DOMAIN s : i < j => s[i] < s[j]}

(* The first ready entries go to the caller and the others stay; an entry   *)
(* that is not ready drops off the list.                                    *)
EpollWait ==
  /\ At("wait", "dispatch")
  /\ ~ user_canel
  /\ \E pos \in InOrder({i \in DOMAIN rdlist : entry[rdlist[i]] = "out" \/ Readable(rdlist[i])}) :
       LET n == IF Len(pos) < WaitSize THEN Len(pos) ELSE WaitSize
           Ready(i) == rdlist[pos[i]]
       IN  /\ batch' = [i \in 1 .. n |-> [conn |-> Ready(i), event |-> entry[Ready(i)]]]
           /\ rdlist' = [i \in 1 .. Len(pos) - n |-> Ready(n + i)]
  /\ querySame
  /\ UNCHANGED <<entry, curr, shut, sent, replies, server, user_canel>>

Dispatch ==
  /\ mainPc = "dispatch" /\ batch # <<>>
  /\ mainPc' = IF Head(batch).event = "out" THEN "send" ELSE "recv"
  /\ curr' = Head(batch).conn
  /\ batch' = Tail(batch)
  /\ querySame /\ kernelSame
  /\ UNCHANGED <<shut, sent, replies, server, user_canel>>

BatchDone ==
  /\ At("dispatch", "wait") /\ batch = <<>>
  /\ querySame /\ kernelSame
  /\ UNCHANGED <<batch, curr, shut, sent, replies, server, user_canel>>

(* doWrite: send.  It fails once the connection is broken; a first send to  *)
(* a server that closed in an orderly way still succeeds.                   *)
Send ==
  /\ mainPc = "send"
  /\ server[curr] # "reset" /\ curr \notin shut
  /\ mainPc' = "mod"
  /\ sent' = [sent EXCEPT ![curr] = @ + 1]
  /\ querySame /\ kernelSame
  /\ UNCHANGED <<batch, curr, shut, replies, server, user_canel>>

(* shutdown() wakes epoll whatever the state of the socket.                 *)
SendFails ==
  /\ At("send", "dispatch")
  /\ server[curr] \in {"closed", "reset"} \/ curr \in shut
  /\ shut' = shut \union {curr}
  /\ Wake(curr)
  /\ curr' = NoConn
  /\ querySame
  /\ UNCHANGED <<entry, batch, sent, replies, server, user_canel>>

(* EPOLL_CTL_MOD looks at the socket again: a reply that came between the   *)
(* two calls is noticed.                                                    *)
Modify ==
  /\ At("mod", "dispatch")
  /\ entry' = [entry EXCEPT ![curr] = "in"]
  /\ IF Readable(curr) THEN Wake(curr) ELSE UNCHANGED rdlist
  /\ curr' = NoConn
  /\ querySame
  /\ UNCHANGED <<batch, shut, sent, replies, server, user_canel>>

(* doRead: recv, whatever it returns, and shutdown().                       *)
Read ==
  /\ At("recv", "dispatch")
  /\ replies' = IF Replied(curr) THEN replies \union {curr} ELSE replies
  /\ shut' = shut \union {curr}
  /\ Wake(curr)
  /\ curr' = NoConn
  /\ querySame
  /\ UNCHANGED <<entry, batch, sent, server, user_canel>>

(* After SIGINT: close and delete what is in the map, then close epoll.     *)
StopLoop ==
  /\ At("wait", "cleanup") /\ user_canel
  /\ querySame /\ kernelSame
  /\ UNCHANGED <<batch, curr, shut, sent, replies, server, user_canel>>

CloseOne ==
  /\ mainPc = "cleanup" /\ UNCHANGED mainPc
  /\ \E c \in queryMap :
       /\ sock' = [sock EXCEPT ![c] = "closed"]
       /\ queryMap' = queryMap \ {c}
       /\ entry' = [entry EXCEPT ![c] = "none"]
       /\ rdlist' = Without(c)
  /\ UNCHANGED <<batch, curr, shut, sent, replies, server, user_canel>>

CloseEpoll ==
  /\ At("cleanup", "done") /\ queryMap = {}
  /\ entry' = [c \in Conns |-> "none"] /\ rdlist' = <<>>
  /\ querySame
  /\ UNCHANGED <<batch, curr, shut, sent, replies, server, user_canel>>

MainStep ==
  \/ Connect \/ Register \/ SocketFails \/ ConnectFails \/ AllConnected
  \/ EpollWait \/ Dispatch \/ BatchDone \/ Send \/ SendFails \/ Modify \/ Read
  \/ StopLoop \/ CloseOne \/ CloseEpoll

-----------------------------------------------------------------------------
(* The server answers a request and closes, or it closes or breaks the      *)
(* connection without an answer.  Data wake only an entry for input; the    *)
(* end of the connection wakes any.                                         *)
Reply(c) ==
  /\ server[c] = "open" /\ sent[c] > 0
  /\ server' = [server EXCEPT ![c] = "replied"]
  /\ IF entry[c] = "in" THEN Wake(c) ELSE UNCHANGED rdlist

Disconnect(c) ==
  /\ \/ server[c] = "open" /\ \E how \in {"closed", "reset"} : server' = [server EXCEPT ![c] = how]
     \/ server[c] = "replied" /\ server' = [server EXCEPT ![c] = "served"]
  /\ Wake(c)

ServerStep(c) ==
  /\ sock[c] = "open" /\ (Reply(c) \/ Disconnect(c))
  /\ querySame
  /\ UNCHANGED <<mainPc, entry, batch, curr, shut, sent, replies, user_canel>>

Interrupt ==
  /\ ~ user_canel /\ user_canel' = TRUE
  /\ querySame /\ kernelSame
  /\ UNCHANGED <<mainPc, batch, curr, shut, sent, replies, server>>

ClientNext == MainStep \/ (\E c \in Conns : ServerStep(c)) \/ Interrupt

ClientSpec == ClientInit /\ [][ClientNext]_clientVars

(* The thread runs.  The server has to do nothing, nobody presses Ctrl-C.   *)
FairClientSpec == ClientSpec /\ WF_clientVars(MainStep)

-----------------------------------------------------------------------------
(* A connection sends one request, never a second one, although its entry   *)
(* becomes ready again with everything that happens to the socket, and what *)
(* it reads is the reply to that request.                                   *)
OneRequest ==
  \A c \in Conns : sent[c] <= 1 /\ (c \in replies => sent[c] = 1)

(* A reply is read however early it arrives: each edge is reported once,    *)
(* and one that came before the entry was registered for input must not be  *)
(* lost.  Nor may the connections that are through, which are ready again   *)
(* after each shutdown(), keep a reply from its turn.  And SIGINT ends the  *)
(* client, however busy the loop is, with everything closed that it opened, *)
(* but for the socket of a connect that failed.                             *)
RepliedOrCancelled ==
  []<>(IF user_canel
         THEN /\ mainPc = "done"
              /\ \A c \in Conns : sock[c] \in {"none", "closed", "leaked"}
         ELSE \A c \in Conns : Replied(c) => c \in replies)
=============================================================================
