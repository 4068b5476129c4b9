----------------------------- MODULE ForkServer -----------------------------
(***************************************************************************)
(* 7/tcpSvr: the parent accepts connections and forks one child for each;  *)
(* a SIGCHLD handler reaps the children with wait().  The clients are the  *)
(* processes of 7/tcpClient.                                               *)
(*                                                                         *)
(* A connection stands for its socket and for the child that serves it.    *)
(* SIGCHLD is a single pending bit: children that exit while it is pending *)
(* or while the handler runs raise it once.  The handler interrupts the    *)
(* parent anywhere, and accept is restarted behind it.                     *)
(***************************************************************************)
EXTENDS Naturals, Sequences, FiniteSets

CONSTANTS
  Conns,       \* the connections clients may open
  MaxProcs,    \* how many processes there may be (ulimit -u)
  OtherProcs,  \* how many of them may at times belong to others
  MaxFiles,    \* how many connections the parent may hold open (ulimit -n)
  NoConn       \* the parent holds no connection

ASSUME ConnsAssumption == IsFiniteSet(Conns) /\ NoConn \notin Conns
ASSUME ProcsAssumption == MaxProcs \in Nat \ {0} /\ OtherProcs \in 0 .. MaxProcs
ASSUME FilesAssumption == MaxFiles \in Nat \ {0}

VARIABLES
  client,      \* "absent", "open", "asked" (its whole request arrived), "left"
  backlog,     \* connections waiting to be accepted
  answered,    \* the connections a reply was sent on
  ended,       \* the connections that were shut down
  parent,      \* where the parent stands: "accept", "fork", "close", "gone"
  clientfd,    \* the connection it is dealing with
  held,        \* the connections that are open in the parent
  unserved,    \* the connections fork failed for
  sigchld,     \* SIGCHLD is pending
  handling,    \* sig_chil is running
  child,       \* where the child of each connection stands
  killed       \* the children that died of a signal

parentVars == <<backlog, parent, clientfd, held, unserved>>
signalVars == <<sigchld, handling>>
serviceVars == <<answered, ended>>
childVars == <<child, killed>>
vars == <<client, parentVars, signalVars, serviceVars, childVars>>

Lives(c) == child[c] \in {"recv", "send", "exit"}
Zombie(c) == child[c] = "zombie"
Unreaped == {c \in Conns : Lives(c) \/ Zombie(c)}

Init ==
  /\ client = [c \in Conns |-> "absent"]
  /\ backlog = <<>>
  /\ answered = {} /\ ended = {}
  /\ parent = "accept" /\ clientfd = NoConn
  /\ held = {} /\ unserved = {}
  /\ sigchld = FALSE /\ handling = FALSE
  /\ child = [c \in Conns |-> "none"]
  /\ killed = {}

Goto(c, label) == child' = [child EXCEPT ![c] = label]

-----------------------------------------------------------------------------
(* Faulty variants: definitions of the sections below with one programming  *)
(* error each.  Spec uses none of them; PROJECT.json pairs each one with    *)
(* the property that rejects it.                                            *)

(* A handler that calls wait once for each signal. *)
ReapOne ==
  /\ handling
  /\ \E c \in Conns : Zombie(c) /\ Goto(c, "reaped")
  /\ handling' = FALSE
  /\ UNCHANGED <<client, parentVars, sigchld, serviceVars, killed>>

(* A parent that leaves the descriptor of a served connection open. *)
CloseForgotten ==
  /\ parent = "close" /\ ~ handling
  /\ clientfd' = NoConn
  /\ parent' = "accept"
  /\ UNCHANGED <<client, backlog, held, unserved, signalVars, serviceVars, childVars>>

(* A parent that shuts the connection down where it closes its descriptor.  *)
ParentShutsDown ==
  /\ parent = "close" /\ ~ handling
  /\ held' = held \ {clientfd}
  /\ ended' = ended \union {clientfd}
  /\ clientfd' = NoConn
  /\ parent' = "accept"
  /\ UNCHANGED <<client, backlog, unserved, signalVars, answered, childVars>>

-----------------------------------------------------------------------------
(* The clients: connect, send length and message in one call, wait for the  *)
(* reply, close; they may die at any time.                                  *)

Connect(c) ==
  /\ client[c] = "absent" /\ parent # "gone"
  /\ client' = [client EXCEPT ![c] = "open"]
  /\ backlog' = Append(backlog, c)
  /\ UNCHANGED <<parent, clientfd, held, unserved, signalVars, serviceVars, childVars>>

Ask(c) ==
  /\ client[c] = "open"
  /\ client' = [client EXCEPT ![c] = "asked"]
  /\ UNCHANGED <<parentVars, signalVars, serviceVars, childVars>>

Leave(c) ==
  /\ client[c] \in {"open", "asked"}
  /\ client' = [client EXCEPT ![c] = "left"]
  /\ UNCHANGED <<parentVars, signalVars, serviceVars, childVars>>

-----------------------------------------------------------------------------
(* The parent.                                                              *)

Accept ==
  /\ parent = "accept" /\ ~ handling
  /\ Cardinality(held) < MaxFiles
  /\ backlog # <<>>
  /\ clientfd' = Head(backlog)
  /\ backlog' = Tail(backlog)
  /\ held' = held \union {Head(backlog)}
  /\ parent' = "fork"
  /\ UNCHANGED <<client, unserved, signalVars, serviceVars, childVars>>

(* Without a free descriptor accept returns -1 before it takes a connection *)
(* from the backlog; the parent reports that and calls it again.            *)
AcceptFails ==
  /\ parent = "accept" /\ ~ handling
  /\ Cardinality(held) >= MaxFiles
  /\ UNCHANGED vars

Fork ==
  /\ parent = "fork" /\ ~ handling
  /\ Cardinality(Unreaped) < MaxProcs
  /\ Goto(clientfd, "recv")
  /\ parent' = "close"
  /\ UNCHANGED <<client, backlog, clientfd, held, unserved, signalVars, serviceVars, killed>>

(* The connection stays open in the parent and nobody serves it. *)
ForkFails ==
  /\ parent = "fork" /\ ~ handling
  /\ Cardinality(Unreaped) + OtherProcs >= MaxProcs
  /\ unserved' = unserved \union {clientfd}
  /\ clientfd' = NoConn
  /\ parent' = "accept"
  /\ UNCHANGED <<client, backlog, held, signalVars, serviceVars, childVars>>

CloseInParent ==
  /\ parent = "close" /\ ~ handling
  /\ held' = held \ {clientfd}
  /\ clientfd' = NoConn
  /\ parent' = "accept"
  /\ UNCHANGED <<client, backlog, unserved, signalVars, serviceVars, childVars>>

ParentStep == Accept \/ AcceptFails \/ Fork \/ ForkFails \/ CloseInParent

-----------------------------------------------------------------------------
(* sig_chil: wait() until it returns -1, which it does when no child is     *)
(* left; until then it waits for the next one to exit.                      *)

EnterHandler ==
  /\ parent # "gone" /\ ~ handling
  /\ sigchld
  /\ sigchld' = FALSE
  /\ handling' = TRUE
  /\ UNCHANGED <<client, parentVars, serviceVars, childVars>>

Reap ==
  /\ handling
  /\ \E c \in Conns : Zombie(c) /\ Goto(c, "reaped")
  /\ UNCHANGED <<client, parentVars, signalVars, serviceVars, killed>>

LeaveHandler ==
  /\ handling
  /\ Unreaped = {}
  /\ handling' = FALSE
  /\ UNCHANGED <<client, parentVars, sigchld, serviceVars, childVars>>

HandlerStep == EnterHandler \/ Reap \/ LeaveHandler

(* sig_int ends the process that gets it.  The listening socket goes with   *)
(* the parent, and init adopts and reaps its children.                      *)
InterruptParent ==
  /\ parent # "gone"
  /\ parent' = "gone"
  /\ clientfd' = NoConn
  /\ held' = {} /\ backlog' = <<>>
  /\ sigchld' = FALSE /\ handling' = FALSE
  /\ UNCHANGED <<client, unserved, serviceVars, childVars>>

-----------------------------------------------------------------------------
(* The child of connection c.                                               *)

(* Exiting closes what is still open and sends SIGCHLD to the parent.       *)
Exit(c) ==
  /\ Goto(c, "zombie")
  /\ sigchld' = (parent # "gone")
  /\ UNCHANGED <<client, parentVars, handling, answered>>

(* The two calls of recv return with the request, or with what arrived of   *)
(* it and 0 or an error when the client leaves first.                       *)
Recv(c) ==
  /\ child[c] = "recv"
  /\ \/ client[c] \in {"asked", "left"} /\ Goto(c, "send")
     \/ client[c] = "left" /\ Goto(c, "exit")
  /\ UNCHANGED <<client, parentVars, signalVars, serviceVars, killed>>

Send(c) ==
  /\ child[c] = "send"
  /\ answered' = IF c \in ended THEN answered ELSE answered \union {c}
  /\ Goto(c, "exit")
  /\ UNCHANGED <<client, parentVars, signalVars, ended, killed>>

(* shutdown, close and _exit. *)
ChildExits(c) ==
  /\ child[c] = "exit"
  /\ ended' = ended \union {c}
  /\ Exit(c)
  /\ UNCHANGED killed

(* The child inherits sig_int, too. *)
InterruptChild(c) ==
  /\ Lives(c)
  /\ Exit(c)
  /\ killed' = killed \union {c}
  /\ UNCHANGED ended

ChildStep(c) == Recv(c) \/ Send(c) \/ ChildExits(c)

-----------------------------------------------------------------------------
Next ==
  \/ \E c \in Conns :
       Connect(c) \/ Ask(c) \/ Leave(c) \/ ChildStep(c) \/ InterruptChild(c)
  \/ ParentStep \/ HandlerStep \/ InterruptParent

Spec == Init /\ [][Next]_vars

(* Every process runs when it can.  No client has to connect, to complete a *)
(* message or to leave, and nobody has to press Ctrl-C.                     *)
FairSpec ==
  /\ Spec
  /\ WF_vars(ParentStep)
  /\ WF_vars(HandlerStep)
  /\ \A c \in Conns : WF_vars(ChildStep(c))

-----------------------------------------------------------------------------
(* No zombie is forgotten, although signals of several children merge into  *)
(* one: while the parent lives, a child that exited is about to be reaped.  *)
NoZombieForgotten ==
  \A c \in Conns : Zombie(c) /\ parent # "gone" => sigchld \/ handling

(* A connection belongs to the parent, then to its child: what the parent   *)
(* still holds is the connection it is dealing with or one that fork failed *)
(* for, and it ends only where its own child does.                          *)
HandedOver ==
  /\ held \subseteq unserved \union {clientfd}
  /\ \A c \in ended : child[c] \in {"zombie", "reaped"}

(* "Processes run independently": a complete request whose child exists is  *)
(* answered whatever becomes of the parent, its handler, the other children *)
(* and their clients.                                                       *)
RequestAnswered ==
  []<>(\A c \in Conns :
         child[c] # "none" /\ client[c] = "asked" => c \in answered \union killed)

(* Two things alone hold the backlog up: the handler waiting for a child    *)
(* whose client still owes it a message, and a table of descriptors filled  *)
(* to the last by connections fork failed for, which are never closed.      *)
BacklogMoves ==
  []<>( \/ backlog = <<>>
        \/ \E c \in Conns : Lives(c) /\ client[c] = "open"
        \/ Cardinality(held \cap unserved) >= MaxFiles )
=============================================================================
