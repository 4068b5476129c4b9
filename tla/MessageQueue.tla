---------------------------- MODULE MessageQueue ----------------------------
(***************************************************************************)
(* 4/msgSend and 4/msgRcv: a System V message queue between programs that  *)
(* are started by hand.  Each run of msgSend forks children that post a    *)
(* few messages each, waits for all of them and posts the message Exit; a  *)
(* run of msgRcv takes messages until it gets an Exit.  Nobody removes the *)
(* queue: it outlives both programs, and several runs share it.            *)
(*                                                                         *)
(* SIGCHLD is ignored in msgSend, so an ended child is never a zombie, and *)
(* wait() fails with ECHILD only when the last child has ended.            *)
(***************************************************************************)
EXTENDS Naturals, Sequences, FiniteSets

CONSTANTS
  Runs,       \* the times msgSend is started
  Children,   \* how many children each run forks
  Messages,   \* how many messages each child posts: Hello, Query, GoodByte
  QMax        \* how many messages the queue holds (msg_qbytes)

ASSUME MsgAssumption ==
  /\ IsFiniteSet(Runs) /\ Children \in Nat \ {0}
  /\ Messages \in Nat \ {0} /\ QMax \in Nat \ {0}

VARIABLES
  sender,     \* where each run stands: "off", "fork", "wait", "exit", "done", "killed"
  turn,       \* the i of its loop
  poster,     \* its children: "none", "runs", "ended", "killed"
  posted,     \* how many messages each child has posted
  msq,        \* the queue
  receiver,   \* msgRcv: "off" or "recv"
  received,   \* how many messages of each child were taken from the queue
  dismissed   \* the runs whose Exit was taken

msgVars == <<sender, turn, poster, posted, msq, receiver, received, dismissed>>

Slots == Runs \X (1 .. Children)
Exit(r) == [of |-> <<r, 0>>, mtype |-> 0]
Message(s, n) == [of |-> s, mtype |-> n]
ChildrenOf(r) == {s \in Slots : s[1] = r}
Running(r) == {s \in ChildrenOf(r) : poster[s] = "runs"}

MsgInit ==
  /\ sender = [r \in Runs |-> "off"]
  /\ turn = [r \in Runs |-> 1]
  /\ poster = [s \in Slots |-> "none"]
  /\ posted = [s \in Slots |-> 0]
  /\ msq = <<>>
  /\ receiver = "off"
  /\ received = [s \in Slots |-> 0]
  /\ dismissed = {}

SendGoto(r, label) == sender' = [sender EXCEPT ![r] = label]
Put(message) == Len(msq) < QMax /\ msq' = Append(msq, message)

-----------------------------------------------------------------------------
(* Faulty variants: definitions of the sections below with one programming  *)
(* error each.  MsgSpec uses none of them; PROJECT.json pairs each one with *)
(* the property that rejects it.                                            *)

(* A parent that calls wait once. *)
WaitOnce(r) ==
  /\ sender[r] = "wait"
  /\ Running(r) = {} \/ \E s \in ChildrenOf(r) : poster[s] \in {"ended", "killed"}
  /\ SendGoto(r, "exit")
  /\ UNCHANGED <<turn, poster, posted, msq, receiver, received, dismissed>>

(* A parent that counts the children it meant to have. *)
WaitForAllTurns(r) ==
  /\ sender[r] = "wait"
  /\ \A s \in ChildrenOf(r) : poster[s] \in {"ended", "killed"}
  /\ SendGoto(r, "exit")
  /\ UNCHANGED <<turn, poster, posted, msq, receiver, received, dismissed>>

-----------------------------------------------------------------------------
(* msgSend, the parent.                                                     *)

StartSender(r) ==
  /\ sender[r] = "off" /\ SendGoto(r, "fork")
  /\ UNCHANGED <<turn, poster, posted, msq, receiver, received, dismissed>>

(* One turn of the loop; when fork fails, that child is simply missing.     *)
ForkPoster(r) ==
  /\ sender[r] = "fork"
  /\ poster' \in {poster, [poster EXCEPT ![<<r, turn[r]>>] = "runs"]}
  /\ turn' = [turn EXCEPT ![r] = turn[r] + 1]
  /\ SendGoto(r, IF turn[r] = Children THEN "wait" ELSE "fork")
  /\ UNCHANGED <<posted, msq, receiver, received, dismissed>>

(* while (wait(NULL) != -1) {} *)
WaitForPosters(r) ==
  /\ sender[r] = "wait"
  /\ Running(r) = {}
  /\ SendGoto(r, "exit")
  /\ UNCHANGED <<turn, poster, posted, msq, receiver, received, dismissed>>

PostExit(r) ==
  /\ sender[r] = "exit" /\ SendGoto(r, "done")
  /\ Put(Exit(r))
  /\ UNCHANGED <<turn, poster, posted, receiver, received, dismissed>>

SenderStep(r) == ForkPoster(r) \/ WaitForPosters(r) \/ PostExit(r)

(* The children.  msgsnd waits while the queue is full; behind the last     *)
(* message the child exits.                                                 *)
Post(s) ==
  /\ poster[s] = "runs"
  /\ Put(Message(s, posted[s] + 1))
  /\ posted' = [posted EXCEPT ![s] = @ + 1]
  /\ poster' = [poster EXCEPT ![s] = IF posted[s] + 1 = Messages THEN "ended" ELSE "runs"]
  /\ UNCHANGED <<sender, turn, receiver, received, dismissed>>

(* msgRcv. *)
StartReceiver ==
  /\ receiver = "off" /\ receiver' = "recv"
  /\ UNCHANGED <<sender, turn, poster, posted, msq, received, dismissed>>

Receive ==
  /\ receiver = "recv" /\ msq # <<>>
  /\ msq' = Tail(msq)
  /\ IF Head(msq).mtype = 0
       THEN /\ receiver' = "off"
            /\ dismissed' = dismissed \union {Head(msq).of[1]}
            /\ UNCHANGED received
       ELSE /\ received' = [received EXCEPT ![Head(msq).of] = @ + 1]
            /\ UNCHANGED <<receiver, dismissed>>
  /\ UNCHANGED <<sender, turn, poster, posted>>

(* Any process may be killed. *)
KillSender(r) ==
  /\ sender[r] \in {"fork", "wait", "exit"} /\ SendGoto(r, "killed")
  /\ UNCHANGED <<turn, poster, posted, msq, receiver, received, dismissed>>

KillPoster(s) ==
  /\ poster[s] = "runs"
  /\ poster' = [poster EXCEPT ![s] = "killed"]
  /\ UNCHANGED <<sender, turn, posted, msq, receiver, received, dismissed>>

KillReceiver ==
  /\ receiver = "recv" /\ receiver' = "off"
  /\ UNCHANGED <<sender, turn, poster, posted, msq, received, dismissed>>

-----------------------------------------------------------------------------
MsgNext ==
  \/ \E r \in Runs : StartSender(r) \/ SenderStep(r) \/ KillSender(r)
  \/ \E s \in Slots : Post(s) \/ KillPoster(s)
  \/ StartReceiver \/ Receive \/ KillReceiver

MsgSpec == MsgInit /\ [][MsgNext]_msgVars

-----------------------------------------------------------------------------
(* "Wait for all children to end, then send the message Exit": an Exit that *)
(* waits in the queue or was taken has everything its run posted before it, *)
(* the whole of every child that was not killed.  Whatever other runs there *)
(* are, a receiver that leaves at it leaves nothing of this run behind.     *)
ExitIsLast ==
  LET Before(n, s) == Cardinality({k \in 1 .. n : msq[k].of = s})
      Whole(s, n) ==
        /\ poster[s] # "runs"
        /\ n = posted[s]
        /\ poster[s] = "ended" => n = Messages
  IN  \A r \in Runs : \A s \in ChildrenOf(r) :
        /\ r \in dismissed => Whole(s, received[s])
        /\ \A k \in DOMAIN msq :
             msq[k] = Exit(r) => Whole(s, received[s] + Before(k - 1, s))

(* Nobody waits for ever, whatever fork failed and whatever process was     *)
(* killed: a run of msgSend ends unless the queue is full and nobody        *)
(* receives, and msgRcv ends unless no Exit is on its way.                  *)
MessagesEnd ==
  LET Busy == {r \in Runs : sender[r] \in {"fork", "wait", "exit"}}
  IN  /\ []<>(Busy = {} \/ (receiver = "off" /\ Len(msq) = QMax))
      /\ []<>(receiver = "off" \/ (Busy = {} /\ msq = <<>>))
=============================================================================
