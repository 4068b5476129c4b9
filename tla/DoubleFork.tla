----------------------------- MODULE DoubleFork -----------------------------
(***************************************************************************)
(* The process tree of 7/tcpClient.  A launcher starts client after client;*)
(* to leave no zombie it forks a process in the middle that forks the      *)
(* client and exits, so that init adopts the client.  When the second fork *)
(* fails the middle process does not exit: it goes on with the loop as a   *)
(* launcher of its own, while its parent waits for it.                     *)
(*                                                                         *)
(* Whoever waits does nothing else, so the launchers form a stack with the *)
(* running process on top.                                                 *)
(***************************************************************************)
EXTENDS Naturals, Sequences, SequencesExt, FiniteSetsExt

CONSTANTS
  ClientCount,   \* clientCount
  ForkLimit,     \* how many processes there may be (ulimit -u)
  Foreign        \* how many of them may at times belong to others

ASSUME DoubleForkAssumption ==
  ClientCount \in Nat /\ ForkLimit \in Nat \ {0} /\ Foreign \in 0 .. ForkLimit

VARIABLES
  tree,       \* the launchers and the middle process: their i and where they stand
  living,     \* how many clients run
  launched,   \* how many clients each turn i started
  orphaned    \* how often the second fork failed in each turn

treeVars == <<tree, living, launched, orphaned>>

TurnsOf == 0 .. ClientCount - 1
Launcher(i) == [i |-> i, at |-> "fork"]
Top == Last(tree)
OnTop(process) == ReplaceAt(tree, Len(tree), process)

TreeInit ==
  /\ tree = <<Launcher(0)>>
  /\ living = 0
  /\ launched = [i \in TurnsOf |-> 0]
  /\ orphaned = [i \in TurnsOf |-> 0]

Running == Len(tree) + living
MayFork == Running < ForkLimit
MayFail == Running + Foreign >= ForkLimit

(* The process on top exits and its parent, if there is one, returns from   *)
(* waitpid into its next turn.                                              *)
TopExits ==
  tree' = IF Len(tree) = 1 THEN <<>>
          ELSE LET below == Front(tree)
               IN  ReplaceAt(below, Len(below), Launcher(Last(below).i + 1))

-----------------------------------------------------------------------------
(* Faulty variants: definitions of the sections below with one programming  *)
(* error each.  TreeSpec uses none of them; PROJECT.json pairs each one     *)
(* with the property that rejects it.                                       *)

(* The i-- behind a failed fork is missing. *)
GiveUpTurn ==
  /\ tree # <<>> /\ Top.at = "fork" /\ Top.i < ClientCount
  /\ MayFail
  /\ tree' = OnTop(Launcher(Top.i + 1))
  /\ UNCHANGED <<living, launched, orphaned>>

-----------------------------------------------------------------------------
(* The first fork: the launcher waits for the process in the middle.        *)
ForkMiddle ==
  /\ tree # <<>> /\ Top.at = "fork" /\ Top.i < ClientCount
  /\ MayFork
  /\ tree' = Append(OnTop([Top EXCEPT !.at = "wait"]), [i |-> Top.i, at |-> "middle"])
  /\ UNCHANGED <<living, launched, orphaned>>

(* It fails: i--, sleep, and the same turn again. *)
ForkMiddleFails ==
  /\ tree # <<>> /\ Top.at = "fork" /\ Top.i < ClientCount
  /\ MayFail
  /\ UNCHANGED treeVars

(* The second fork: the client starts and the middle process exits. *)
ForkClient ==
  /\ tree # <<>> /\ Top.at = "middle"
  /\ MayFork
  /\ launched' = [launched EXCEPT ![Top.i] = @ + 1]
  /\ living' = living + 1
  /\ TopExits
  /\ UNCHANGED orphaned

(* It fails: the process in the middle becomes a launcher. *)
ForkClientFails ==
  /\ tree # <<>> /\ Top.at = "middle"
  /\ MayFail
  /\ orphaned' = [orphaned EXCEPT ![Top.i] = @ + 1]
  /\ tree' = OnTop(Launcher(Top.i + 1))
  /\ UNCHANGED <<living, launched>>

(* The loop is through: the launcher returns from main. *)
LoopEnds ==
  /\ tree # <<>> /\ Top.at = "fork" /\ Top.i = ClientCount
  /\ TopExits
  /\ UNCHANGED <<living, launched, orphaned>>

(* A client ends; init reaps it. *)
ClientEnds ==
  /\ living > 0 /\ living' = living - 1
  /\ UNCHANGED <<tree, launched, orphaned>>

TreeNext ==
  \/ ForkMiddle \/ ForkMiddleFails \/ ForkClient \/ ForkClientFails
  \/ LoopEnds \/ ClientEnds

TreeSpec == TreeInit /\ [][TreeNext]_treeVars

-----------------------------------------------------------------------------
(* How many clients the program starts: when every process has ended, each  *)
(* turn was taken once by the first launcher and once more by every process *)
(* that a failed second fork of an earlier turn left in the loop, and each  *)
(* of them started a client or failed itself.  So without such a failure    *)
(* there are clientCount clients, one for each turn.                        *)
ClientsCounted ==
  tree = <<>> =>
    \A i \in TurnsOf :
      launched[i] + orphaned[i] =
        1 + MapThenSumSet(LAMBDA j : orphaned[j], 0 .. i - 1)
=============================================================================
