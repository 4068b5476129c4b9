--------------------------- MODULE ChildProcesses ---------------------------
(***************************************************************************)
(* The programs that show how children are made and reaped: do_fork,       *)
(* do_vfork and do_system of 4/createprocess, 4/forkDemo and 4/signalDemo. *)
(* Each forks a few children that exit at once.  They differ in how they   *)
(* learn of the end of a child: a SIGCHLD handler that waits, SIGCHLD      *)
(* ignored, waitpid, or a handler that does nothing but end a pause().     *)
(*                                                                         *)
(* SIGCHLD is one pending bit.  A handler interrupts main anywhere.        *)
(***************************************************************************)
EXTENDS Naturals, FiniteSets

VARIABLES
  prog,       \* the program
  main,       \* where its main thread stands
  forks,      \* how many turns of the fork loop are done
  kid,        \* its children: "none", "runs", "zombie" or "reaped"
  chld,       \* SIGCHLD is pending
  inHandler,  \* the handler of do_fork waits for children
  clock       \* alarm() of signalDemo: "off", "set", "rung"

kidVars == <<prog, main, forks, kid, chld, inHandler, clock>>

Programs == {"do_fork", "do_vfork", "do_system", "forkDemo", "signalDemo"}
Kids == 1 .. 3
Turns == [do_fork |-> 2, do_vfork |-> 1, do_system |-> 1, forkDemo |-> 1, signalDemo |-> 3]
Handles == prog \in {"do_fork", "signalDemo"}
KidsLeft == {i \in Kids : kid[i] \in {"runs", "zombie"}}

KidInit ==
  /\ prog = "none" /\ main = "off" /\ forks = 0
  /\ kid = [i \in Kids |-> "none"]
  /\ chld = FALSE /\ inHandler = FALSE
  /\ clock = "off"

(* Where main stands behind its last fork. *)
AfterForks ==
  CASE prog = "do_fork" -> "return"
    [] prog = "do_vfork" -> "suspended"
    [] prog \in {"do_system", "forkDemo"} -> "waitpid"
    [] prog = "signalDemo" -> "alarm"

(* Init adopts what a process leaves behind, and reaps it.                  *)
Orphan(k) == [i \in Kids |-> IF k[i] = "zombie" THEN "reaped" ELSE k[i]]

-----------------------------------------------------------------------------
(* Faulty variants: definitions of the sections below with one programming  *)
(* error each.  KidSpec uses none of them; PROJECT.json pairs each one with *)
(* the property that rejects it.                                            *)

(* A handler that calls wait once for each signal. *)
CollectOne ==
  /\ inHandler
  /\ \E i \in Kids : kid[i] = "zombie" /\ kid' = [kid EXCEPT ![i] = "reaped"]
  /\ inHandler' = FALSE
  /\ UNCHANGED <<prog, main, forks, chld, clock>>

(* A handler whose loop does not end when wait fails. *)
NeverDone == FALSE

-----------------------------------------------------------------------------
StartProgram ==
  /\ main = "off" /\ main' = "fork"
  /\ prog' \in Programs
  /\ UNCHANGED <<forks, kid, chld, inHandler, clock>>

MainGoes(next) ==
  /\ main' = next
  /\ IF next = "ended"
       THEN kid' = Orphan(kid) /\ chld' = FALSE
       ELSE UNCHANGED <<kid, chld>>

(* fork, or vfork; main is suspended behind vfork until the child exits.    *)
ForkKid ==
  /\ main = "fork" /\ ~ inHandler
  /\ forks' = forks + 1
  /\ main' = IF forks' = Turns[prog] THEN AfterForks ELSE "fork"
  /\ kid' = [kid EXCEPT ![forks'] = "runs"]
  /\ UNCHANGED <<prog, chld, inHandler, clock>>

(* fork fails: signalDemo does not look, the others give up. *)
ForkKidFails ==
  /\ main = "fork" /\ ~ inHandler
  /\ forks' = forks + 1
  /\ main' = IF prog # "signalDemo" THEN "return"
             ELSE IF forks' = Turns[prog] THEN AfterForks ELSE "fork"
  /\ UNCHANGED <<prog, kid, chld, inHandler, clock>>

Return ==
  /\ main = "return" /\ ~ inHandler
  /\ MainGoes("ended")
  /\ UNCHANGED <<prog, forks, inHandler, clock>>

(* Behind vfork: the child has exited. *)
Resume ==
  /\ main = "suspended" /\ kid[1] # "runs"
  /\ MainGoes("ended")
  /\ UNCHANGED <<prog, forks, inHandler, clock>>

WaitForKid ==
  /\ main = "waitpid" /\ kid[1] = "zombie"
  /\ MainGoes("ended")
  /\ UNCHANGED <<prog, forks, inHandler, clock>>

(* alarm(10); pause(). *)
SetAlarm ==
  /\ main = "alarm"
  /\ clock' = "set"
  /\ MainGoes("toPause")
  /\ UNCHANGED <<prog, forks, inHandler>>

Pause ==
  /\ main = "toPause"
  /\ MainGoes("pause")
  /\ UNCHANGED <<prog, forks, inHandler, clock>>

MainThread == ForkKid \/ ForkKidFails \/ Return \/ Resume \/ WaitForKid \/ SetAlarm \/ Pause

-----------------------------------------------------------------------------
(* The handler of do_fork: wait() until it fails.                           *)
EnterKidHandler ==
  /\ prog = "do_fork" /\ main # "ended" /\ ~ inHandler
  /\ chld /\ chld' = FALSE
  /\ inHandler' = TRUE
  /\ UNCHANGED <<prog, main, forks, kid, clock>>

Collect ==
  /\ inHandler
  /\ \E i \in Kids : kid[i] = "zombie" /\ kid' = [kid EXCEPT ![i] = "reaped"]
  /\ UNCHANGED <<prog, main, forks, chld, inHandler, clock>>

LeaveKidHandler ==
  /\ inHandler /\ KidsLeft = {}
  /\ inHandler' = FALSE
  /\ UNCHANGED <<prog, main, forks, kid, chld, clock>>

(* The handler of signalDemo prints and returns; pause() returns behind it. *)
Woken == IF main = "pause" THEN MainGoes("ended") ELSE MainGoes(main)

SignalChld ==
  /\ prog = "signalDemo" /\ main # "ended"
  /\ chld
  /\ IF main = "pause" THEN MainGoes("ended") ELSE chld' = FALSE /\ UNCHANGED <<main, kid>>
  /\ UNCHANGED <<prog, forks, inHandler, clock>>

SignalAlarm ==
  /\ clock = "set" /\ main # "ended"
  /\ clock' = "rung"
  /\ Woken
  /\ UNCHANGED <<prog, forks, inHandler>>

Handlers == EnterKidHandler \/ Collect \/ LeaveKidHandler \/ SignalChld \/ SignalAlarm

-----------------------------------------------------------------------------
(* A child exits: it is gone at once when SIGCHLD is ignored or its parent  *)
(* has ended.                                                               *)
KidExits(i) ==
  /\ kid[i] = "runs"
  /\ kid' = [kid EXCEPT ![i] =
       IF prog = "do_vfork" \/ main = "ended" THEN "reaped" ELSE "zombie"]
  /\ chld' = (chld \/ (Handles /\ main # "ended"))
  /\ UNCHANGED <<prog, main, forks, inHandler, clock>>

KillMain ==
  /\ main \notin {"off", "ended"}
  /\ MainGoes("ended")
  /\ inHandler' = FALSE
  /\ UNCHANGED <<prog, forks, clock>>

KidNext == StartProgram \/ MainThread \/ Handlers \/ (\E i \in Kids : KidExits(i)) \/ KillMain

KidSpec == KidInit /\ [][KidNext]_kidVars

-----------------------------------------------------------------------------
(* Every child that exited is reaped or somebody is about to reap it, for   *)
(* every way of doing so; only signalDemo, whose handler does not wait,     *)
(* leaves its zombies to init.                                              *)
ChildrenReaped ==
  \A i \in Kids :
    kid[i] = "zombie" /\ prog # "signalDemo" => chld \/ inHandler \/ main = "waitpid"

(* Every program ends once its children have: no handler waits for a child  *)
(* that does not come, nobody waits for a child that was reaped elsewhere.  *)
(* Only signalDemo may sleep for ever: when the alarm and every SIGCHLD     *)
(* came before its pause().                                                 *)
ProgramEnds ==
  []<>(main \in {"off", "ended"} \/ (main = "pause" /\ clock = "rung" /\ ~ chld))
=============================================================================
