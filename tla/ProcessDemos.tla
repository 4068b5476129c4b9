---------------------------- MODULE ProcessDemos ----------------------------
(***************************************************************************)
(* The programs about processes: the forking server, the process tree of   *)
(* its client, and the demos of fork, vfork, system and signals.  They have*)
(* nothing in common but the scheduler, and are checked in one run: a      *)
(* behaviour is one of the demos.                                          *)
(***************************************************************************)
EXTENDS ForkServer, ChildProcesses, DoubleFork

VARIABLE demo   \* the program that runs

demoVars == <<demo, vars, kidVars, treeVars>>

DemoInit ==
  /\ demo \in {"tcpSvr", "tcpClient", "children"}
  /\ Init /\ TreeInit /\ KidInit

InServer(A) == demo = "tcpSvr" /\ A /\ UNCHANGED <<demo, kidVars, treeVars>>
InTree(A) == demo = "tcpClient" /\ A /\ UNCHANGED <<demo, vars, kidVars>>
InKids(A) == demo = "children" /\ A /\ UNCHANGED <<demo, vars, treeVars>>

DemoNext == InServer(Next) \/ InTree(TreeNext) \/ InKids(KidNext)

DemoSpec == DemoInit /\ [][DemoNext]_demoVars

(* Every process runs when it can, a child that has nothing to do exits,    *)
(* and an alarm that is set rings.  No client of the server has to connect, *)
(* to complete a message or to leave; nobody has to press Ctrl-C.           *)
DemoFairSpec ==
  /\ DemoSpec
  /\ WF_demoVars(InServer(ParentStep))
  /\ WF_demoVars(InServer(HandlerStep))
  /\ \A c \in Conns : WF_demoVars(InServer(ChildStep(c)))
  /\ WF_demoVars(InKids(MainThread))
  /\ WF_demoVars(InKids(Handlers))
  /\ \A i \in Kids : WF_demoVars(InKids(KidExits(i)))
=============================================================================
