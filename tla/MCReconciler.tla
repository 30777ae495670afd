----------------------------- MODULE MCReconciler ----------------------------
(* Small instances of Reconciler.                                             *)
EXTENDS Reconciler

Budget(crash, call, conflict, gone) ==
  [k \in FaultKinds |->
     CASE k = "crash" -> crash [] k = "call" -> call
       [] k = "conflict" -> conflict [] OTHER -> gone]

NoFaults == Budget(0, 0, 0, 0)
AllFaults == Budget(1, 1, 1, 1)
OneCrash == Budget(1, 0, 0, 0)
OneConflict == Budget(0, 0, 1, 0)
CrashAndCall == Budget(1, 1, 0, 0)
==============================================================================
