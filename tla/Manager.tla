------------------------------- MODULE Manager -------------------------------
(* The processes of the controller manager: main sets one up, waits for the   *)
(* lease, runs the workers and ends with them. Around it are the Deployment   *)
(* of config/manager (one replica, --leader-elect, a rolling update), which   *)
(* runs two processes while it replaces one, the kubelet, which restarts what *)
(* has ended, and the leader election of client-go. That Reconciler has one   *)
(* worker and that its crash starts it afresh is what is checked here.        *)
EXTENDS Naturals, FiniteSets

CONSTANTS
  Managers,       \* the pods the Deployment may make
  Nobody, Ended,  \* no holder of the lease; one whose process has ended
  LeaseDuration,  \* ticks after which an unchanged lease may be taken
  RenewDeadline,  \* ticks without a renewal after which a leader gives up
  MaxFaults       \* bound: killed processes and lost connections

(* client-go refuses other durations. The identity in the lease is made by    *)
(* every process anew.                                                        *)
ASSUME ManagerAssumption ==
  /\ IsFiniteSet(Managers) /\ Managers # {}
  /\ Nobody \notin Managers /\ Ended \notin Managers
  /\ RenewDeadline \in Nat \ {0} /\ LeaseDuration \in Nat
  /\ RenewDeadline < LeaseDuration
  /\ MaxFaults \in Nat

VARIABLES
  pc,        \* the process in every pod
  latest,    \* the pod of the Deployment's current template
  holder,    \* the process named in the lease
  age,       \* ticks since a leader renewed, a candidate saw the lease change
  changed,   \* the lease changed since the candidate looked
  cut,       \* the process does not reach the API server
  configMap, \* the ConfigMap exists
  faults     \* faults left

lease == <<holder, age, changed>>
vars == <<pc, latest, lease, cut, configMap, faults>>

------------------------------------------------------------------------------
Goto(m, phase) == pc' = [pc EXCEPT ![m] = phase]

(* The workers run from the moment the process leads until it ends, also      *)
(* while they finish what they are at after a SIGTERM.                        *)
Active(m) == pc[m] \in {"Leading", "Stopping"}

\* Mutant: ready only when the workers run.
ReadyLeading(m) == pc[m] = "Leading"
\* readyz is a Ping: ready as soon as the manager is started.
Ready(m) == pc[m] \in {"Standby", "Leading"}

Changed(m) == changed' = [n \in Managers |-> n # m \/ changed[n]]
Look(m) == /\ age' = [age EXCEPT ![m] = 0]
           /\ changed' = [changed EXCEPT ![m] = FALSE]

\* The lease of a process that has ended is nobody's to renew.
Abandon(m) == holder' = IF holder = m THEN Ended ELSE holder

\* Mutant: the error is logged and the process runs on without a controller.
AfterSetupFailsLogged == "NoController"
\* A panic or os.Exit(1): the kubelet starts the container again.
AfterSetupFails == "Waiting"

\* Mutant: LeaderElectionReleaseOnCancel, but with workers that still run.
LeaseOnStopReleased(m) == IF holder = m THEN Nobody ELSE holder
\* LeaderElectionReleaseOnCancel is unset: stopping leaves the lease alone.
LeaseOnStop(m) == holder
------------------------------------------------------------------------------
(* main, up to mgr.Start.                                                     *)
Start(m) == \* the kubelet runs the container
  /\ pc[m] = "Waiting"
  /\ Goto(m, "Setup")
  /\ UNCHANGED <<latest, lease, cut, configMap, faults>>

SetupWithManager(m) ==
  /\ pc[m] = "Setup"
  /\ IF configMap /\ ~ cut[m] THEN Goto(m, "Standby")
                              ELSE pc' = [pc EXCEPT ![m] = AfterSetupFails]
  /\ age' = [age EXCEPT ![m] = 0]
  /\ changed' = [changed EXCEPT ![m] = TRUE]
  /\ UNCHANGED <<latest, holder, cut, configMap, faults>>

(* mgr.Start with LeaderElection: the workers wait until the lease is theirs. *)
Acquire(m) ==
  /\ pc[m] = "Standby" /\ ~ cut[m]
  /\ \/ holder = Nobody
     \/ ~ changed[m] /\ age[m] = LeaseDuration
  /\ Goto(m, "Leading")
  /\ holder' = m
  /\ age' = [age EXCEPT ![m] = 0]
  /\ Changed(m)
  /\ UNCHANGED <<latest, cut, configMap, faults>>

Observe(m) == \* another process has renewed or taken the lease
  /\ pc[m] = "Standby" /\ ~ cut[m] /\ changed[m] /\ holder # Nobody
  /\ Look(m)
  /\ UNCHANGED <<pc, latest, holder, cut, configMap, faults>>

Renew(m) ==
  /\ Active(m) /\ age[m] < RenewDeadline /\ ~ cut[m] /\ holder = m
  /\ age' = [age EXCEPT ![m] = 0]
  /\ Changed(m)
  /\ UNCHANGED <<pc, latest, holder, cut, configMap, faults>>

LoseLease(m) == \* mgr.Start returns an error: main exits, workers and all
  /\ pc[m] = "Leading" /\ age[m] = RenewDeadline
  /\ Goto(m, "Waiting")
  /\ Abandon(m)
  /\ UNCHANGED <<latest, age, changed, cut, configMap, faults>>

(* SIGTERM, from the Deployment that has a ready pod to replace this one: a   *)
(* leader first ends its workers, a process that does not lead just ends.     *)
Terminate(m) ==
  /\ m # latest /\ Ready(latest) /\ pc[m] \notin {"None", "Stopping"}
  /\ Goto(m, IF pc[m] = "Leading" THEN "Stopping" ELSE "None")
  /\ holder' = IF pc[m] = "Leading" THEN LeaseOnStop(m) ELSE holder
  /\ UNCHANGED <<latest, age, changed, cut, configMap, faults>>

Stopped(m) == \* the workers have ended, or terminationGracePeriodSeconds has
  /\ pc[m] = "Stopping"
  /\ Goto(m, "None")
  /\ Abandon(m)
  /\ UNCHANGED <<latest, age, changed, cut, configMap, faults>>
------------------------------------------------------------------------------
(* The cluster.                                                               *)
Update == \* a new template, and its pod beside the old one
  /\ \A m \in Managers : m # latest => pc[m] = "None"
  /\ \E m \in Managers \ {latest} :
       /\ latest' = m
       /\ Goto(m, "Waiting")
  /\ UNCHANGED <<lease, cut, configMap, faults>>

ConfigMap ==
  /\ configMap' = ~ configMap
  /\ UNCHANGED <<pc, latest, lease, cut, faults>>

Kill(m) ==
  /\ pc[m] \in {"Setup", "Standby", "Leading", "Stopping"}
  /\ faults > 0 /\ faults' = faults - 1
  /\ Goto(m, IF pc[m] = "Stopping" THEN "None" ELSE "Waiting")
  /\ Abandon(m)
  /\ UNCHANGED <<latest, age, changed, cut, configMap>>

Disconnect(m) ==
  /\ pc[m] # "None" /\ ~ cut[m]
  /\ faults > 0 /\ faults' = faults - 1
  /\ cut' = [cut EXCEPT ![m] = TRUE]
  /\ UNCHANGED <<pc, latest, lease, configMap>>

Reconnect(m) ==
  /\ cut[m]
  /\ cut' = [cut EXCEPT ![m] = FALSE]
  /\ UNCHANGED <<pc, latest, lease, configMap, faults>>

(* Time: a connected leader renews in time, the answer to a renewal takes     *)
(* less than a tick, and the timer that ends a leader fires before the next   *)
(* one. A stopping process no longer listens to that timer.                   *)
Tick ==
  /\ \A m \in Managers : pc[m] = "Leading" =>
       age[m] < IF cut[m] THEN RenewDeadline ELSE RenewDeadline - 1
  /\ age' = [m \in Managers |->
               IF pc[m] = "Standby" \/ Active(m)
               THEN IF age[m] < LeaseDuration THEN age[m] + 1 ELSE age[m]
               ELSE 0]
  /\ UNCHANGED <<pc, latest, holder, changed, cut, configMap, faults>>
------------------------------------------------------------------------------
Init ==
  /\ latest \in Managers
  /\ pc = [m \in Managers |-> IF m = latest THEN "Waiting" ELSE "None"]
  /\ holder = Nobody
  /\ age = [m \in Managers |-> 0]
  /\ changed = [m \in Managers |-> TRUE]
  /\ cut = [m \in Managers |-> FALSE]
  /\ configMap \in BOOLEAN
  /\ faults = MaxFaults

Process(m) == \/ SetupWithManager(m) \/ Acquire(m) \/ Observe(m) \/ Renew(m)
              \/ LoseLease(m) \/ Stopped(m)
Cluster(m) == Start(m) \/ Terminate(m) \/ Reconnect(m)

Next == \/ \E m \in Managers : \/ Process(m) \/ Cluster(m)
                               \/ Kill(m) \/ Disconnect(m)
        \/ Update \/ ConfigMap \/ Tick

Spec == Init /\ [][Next]_vars

(* Processes run, the kubelet and the Deployment do their work, connections   *)
(* come back and time passes. Nobody has to update, or to create a ConfigMap. *)
Fairness ==
  /\ WF_vars(Tick)
  /\ \A m \in Managers :
       /\ WF_vars(SetupWithManager(m)) /\ WF_vars(Acquire(m))
       /\ WF_vars(Observe(m)) /\ WF_vars(Renew(m)) /\ WF_vars(LoseLease(m)) /\ WF_vars(Stopped(m))
       /\ WF_vars(Start(m)) /\ WF_vars(Terminate(m)) /\ WF_vars(Reconnect(m))
FairSpec == Spec /\ Fairness
------------------------------------------------------------------------------
(* main.go:65, "there is only one active controller manager": through rolling *)
(* updates, lost connections and crashes at most one process has workers, but *)
(* for one that was told to stop, lost its connection since and is at its last*)
(* reconcile when another may take the lease.                                 *)
Entitled(m) == Active(m) /\ ~ (pc[m] = "Stopping" /\ age[m] >= RenewDeadline)
OneActive == \A m, n \in Managers : Entitled(m) /\ Entitled(n) => m = n

(* The pod of an update is ready before it leads, so a rolling update, which  *)
(* stops the old pod only then, does not wait for a lease the old pod holds.  *)
Old == {m \in Managers \ {latest} : pc[m] # "None"}
UpdatesComplete == <>[]configMap => [](Old # {} => <>(Old = {}))

(* However a process ends - at a missing ConfigMap, a lost lease, a kill in   *)
(* any phase - workflows do not wait for ever: while there is a ConfigMap and *)
(* no other update, some process leads again.                                 *)
Calm == <>[]configMap /\ \E m \in Managers : <>[](latest = m)
AlwaysActiveAgain == Calm => []<>(\E m \in Managers : pc[m] = "Leading")
==============================================================================
