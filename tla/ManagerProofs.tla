----------------------------- MODULE ManagerProofs -----------------------------
(* At most one process has workers, for every number of pods, every length of *)
(* the lease and any number of updates, kills and lost connections.           *)
EXTENDS Manager, TLAPS

Phases == {"None", "Waiting", "Setup", "Standby", "Leading", "Stopping"}

TypeInv ==
  /\ pc \in [Managers -> Phases]
  /\ latest \in Managers
  /\ holder \in Managers \cup {Nobody, Ended}
  /\ age \in [Managers -> 0 .. LeaseDuration]
  /\ changed \in [Managers -> BOOLEAN]
  /\ cut \in [Managers -> BOOLEAN]
  /\ configMap \in BOOLEAN
  /\ faults \in Nat

(* A leader gives up in time, and who may work holds the lease.               *)
LeaderInv ==
  \A m \in Managers :
    /\ pc[m] = "Leading" => age[m] <= RenewDeadline
    /\ Entitled(m) => holder = m

(* What a candidate saw is no older than the last renewal of the lease.       *)
CandidateInv ==
  \A m, n \in Managers :
    Active(m) /\ holder = m /\ pc[n] = "Standby" /\ ~ changed[n]
      => age[n] <= age[m]

LeaseInv == LeaderInv /\ CandidateInv
------------------------------------------------------------------------------
(* Every step of the processes and of the cluster keeps the types.            *)
LEMMA ManagerInit == Init => TypeInv /\ LeaseInv
BY ManagerAssumption
DEF Init, TypeInv, LeaseInv, LeaderInv, CandidateInv, Phases, Entitled, Active

LEMMA ManagerTypes == TypeInv /\ [Next]_vars => TypeInv'
<1> SUFFICES ASSUME TypeInv, [Next]_vars PROVE TypeInv'
  OBVIOUS
<1> USE ManagerAssumption DEF TypeInv, Phases, Goto, lease, Changed, Look, Abandon
<1>1. ASSUME NEW m \in Managers, Start(m) PROVE TypeInv'
  BY <1>1 DEF Start
<1>2. ASSUME NEW m \in Managers, SetupWithManager(m) PROVE TypeInv'
  BY <1>2 DEF SetupWithManager, AfterSetupFails
<1>3. ASSUME NEW m \in Managers, Acquire(m) PROVE TypeInv'
  BY <1>3 DEF Acquire
<1>4. ASSUME NEW m \in Managers, Observe(m) PROVE TypeInv'
  BY <1>4 DEF Observe
<1>5. ASSUME NEW m \in Managers, Renew(m) PROVE TypeInv'
  BY <1>5 DEF Renew
<1>6. ASSUME NEW m \in Managers, LoseLease(m) PROVE TypeInv'
  BY <1>6 DEF LoseLease
<1>7. ASSUME NEW m \in Managers, Terminate(m) PROVE TypeInv'
  BY <1>7 DEF Terminate, LeaseOnStop
<1>8. ASSUME NEW m \in Managers, Stopped(m) PROVE TypeInv'
  BY <1>8 DEF Stopped
<1>9. ASSUME NEW m \in Managers, Kill(m) PROVE TypeInv'
  BY <1>9 DEF Kill
<1>10. ASSUME NEW m \in Managers, Disconnect(m) PROVE TypeInv'
  BY <1>10 DEF Disconnect
<1>11. ASSUME NEW m \in Managers, Reconnect(m) PROVE TypeInv'
  BY <1>11 DEF Reconnect
<1>12. CASE Update
  BY <1>12 DEF Update
<1>13. CASE ConfigMap \/ UNCHANGED vars
  BY <1>13 DEF ConfigMap, vars
<1>14. CASE Tick
  BY <1>14 DEF Tick, Active
<1> QED
  BY <1>1, <1>2, <1>3, <1>4, <1>5, <1>6, <1>7, <1>8, <1>9, <1>10, <1>11,
     <1>12, <1>13, <1>14
  DEF Next, Process, Cluster

(* A candidate takes the lease only when LeaseDuration has passed since it    *)
(* last saw it change, and so since its holder last renewed it: the holder    *)
(* gave up RenewDeadline after that renewal, unless it was told to stop.      *)
LEMMA ManagerLease == TypeInv /\ LeaseInv /\ [Next]_vars => LeaseInv'
<1> SUFFICES ASSUME TypeInv, LeaseInv, [Next]_vars PROVE LeaseInv'
  OBVIOUS
<1> USE ManagerAssumption
    DEF TypeInv, Phases, LeaseInv, LeaderInv, CandidateInv, Entitled, Active,
        Goto, lease, Changed, Look, Abandon
<1>1. ASSUME NEW m \in Managers, Start(m) PROVE LeaseInv'
  BY <1>1 DEF Start
<1>2. ASSUME NEW m \in Managers, SetupWithManager(m) PROVE LeaseInv'
  BY <1>2 DEF SetupWithManager, AfterSetupFails
<1>3. ASSUME NEW m \in Managers, Acquire(m) PROVE LeaseInv'
  <2>1. ASSUME NEW n \in Managers \ {m} PROVE ~ Entitled(n)
    BY <1>3, <2>1 DEF Acquire
  <2>2. /\ pc' = [pc EXCEPT ![m] = "Leading"] /\ holder' = m
        /\ age' = [age EXCEPT ![m] = 0]
        /\ \A n \in Managers \ {m} : changed'[n]
    BY <1>3 DEF Acquire
  <2>3. LeaderInv'
    BY <2>1, <2>2
  <2>4. CandidateInv'
    BY <2>2
  <2>5. QED
    BY <2>3, <2>4
<1>4. ASSUME NEW m \in Managers, Observe(m) \/ Renew(m) PROVE LeaseInv'
  <2>1. CASE Observe(m)
    BY <2>1 DEF Observe
  <2>2. CASE Renew(m)
    <3>1. LeaderInv'
      BY <2>2 DEF Renew
    <3>2. CandidateInv'
      BY <2>2 DEF Renew
    <3>3. QED
      BY <3>1, <3>2
  <2>3. QED
    BY <1>4, <2>1, <2>2
<1>5. ASSUME NEW m \in Managers, LoseLease(m) \/ Stopped(m) PROVE LeaseInv'
  BY <1>5 DEF LoseLease, Stopped
<1>6. ASSUME NEW m \in Managers, Terminate(m) PROVE LeaseInv'
  BY <1>6 DEF Terminate, LeaseOnStop
<1>7. ASSUME NEW m \in Managers, Kill(m) PROVE LeaseInv'
  BY <1>7 DEF Kill
<1>8. ASSUME NEW m \in Managers, Disconnect(m) \/ Reconnect(m) PROVE LeaseInv'
  BY <1>8 DEF Disconnect, Reconnect
<1>9. CASE Update
  BY <1>9 DEF Update
<1>10. CASE ConfigMap \/ UNCHANGED vars
  BY <1>10 DEF ConfigMap, vars
<1>11. CASE Tick
  BY <1>11 DEF Tick
<1> QED
  BY <1>1, <1>2, <1>3, <1>4, <1>5, <1>6, <1>7, <1>8, <1>9, <1>10, <1>11
  DEF Next, Process, Cluster

(* main.go:65, "there is only one active controller manager", through any     *)
(* number of rolling updates, kills and lost connections.                     *)
THEOREM OneManagerActive == Spec => []OneActive
<1>1. LeaseInv => OneActive
  BY DEF LeaseInv, LeaderInv, OneActive
<1> QED
  BY ManagerInit, ManagerTypes, ManagerLease, <1>1, PTL DEF Spec
==============================================================================
