---------------------------- MODULE SigningLedger ----------------------------
(* What the controller promises about one workflow, without labels, caches or *)
(* retries: artifacts are signed while their pod is open, a pod is closed     *)
(* once and as Completed only when its artifact is signed, and one verdict is *)
(* given, after which nothing is signed or closed any more.                   *)
CONSTANT Pods

VARIABLES
  signed,  \* the pods whose artifact has a signature
  outcome, \* how each pod was closed
  verdict  \* the workflow's final status

vars == <<signed, outcome, verdict>>

Outcomes == {"Completed", "Error", "Skipped"}
Verdicts == {"Completed", "Error"}

TypeOK == /\ signed \subseteq Pods
          /\ outcome \in [Pods -> Outcomes \cup {"Open"}]
          /\ verdict \in Verdicts \cup {"Open"}

Init == /\ signed = {}
        /\ outcome = [p \in Pods |-> "Open"]
        /\ verdict = "Open"

Sign(p) == /\ verdict = "Open" /\ outcome[p] = "Open"
           /\ signed' = signed \cup {p}
           /\ UNCHANGED <<outcome, verdict>>

Close(p, result) == /\ verdict = "Open" /\ outcome[p] = "Open"
                    /\ result = "Completed" => p \in signed
                    /\ outcome' = [outcome EXCEPT ![p] = result]
                    /\ UNCHANGED <<signed, verdict>>

\* An Error is given for a pod closed as Error; Completed after some pod closed.
Decide(result) == /\ verdict = "Open"
                  /\ \E p \in Pods : outcome[p] # "Open"
                  /\ result = "Error" => \E p \in Pods : outcome[p] = "Error"
                  /\ verdict' = result
                  /\ UNCHANGED <<signed, outcome>>

Next == \/ \E p \in Pods : Sign(p)
        \/ \E p \in Pods, result \in Outcomes : Close(p, result)
        \/ \E result \in Verdicts : Decide(result)

Spec == Init /\ [][Next]_vars
==============================================================================
