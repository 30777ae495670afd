----------------------------- MODULE Reconciler -----------------------------
(* The controller that secures the artifacts of one Argo workflow: the        *)
(* Reconcile handler and the pod reconciler it calls, step by step between    *)
(* its calls to the API server, the registry and the signing services, beside *)
(* the Argo controller, the kubelet, the informers and the user. One worker   *)
(* runs (MaxConcurrentReconciles is left at 1 by SetupWithManager).           *)
EXTENDS KubeStore, FiniteSets, SequencesExt

CONSTANTS
  Pods,           \* the pods of the workflow's Pod nodes
  WithArtifact,   \* those whose outputs name an OCI image by digest
  SbomGeneration, \* cfg.SbomGeneration
  OddPhases,      \* phases other than Pending/Running a node may start in
  FreshReads,     \* TRUE: a read waits for the informer
  MaxLag,         \* bound: versions an informer may be behind
  MaxFaults       \* bound: faults of each kind

FaultKinds == {"crash", "call", "conflict", "gone"}

ASSUME ReconcilerAssumption ==
  /\ IsFiniteSet(Pods)
  /\ WithArtifact \subseteq Pods
  /\ SbomGeneration \in BOOLEAN
  /\ OddPhases \subseteq {"Omitted", "Unknown"}
  /\ FreshReads \in BOOLEAN
  /\ MaxLag \in Nat \ {0}
  /\ MaxFaults \in [FaultKinds -> Nat]

VARIABLES
  wfStore,      \* the versions of the Workflow object
  podStore,     \* the versions of every Pod object
  published,    \* pods whose artifact has a signature in its registry
  attestations, \* provenance attestations in the registry: pod, subjects
  faults,       \* faults left of each kind
  queued,       \* the workflow is in the controller's workqueue
  pc,           \* where the worker is
  snap,         \* the in-memory Workflow
  order,        \* PodsStatus, in the order GetPodInfo found the nodes
  i,            \* the pod a loop over PodsStatus is at
  mem,          \* the podStatus of every pod
  patch         \* the annotation or label patchMetadata is setting

stores == <<wfStore, podStore>>
registry == <<published, attestations>>
worker == <<pc, snap, order, i, mem, patch>>
vars == <<stores, registry, faults, queued, worker>>
------------------------------------------------------------------------------
(* Objects. "none" stands for an absent annotation or label.                  *)
AnnKeys == {"status", "artifacts", "signed", "sbom", "provenance"}
AnnValues == {"none", "In-Progress", "Completed", "Error", "Skipped",
              "Ref", "NotFound", "Attached"}
LabelValues == {"none", "In-Progress", "Completed", "Error"}
NodePhases == {"Absent", "Running", "Unknown", "Omitted",
               "Succeeded", "Failed", "Error"}

Workflow == [live : BOOLEAN, enabled : BOOLEAN, status : LabelValues,
             nodes : [Pods -> NodePhases]]
Pod == [live : BOOLEAN, phase : {"None", "Running", "Succeeded", "Failed"},
        ann : [AnnKeys -> AnnValues]]
PodStatus == [pod : Pod, found : BOOLEAN, info : {"none", "Ref", "NotFound"},
              signed : BOOLEAN, reconciled : BOOLEAN]
Patch == [key : AnnKeys \cup {"none", "label"}, val : AnnValues]
Labels == {"Idle", "LabelGet", "LabelPatch", "PodInfo", "Pod", "AnnGet",
           "AnnPatch", "Artifacts", "Signing", "Sbom", "Final", "Validate",
           "Attest"}

NewWorkflow(enabled) == [live |-> TRUE, enabled |-> enabled, status |-> "none",
                         nodes |-> [p \in Pods |-> "Absent"]]
NoWorkflow == [NewWorkflow(FALSE) EXCEPT !.live = FALSE]
NoPod == [live |-> FALSE, phase |-> "None",
          ann |-> [k \in AnnKeys |-> "none"]]
NewPod == [NoPod EXCEPT !.live = TRUE, !.phase = "Running"]
NewStatus == [pod |-> NoPod, found |-> FALSE, info |-> "none",
              signed |-> FALSE, reconciled |-> FALSE]
NoPatch == [key |-> "none", val |-> "none"]

Final == {"Completed", "Error"}
Finished == {"Succeeded", "Failed", "Error"}

(* A read of the cache; a write the informer's lag still has room for.        *)
Readable(vs) == FreshReads => Synced(vs)
Writable(vs) == Len(vs) <= MaxLag

Spend(kind) == faults[kind] > 0 /\ faults' = [faults EXCEPT ![kind] = @ - 1]
WriteWf(w) == Writable(wfStore) /\ wfStore' = Write(wfStore, w)
WritePod(p, c) == /\ Writable(podStore[p])
                  /\ podStore' = [podStore EXCEPT ![p] = Write(@, c)]
Annotate(c, k, v) == [c EXCEPT !.ann[k] = v]
------------------------------------------------------------------------------
(* What the handlers decide, as functions of what they hold in memory.        *)

\* Mutant: In-Progress taken for the work of another reconcile.
ToSecureOnce(w) == w.live /\ w.enabled /\ w.status = "none"
\* Mutant: a workflow that ended in an error is tried again.
ToSecureErrors(w) == w.live /\ w.enabled /\ w.status # "Completed"
\* Mutant: no check for a final label.
ToSecureAlways(w) == w.live /\ w.enabled

\* Reconcile starts work only on an enabled workflow without a final label.
ToSecure(w) == w.live /\ w.enabled /\ w.status \notin Final

\* currentRconsiliationStatus: what the pod's annotations say was done.
Load(m, c) ==
  LET has == c.ann["artifacts"] \notin {"none", "NotFound"} IN
  [pod |-> c,
   found |-> m.found \/ has,
   info |-> IF has THEN "Ref" ELSE m.info,
   signed |-> m.signed \/ c.ann["signed"] # "none",
   reconciled |-> m.reconciled \/ c.ann["status"] \notin {"none", "In-Progress"}]

\* handlePodReconciliation gives up on a failed node and an unfinished pod.
SkipsPod(phase, c) == phase = "Error" \/ c.phase # "Succeeded"

\* handleArtifactInfo: the OCI output, unless the annotation is there already.
Extract(p) == IF p \in WithArtifact THEN "Ref" ELSE "NotFound"

\* handleArtifactSigning never signs again when there is an annotation ...
SignedAlready(c) == c.ann["signed"] # "none"

\* Mutant: any annotation is trusted, as in currentRconsiliationStatus.
SignedBeforeAny(c) == c.ann["signed"] # "none"
\* ... and then trusts it only when it says Completed.
SignedBefore(c) == c.ann["signed"] = "Completed"

\* Mutant: what could not be signed is skipped.
FinalStatusLenient(m) == IF m.found /\ m.signed THEN "Completed" ELSE "Skipped"

\* updateFinalStatus
FinalStatus(m) == IF ~ m.found THEN "Skipped"
                  ELSE IF m.signed THEN "Completed" ELSE "Error"

\* validateAllPodsReconciled: the first pod that has a problem decides.
Problem(m) == IF ~ m.reconciled THEN "pending"
              ELSE IF m.found /\ ~ m.signed THEN "unsigned" ELSE "none"
FirstProblem(ms) ==
  LET bad == {n \in 1 .. Len(order) : Problem(ms[order[n]]) # "none"} IN
  IF bad = {} THEN "none"
  ELSE Problem(ms[order[CHOOSE n \in bad : \A k \in bad : n <= k]])

\* AttestArtifacts: signed artifacts whose reference has a digest.
Subjects(ms) ==
  {p \in ToSet(order) : ms[p].found /\ ms[p].signed /\ ms[p].info = "Ref"}
------------------------------------------------------------------------------
(* Where the worker goes next. End is the return of Reconcile: what it held   *)
(* in memory is gone, and a Requeue result or an error puts the workflow back *)
(* in the queue, while RequeueAfter: 0 does not.                              *)
Keep == UNCHANGED <<snap, order, queued>>
Goto(label) == pc' = label /\ UNCHANGED <<i, patch>>
Set(key, val) ==
  /\ pc' = IF key = "label" THEN "LabelGet" ELSE "AnnGet"
  /\ patch' = [key |-> key, val |-> val]
  /\ UNCHANGED i

\* Mutant: one pod too many.
NextPodTooFar ==
  IF i <= Len(order) THEN pc' = "Pod" /\ i' = i + 1 /\ UNCHANGED patch
                     ELSE pc' = "Validate" /\ i' = 1 /\ UNCHANGED patch
NextPod ==
  IF i < Len(order) THEN pc' = "Pod" /\ i' = i + 1 /\ UNCHANGED patch
                    ELSE pc' = "Validate" /\ i' = 1 /\ UNCHANGED patch

\* Mutant: the last pod is left out.
NextAttestTooFew ==
  IF i + 1 < Len(order) THEN pc' = "Attest" /\ i' = i + 1 /\ UNCHANGED patch
                        ELSE Set("label", "Completed")
NextAttest ==
  IF i < Len(order) THEN pc' = "Attest" /\ i' = i + 1 /\ UNCHANGED patch
                    ELSE Set("label", "Completed")
Reset == /\ pc' = "Idle" /\ snap' = NoWorkflow /\ order' = <<>> /\ i' = 1
         /\ mem' = [p \in Pods |-> NewStatus] /\ patch' = NoPatch
End(requeue) == Reset /\ queued' = (queued \/ requeue)

(* The caller of updateWorkflowStatus goes on when it returned no error,      *)
(* which it also does for a conflict or a deleted workflow. w is the Workflow *)
(* the call leaves in memory.                                                 *)
AfterLabel(w) ==
  IF patch.val = "In-Progress"
  THEN Goto("PodInfo") /\ snap' = w /\ UNCHANGED <<order, queued, mem>>
  ELSE End(FALSE)

(* The caller of PatchAnnotations after a success.                            *)
AfterAnnotation ==
  CASE patch.key = "status" /\ patch.val = "In-Progress" -> Goto("Artifacts")
    [] patch.key = "status" /\ patch.val # "In-Progress" -> NextPod
    [] patch.key = "artifacts" -> Goto("Signing")
    [] patch.key = "signed" -> Goto(IF SbomGeneration THEN "Sbom" ELSE "Final")
    [] patch.key = "sbom" -> Goto("Final")
    [] OTHER -> NextAttest

\* Mutant: an error of the artifacts annotation is only logged, like the SBOM's.
AnnotationFailsLogged ==
  CASE patch.key = "sbom" -> Goto("Final") /\ Keep /\ UNCHANGED mem
    [] patch.key = "artifacts" -> Goto("Signing") /\ Keep /\ UNCHANGED mem
    [] patch.key = "provenance" -> Set("label", "Error") /\ Keep /\ UNCHANGED mem
    [] OTHER -> End(TRUE)

(* The caller of PatchAnnotations after an error: the SBOM's is only logged,  *)
(* a provenance annotation that cannot be set makes the workflow an Error,    *)
(* any other one ends the reconcile with a requeue.                           *)
AnnotationFails ==
  CASE patch.key = "sbom" -> Goto("Final") /\ Keep /\ UNCHANGED mem
    [] patch.key = "provenance" -> Set("label", "Error") /\ Keep /\ UNCHANGED mem
    [] OTHER -> End(TRUE)
------------------------------------------------------------------------------
(* Reconcile: from the queue to the In-Progress label.                        *)
BeginFails == \* no namespace or configuration: the error requeues
  /\ pc = "Idle" /\ queued
  /\ Spend("call")
  /\ UNCHANGED <<stores, registry, queued, worker>>

BeginIgnores ==
  /\ pc = "Idle" /\ queued /\ Readable(wfStore)
  /\ ~ ToSecure(Cached(wfStore))
  /\ queued' = FALSE
  /\ UNCHANGED <<stores, registry, faults, worker>>

BeginSecures ==
  /\ pc = "Idle" /\ queued /\ Readable(wfStore)
  /\ ToSecure(Cached(wfStore))
  /\ queued' = FALSE
  /\ snap' = Cached(wfStore)
  /\ Set("label", "In-Progress")
  /\ UNCHANGED <<stores, registry, faults, order, mem>>

(* patchMetadata on the Workflow: Get from the cache, then Patch.             *)
LabelGet ==
  /\ pc = "LabelGet" /\ Readable(wfStore)
  /\ LET w == Cached(wfStore) IN
     \/ ~ w.live /\ AfterLabel(snap)
     \/ w.live /\ w.status = patch.val /\ AfterLabel(w)
     \/ /\ w.live /\ w.status # patch.val
        /\ snap' = w /\ Goto("LabelPatch") /\ UNCHANGED <<order, queued, mem>>
  /\ UNCHANGED <<stores, registry, faults>>

LabelPatched == [Stored(wfStore) EXCEPT !.status = patch.val]

LabelPatch ==
  /\ pc = "LabelPatch" /\ Stored(wfStore).live
  /\ WriteWf(LabelPatched)
  /\ AfterLabel(LabelPatched)
  /\ UNCHANGED <<podStore, registry, faults>>

LabelConflict == \* a conflict at every attempt, or the workflow is gone
  /\ pc = "LabelPatch"
  /\ \/ Stored(wfStore).live /\ Spend("conflict")
     \/ ~ Stored(wfStore).live /\ UNCHANGED faults
  /\ AfterLabel(snap)
  /\ UNCHANGED <<stores, registry>>

LabelFails == \* any other error; the API server may have applied the patch
  /\ pc = "LabelPatch" /\ Stored(wfStore).live
  /\ Spend("call")
  /\ WriteWf(LabelPatched) \/ UNCHANGED wfStore
  /\ End(TRUE)
  /\ UNCHANGED <<podStore, registry>>
------------------------------------------------------------------------------
(* GetPodInfo, and the loop over the pods.                                    *)
GetPodInfo ==
  /\ pc = "PodInfo"
  /\ LET known == {p \in Pods : snap.nodes[p] # "Absent"} IN
     IF known = {} THEN End(TRUE)
     ELSE /\ order' \in SetToSeqs(known)
          /\ i' = 1
          /\ mem' = [p \in Pods |-> NewStatus]
          /\ pc' = "Pod"
          /\ UNCHANGED <<snap, patch, queued>>
  /\ UNCHANGED <<stores, registry, faults>>

\* Mutant: a pod that is not in the cache yet is waited for without a requeue.
PodMissingWaits == End(FALSE)
\* getPod found no pod: its error ends the reconcile and is retried.
PodMissing == End(TRUE)

(* reconcilePod up to its first call that changes the pod.                    *)
ReconcilePod ==
  /\ pc = "Pod"
  /\ LET p == order[i]
         phase == snap.nodes[p]
     IN
     \/ /\ phase = "Omitted" \* no pod to reconcile
        /\ mem' = [mem EXCEPT ![p].reconciled = TRUE]
        /\ NextPod /\ Keep
     \/ phase = "Unknown" /\ End(TRUE)
     \/ phase = "Running" /\ NextPod /\ Keep /\ UNCHANGED mem
     \/ /\ phase \in Finished /\ Readable(podStore[p])
        /\ LET c == Cached(podStore[p])
               m == Load(mem[p], c)
           IN
           \/ ~ c.live /\ PodMissing
           \/ /\ c.live /\ m.reconciled
              /\ mem' = [mem EXCEPT ![p] = m]
              /\ NextPod /\ Keep
           \/ /\ c.live /\ ~ m.reconciled /\ SkipsPod(phase, c)
              /\ mem' = [mem EXCEPT ![p] = [m EXCEPT !.reconciled = TRUE]]
              /\ Set("status", "Skipped") /\ Keep
           \/ /\ c.live /\ ~ m.reconciled /\ ~ SkipsPod(phase, c)
              /\ mem' = [mem EXCEPT ![p] = m]
              /\ Set("status", "In-Progress") /\ Keep
  /\ UNCHANGED <<stores, registry, faults>>

(* patchMetadata on the pod: Get from the cache, then Patch.                  *)
AnnotationGet ==
  /\ pc = "AnnGet"
  /\ LET p == order[i]
         c == Cached(podStore[p])
     IN
     /\ Readable(podStore[p])
     /\ \/ ~ c.live /\ AnnotationFails
        \/ /\ c.live
           /\ mem' = [mem EXCEPT ![p].pod = c]
           /\ IF c.ann[patch.key] = patch.val THEN AfterAnnotation
                                             ELSE Goto("AnnPatch")
           /\ Keep
  /\ UNCHANGED <<stores, registry, faults>>

AnnotationPatched(p) == Annotate(Stored(podStore[p]), patch.key, patch.val)

AnnotationPatch ==
  /\ pc = "AnnPatch"
  /\ LET p == order[i] IN
     /\ Stored(podStore[p]).live
     /\ WritePod(p, AnnotationPatched(p))
     /\ mem' = [mem EXCEPT ![p].pod = AnnotationPatched(p)]
  /\ AfterAnnotation /\ Keep
  /\ UNCHANGED <<wfStore, registry, faults>>

AnnotationPatchFails == \* a conflict, a pod that is gone, any other error
  /\ pc = "AnnPatch"
  /\ LET p == order[i] IN
     \/ Stored(podStore[p]).live /\ Spend("conflict") /\ UNCHANGED podStore
     \/ ~ Stored(podStore[p]).live /\ UNCHANGED <<faults, podStore>>
     \/ /\ Stored(podStore[p]).live /\ Spend("call")
        /\ WritePod(p, AnnotationPatched(p)) \/ UNCHANGED podStore
  /\ AnnotationFails
  /\ UNCHANGED <<wfStore, registry>>
------------------------------------------------------------------------------
(* handlePodReconciliation after the In-Progress annotation.                  *)

\* Mutant: the artifact is signed before its reference is recorded.
HandleArtifactInfoUnrecorded ==
  /\ pc = "Artifacts"
  /\ LET p == order[i] IN
     /\ mem' = [mem EXCEPT ![p].found = Extract(p) # "NotFound",
                           ![p].info = Extract(p)]
     /\ Goto("Signing")
  /\ Keep /\ UNCHANGED <<stores, registry, faults>>

HandleArtifactInfo ==
  /\ pc = "Artifacts"
  /\ LET p == order[i]
         known == mem[p].pod.ann["artifacts"]
     IN
     IF known = "none"
     THEN /\ mem' = [mem EXCEPT ![p].found = Extract(p) # "NotFound",
                               ![p].info = Extract(p)]
          /\ Set("artifacts", Extract(p))
     ELSE /\ mem' = [mem EXCEPT ![p].found = known # "NotFound"]
          /\ Goto("Signing")
  /\ Keep /\ UNCHANGED <<stores, registry, faults>>

AfterSigning == Goto(IF SbomGeneration THEN "Sbom" ELSE "Final")

(* SignWithConfigOpts publishes the signature as its last step, so a failure  *)
(* may come before or after it; an empty reference never gets that far.       *)
HandleArtifactSigning ==
  /\ pc = "Signing"
  /\ LET p == order[i]
         m == mem[p]
     IN
     \/ ~ m.found /\ Set("signed", "Skipped") /\ UNCHANGED <<mem, published>>
     \/ /\ m.found /\ ~ SignedAlready(m.pod)
        /\ \E ok \in BOOLEAN :
             /\ ok => m.info = "Ref"
             /\ \/ m.info = "Ref" /\ published' = published \cup {p}
                \/ ~ ok /\ UNCHANGED published
             /\ mem' = [mem EXCEPT ![p].signed = ok]
             /\ Set("signed", IF ok THEN "Completed" ELSE "Error")
     \/ /\ m.found /\ SignedAlready(m.pod)
        /\ mem' = [mem EXCEPT ![p].signed = SignedBefore(m.pod)]
        /\ AfterSigning /\ UNCHANGED published
  /\ Keep /\ UNCHANGED <<stores, attestations, faults>>

HandleSBOMgeneration ==
  /\ pc = "Sbom"
  /\ LET m == mem[order[i]] IN
     \/ ~ m.found /\ Set("sbom", "Skipped")
     \/ /\ m.found /\ m.pod.ann["sbom"] = "none"
        /\ \E outcome \in {"Attached", "Error"} : Set("sbom", outcome)
     \/ m.found /\ m.pod.ann["sbom"] # "none" /\ Goto("Final")
  /\ Keep /\ UNCHANGED <<stores, registry, faults, mem>>

UpdateFinalStatus ==
  /\ pc = "Final"
  /\ LET p == order[i] IN
     /\ mem' = [mem EXCEPT ![p].reconciled = TRUE]
     /\ Set("status", FinalStatus(mem[p]))
  /\ Keep /\ UNCHANGED <<stores, registry, faults>>
------------------------------------------------------------------------------
(* After the loop: wait, give up, or attest.                                  *)
ValidateAllPodsReconciled ==
  /\ pc = "Validate"
  /\ LET problem == FirstProblem(mem) IN
     \/ problem = "pending" /\ End(FALSE)
     \/ problem = "unsigned" /\ Set("label", "Error") /\ Keep /\ UNCHANGED mem
     \/ problem = "none" /\ Goto("Attest") /\ Keep /\ UNCHANGED mem
  /\ UNCHANGED <<stores, registry, faults>>

\* Mutant: the state is Attached from the start.
ProvenanceAtFirst == "Attached"
\* The state annotated unless AttestWithConfigOpts succeeds.
ProvenanceState == "Error"

\* Mutant: a node without a pod is passed over.
NoPodPassed == NextAttest /\ Keep /\ UNCHANGED mem
\* A podStatus without a pod is a nil dereference, which controller-runtime
\* recovers and requeues.
NoPodPanics == End(TRUE)

(* handleProveneceAttachment                                                  *)
HandleProvenanceAttachment ==
  /\ pc = "Attest"
  /\ LET p == order[i]
         m == mem[p]
     IN
     \/ /\ ~ m.found /\ ~ m.pod.live /\ NoPodPanics
        /\ UNCHANGED <<attestations, faults>>
     \/ /\ ~ m.found /\ m.pod.live /\ Set("provenance", "Skipped")
        /\ Keep /\ UNCHANGED <<mem, attestations, faults>>
     \/ /\ m.found /\ m.pod.ann["provenance"] = "none" /\ m.signed
        /\ Keep /\ UNCHANGED mem
        /\ \/ /\ m.info = "Ref"
              /\ attestations' = attestations \cup {<<p, Subjects(mem)>>}
              /\ \E state \in {"Attached", ProvenanceState} : Set("provenance", state)
              /\ UNCHANGED faults
           \/ Set("provenance", ProvenanceState) /\ UNCHANGED <<attestations, faults>>
           \/ /\ Spend("call") \* the provenance cannot be generated
              /\ Set("label", "Error") /\ UNCHANGED attestations
     \/ /\ m.found /\ ~ (m.pod.ann["provenance"] = "none" /\ m.signed)
        /\ NextAttest /\ Keep /\ UNCHANGED <<mem, attestations, faults>>
  /\ UNCHANGED <<stores, published>>

Worker ==
  \/ BeginFails \/ BeginIgnores \/ BeginSecures
  \/ LabelGet \/ LabelPatch \/ LabelConflict \/ LabelFails
  \/ GetPodInfo \/ ReconcilePod
  \/ AnnotationGet \/ AnnotationPatch \/ AnnotationPatchFails
  \/ HandleArtifactInfo \/ HandleArtifactSigning \/ HandleSBOMgeneration
  \/ UpdateFinalStatus \/ ValidateAllPodsReconciled
  \/ HandleProvenanceAttachment
------------------------------------------------------------------------------
(* The Argo controller, the kubelet and the user.                             *)
Quiet == UNCHANGED <<registry, queued, worker>>
SetNode(p, phase) == WriteWf([Stored(wfStore) EXCEPT !.nodes[p] = phase])
NodeIs(p, phase) == Stored(wfStore).live /\ Stored(wfStore).nodes[p] = phase

StartNode(p) ==
  /\ NodeIs(p, "Absent")
  /\ \/ /\ SetNode(p, "Running") /\ WritePod(p, NewPod) /\ UNCHANGED faults
     \/ /\ \E phase \in OddPhases : SetNode(p, phase)
        /\ UNCHANGED <<podStore, faults>>
     \/ /\ Spend("gone") /\ SetNode(p, "Error") \* no pod could be created
        /\ UNCHANGED podStore
  /\ Quiet

LeaveUnknown(p) ==
  /\ NodeIs(p, "Unknown")
  /\ SetNode(p, "Running") /\ WritePod(p, NewPod)
  /\ UNCHANGED faults /\ Quiet

FinishPod(p) ==
  /\ Stored(podStore[p]).live /\ Stored(podStore[p]).phase = "Running"
  /\ \E phase \in {"Succeeded", "Failed"} :
       WritePod(p, [Stored(podStore[p]) EXCEPT !.phase = phase])
  /\ UNCHANGED <<wfStore, faults>> /\ Quiet

FinishNode(p) ==
  /\ NodeIs(p, "Running")
  /\ LET c == Stored(podStore[p]) IN
     \/ c.live /\ c.phase = "Succeeded" /\ SetNode(p, "Succeeded")
     \/ /\ c.live /\ c.phase = "Failed"
        /\ \E phase \in {"Failed", "Error"} : SetNode(p, phase)
     \/ ~ c.live /\ SetNode(p, "Error")
  /\ UNCHANGED <<podStore, faults>> /\ Quiet

DeletePod(p) ==
  /\ Stored(podStore[p]).live /\ Spend("gone")
  /\ WritePod(p, [Stored(podStore[p]) EXCEPT !.live = FALSE])
  /\ UNCHANGED wfStore /\ Quiet

DeleteWorkflow ==
  /\ Stored(wfStore).live /\ Spend("gone")
  /\ WriteWf([Stored(wfStore) EXCEPT !.live = FALSE])
  /\ UNCHANGED podStore /\ Quiet

Enable ==
  /\ Stored(wfStore).live /\ ~ Stored(wfStore).enabled
  /\ WriteWf([Stored(wfStore) EXCEPT !.enabled = TRUE])
  /\ UNCHANGED <<podStore, faults>> /\ Quiet

Environment ==
  \/ \E p \in Pods : \/ StartNode(p) \/ LeaveUnknown(p) \/ FinishPod(p)
                     \/ FinishNode(p) \/ DeletePod(p)
  \/ DeleteWorkflow \/ Enable
------------------------------------------------------------------------------
(* The informers; only Workflow events put the workflow in the queue.         *)
SyncWorkflow ==
  /\ ~ Synced(wfStore)
  /\ wfStore' = Deliver(wfStore)
  /\ queued' = TRUE
  /\ UNCHANGED <<podStore, registry, faults, worker>>

SyncPod(p) ==
  /\ ~ Synced(podStore[p])
  /\ podStore' = [podStore EXCEPT ![p] = Deliver(@)]
  /\ UNCHANGED <<wfStore, registry, faults, queued, worker>>

Resync == \* the informer's periodic resync
  /\ Cached(wfStore).live
  /\ ~ queued /\ queued' = TRUE
  /\ UNCHANGED <<stores, registry, faults, worker>>

(* The process dies and starts again: its caches list the stored objects.     *)
Crash ==
  /\ Spend("crash")
  /\ Reset
  /\ queued' = TRUE
  /\ wfStore' = Relist(wfStore)
  /\ podStore' = [p \in Pods |-> Relist(podStore[p])]
  /\ UNCHANGED registry

Informers == SyncWorkflow \/ (\E p \in Pods : SyncPod(p)) \/ Resync
------------------------------------------------------------------------------
Init ==
  /\ \E enabled \in BOOLEAN : wfStore = <<NewWorkflow(enabled)>>
  /\ podStore = [p \in Pods |-> <<NoPod>>]
  /\ published = {} /\ attestations = {}
  /\ faults = MaxFaults
  /\ queued = TRUE
  /\ pc = "Idle" /\ snap = NoWorkflow /\ order = <<>> /\ i = 1
  /\ mem = [p \in Pods |-> NewStatus] /\ patch = NoPatch

Next == Worker \/ Environment \/ Informers \/ Crash

Spec == Init /\ [][Next]_vars

(* The worker goroutine keeps running and the watches keep delivering; nothing*)
(* is assumed of the user, the Argo controller, the kubelet or the faults.    *)
Fairness == /\ WF_vars(Worker)
            /\ WF_vars(SyncWorkflow)
            /\ \A p \in Pods : WF_vars(SyncPod(p))
FairSpec == Spec /\ Fairness
------------------------------------------------------------------------------
(* Every object, cached or held in memory, is one the program can hold; the   *)
(* podStatus index stays inside PodsStatus while a loop of WorkflowStatus.    *)
(* Reconcile or AttestArtifacts runs.                                         *)
TypeOK ==
  /\ wfStore \in Histories(Workflow)
  /\ podStore \in [Pods -> Histories(Pod)]
  /\ published \subseteq Pods
  /\ attestations \subseteq Pods \X SUBSET Pods
  /\ faults \in [FaultKinds -> Nat]
  /\ queued \in BOOLEAN
  /\ pc \in Labels
  /\ snap \in Workflow
  /\ order \in Seq(Pods)
  /\ i \in Nat \ {0}
  /\ mem \in [Pods -> PodStatus]
  /\ patch \in Patch
  /\ pc \in Labels \ {"Idle", "PodInfo", "LabelGet", "LabelPatch"}
       => i \in 1 .. Len(order)

(* A pod the API server reports as Completed has a signature in the registry: *)
(* updateFinalStatus works from a flag that currentRconsiliationStatus sets   *)
(* too early, and only handleArtifactSigning in between puts it right.        *)
CompletedPodIsSigned ==
  \A p \in Pods :
    Stored(podStore[p]).ann["status"] = "Completed" => p \in published

(* What was signed can be found again: as long as the pod exists, its         *)
(* artifacts annotation names the image a signature was published for, also   *)
(* after a crash between signing and the signed annotation.                   *)
PublishedIsRecorded ==
  \A p \in published :
    Stored(podStore[p]).live => Stored(podStore[p]).ann["artifacts"] = "Ref"

(* handleProveneceAttachment: a pod is marked Attached only for an            *)
(* attestation that names its own artifact among the subjects.                *)
AttachedIsAttested ==
  \A p \in Pods :
    Stored(podStore[p]).ann["provenance"] = "Attached"
      => \E a \in attestations : a[1] = p /\ p \in a[2]

(* AttestArtifacts: the workflow is marked Completed only when every pod      *)
(* GetPodInfo found and that still exists carries a provenance annotation.    *)
CompletionCoversPods ==
  [][ (Stored(wfStore').status = "Completed" /\ Stored(wfStore).status # "Completed")
        => \A p \in ToSet(order) :
             Stored(podStore[p]).live
               => Stored(podStore[p]).ann["provenance"] # "none" ]_vars

(* A workflow is marked Completed only by a reconcile that read the pod of    *)
(* every node it found and closed it: a node without a pod, be it omitted or  *)
(* its pod deleted, ends every reconcile with an error instead.               *)
CompletedSawEveryPod ==
  [][ (Stored(wfStore').status = "Completed" /\ Stored(wfStore).status # "Completed")
        => \A p \in ToSet(order) : mem[p].pod.live /\ mem[p].reconciled ]_vars

(* Nothing is left to wake the controller up: no work in the queue, no event  *)
(* on its way.                                                                *)
Quiescent == /\ pc = "Idle" /\ ~ queued /\ Synced(wfStore)
             /\ \A p \in Pods : Synced(podStore[p])
AllFinished == \A p \in Pods : Stored(wfStore).nodes[p] \in Finished
Decided == Stored(wfStore).status \in Final

(* "not all workflow pods have been reconciled" returns without a requeue and *)
(* waits for the event of the node that finishes: no finished, enabled        *)
(* workflow is forgotten without a final label.                               *)
QuiescentIsDecided ==
  Quiescent /\ Stored(wfStore).live /\ Stored(wfStore).enabled
    /\ AllFinished /\ Pods # {} => Decided

(* "artifact signing error detected": a reconcile that labels the workflow as *)
(* Error holds a copy of a pod marked Error, which the API server answered or *)
(* the cache showed, whatever failed before; or it has found every artifact   *)
(* signed, and a fault kept the provenance off.                               *)
Unharmed == \A kind \in FaultKinds \ {"crash"} : faults[kind] = MaxFaults[kind]
ErrorHasFailedPod ==
  [][ (Stored(wfStore').status = "Error" /\ Stored(wfStore).status # "Error")
        => \/ \E p \in ToSet(order) : mem[p].pod.ann["status"] = "Error"
           \/ ~ Unharmed /\ FirstProblem(mem) = "none" ]_vars

(* A workflow whose nodes all finish is decided, whatever the interleaving    *)
(* with the informers, a crash and errors of calls.                           *)
Waiting == AllFinished /\ Stored(wfStore).enabled /\ Stored(wfStore).live
EventuallyDecided == <>[]Waiting => <>Decided

(* Reconcile returns at once for a workflow with a final label. Where reads   *)
(* wait for the informer the label therefore stays: the events the controller *)
(* causes itself, the resync and a crash do not make it start over for ever.  *)
EventuallySettled == <>[]Waiting => <>[]Decided
------------------------------------------------------------------------------
(* The signing ledger as the API server and the registry show it.             *)
Outcome(p) ==
  LET status == Stored(podStore[p]).ann["status"] IN
  IF status \in {"Completed", "Error", "Skipped"} THEN status ELSE "Open"

Ledger == INSTANCE SigningLedger WITH
  signed <- published,
  outcome <- [p \in Pods |-> Outcome(p)],
  verdict <- IF Decided THEN Stored(wfStore).status ELSE "Open"

(* With informers that keep up, the controller implements the ledger, also    *)
(* when it crashes between any two of its calls.                              *)
ImplementsLedger == Ledger!Spec

(* workflow_controller.go:173: a workflow reported as secured has no pod      *)
(* whose artifact could not be signed.                                        *)
CompletedHasNoErrorPod ==
  Stored(wfStore).status = "Completed"
    => \A p \in Pods : Stored(podStore[p]).ann["status"] # "Error"

(* workflow_pod_reconciler.go:58: all the pods of a workflow are processed    *)
(* before it is Completed.                                                    *)
CompletedProcessedAllPods ==
  Stored(wfStore).status = "Completed"
    => \A p \in Pods : Stored(wfStore).nodes[p] = "Succeeded"
         => Stored(podStore[p]).ann["status"] # "none"

(* pod_status.go:103: a pod with an artifact is skipped only when it did not  *)
(* succeed.                                                                   *)
SkippedDidNotSucceed ==
  \A p \in WithArtifact :
    Stored(podStore[p]).ann["status"] = "Skipped"
      => Stored(podStore[p]).phase # "Succeeded"
==============================================================================
