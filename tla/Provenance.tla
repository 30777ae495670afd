------------------------------ MODULE Provenance ------------------------------
(* From the outputs of the pods to the statement about them: which image is   *)
(* recorded and signed (handleArtifactInfo, handleArtifactSigning) and what   *)
(* the provenance says of the Workflow (GenerateSlsaV1Provenance). The        *)
(* statements of one reconcile are made from one in-memory Workflow, which    *)
(* making them changes; the next reconcile starts from cached pods and a      *)
(* cached Workflow, which may be behind, after a crash, a failing patch or a  *)
(* final label that was lost. The pods are done; how they come and go, the    *)
(* queue and SBOMs are the subject of Reconciler.                             *)
EXTENDS KubeStore, FiniteSets, SequencesExt

CONSTANTS
  Pods,
  Digests,       \* parameter values that are references with a digest
  OutputLists,   \* what the output parameters of a node may be
  ArgumentLists, \* what the arguments of the workflow may be
  FinalOutputs,  \* what the outputs of the workflow may be
  Labels,        \* the label keys a workflow may have
  Own,           \* those that start with argo.slsa.io/, but enable
  MaxLag,        \* bound: versions an informer may be behind
  MaxFaults      \* bound: failing calls to the API server and crashes

IsSequence(list) == list \in Seq(ToSet(list))

ASSUME ProvenanceAssumption ==
  /\ IsFiniteSet(Pods) /\ Pods # {} /\ Digests \cap {"none", "NotFound"} = {}
  /\ \A list \in OutputLists \cup ArgumentLists : IsSequence(list)
  /\ \A o \in FinalOutputs : IsSequence(o.artifacts) /\ IsSequence(o.parameters)
  /\ Own \subseteq Labels /\ "status" \in Own /\ "enable" \in Labels \ Own
  /\ MaxLag \in Nat \ {0} /\ MaxFaults \in Nat

VARIABLES
  outputs,    \* the output parameters of every node
  arguments,  \* the arguments in the workflow's specification
  store,      \* the versions of the Workflow: labels, end and outputs
  podStore,   \* the versions of the annotations of every pod
  signed,     \* the references signed for every pod
  statements, \* the statements, in the order they were made
  pc, todo, current, \* the worker: its loop, the pods left, the pod it is at
  wf,         \* the in-memory Workflow
  read,       \* the same as it was read
  mem,        \* the podStatus of every pod
  faults

input == <<outputs, arguments>>
stores == <<store, podStore>>
registry == <<signed, statements>>
worker == <<pc, todo, current, wf, read, mem>>
vars == <<input, stores, registry, worker, faults>>
------------------------------------------------------------------------------
(* The reference a pod's outputs name.                                        *)

\* strings.HasPrefix("OCI", param.Name)
Matches(param) == param.name \in {"", "O", "OC", "OCI"}
CheckOCI(value) == value \in Digests

\* Mutant: the loop is left at the first match.
ExtractFirst(params) ==
  FoldLeft(LAMBDA info, param :
             IF info = "NotFound" /\ Matches(param) /\ CheckOCI(param.value)
             THEN param.value ELSE info, "NotFound", params)
\* The loop of handleArtifactInfo: a later match overwrites an earlier one.
Extract(params) ==
  FoldLeft(LAMBDA info, param :
             IF ~ Matches(param) THEN info
             ELSE IF CheckOCI(param.value) THEN param.value ELSE "NotFound",
           "NotFound", params)

AnnKeys == {"status", "artifacts", "signed", "provenance"}
NoAnn == [k \in AnnKeys |-> "none"]
NewStatus == [ann |-> NoAnn, found |-> FALSE, info |-> "none",
              signed |-> FALSE, reconciled |-> FALSE]

\* currentRconsiliationStatus: what the annotations of the pod say was done.
Load(c) ==
  LET has == c["artifacts"] \notin {"none", "NotFound"} IN
  [ann |-> c, found |-> has, info |-> IF has THEN c["artifacts"] ELSE "none",
   signed |-> c["signed"] # "none",
   reconciled |-> c["status"] \notin {"none", "In-Progress"}]

\* updateFinalStatus
FinalStatus(m) == IF ~ m.found THEN "Skipped"
                  ELSE IF m.signed THEN "Completed" ELSE "Error"

\* AttestArtifacts: the references of the pods that are signed.
Subjects == {mem[p].info : p \in {q \in Pods : /\ mem[q].found /\ mem[q].signed
                                              /\ CheckOCI(mem[q].info)}}
------------------------------------------------------------------------------
(* The parts of the statement.                                                *)

\* GetMetadata: FinishedOn stays nil as long as the workflow has not ended.
FinishedOn(w) == w.finished

\* Mutant: the artifacts return early.
ByproductsEarly(w) == IF w.outputs.artifacts # <<>> THEN w.outputs.artifacts
                                                   ELSE w.outputs.parameters
\* GetByproducts: the artifacts, then the parameters; none without outputs.
Byproducts(w) == w.outputs.artifacts \o w.outputs.parameters

Put(f, key, value) == [x \in DOMAIN f \cup {key} |-> IF x = key THEN value ELSE f[x]]

\* Mutant: the specification first, then the parameters.
ExternalParamsLast(args) ==
  FoldLeft(LAMBDA f, a : Put(f, a.name, a.value), [x \in {"runSpec"} |-> "spec"], args)
\* GetExternalParams: parameters by name, then the specification.
ExternalParams(args) ==
  Put(FoldLeft(LAMBDA f, a : Put(f, a.name, a.value), [x \in {} |-> "none"], args),
      "runSpec", "spec")

\* Mutant: the labels are reported before they are taken out.
InternalParamsEarly(w) == w.labels
WithoutOwn(w) ==
  [w EXCEPT !.labels = [l \in Labels |-> IF l \in Own THEN "none" ELSE w.labels[l]]]
\* GetInternalParams reports the map it has just deleted from.
InternalParams(w) == WithoutOwn(w).labels

\* stale: the annotation that says a statement was made is not in memory yet.
Statement(p) ==
  [pod |-> p, subjects |-> Subjects, finished |-> FinishedOn(wf),
   byproducts |-> Byproducts(wf), internal |-> InternalParams(wf),
   external |-> ExternalParams(arguments), of |-> read,
   stale |-> mem[p].ann["provenance"] # Stored(podStore[p])["provenance"]]
------------------------------------------------------------------------------
NewWorkflow == [labels |-> [l \in Labels |-> IF l = "enable" THEN "set" ELSE "none"],
                finished |-> FALSE,
                outputs |-> [artifacts |-> <<>>, parameters |-> <<>>]]
WithStatus(w, val) == [w EXCEPT !.labels["status"] = val]

Fault == faults < MaxFaults /\ faults' = faults + 1
Writes(w) == Len(store) <= MaxLag /\ store' = Write(store, w)

\* The return of Reconcile.
End == /\ pc' = "Idle" /\ todo' = {} /\ current' = CHOOSE p \in Pods : TRUE
       /\ wf' = NewWorkflow /\ read' = NewWorkflow
       /\ mem' = [p \in Pods |-> NewStatus]

(* patchMetadata on pod p, whose podStatus is m by then: the copy in memory is*)
(* the cached one when that has the value, else what the API server answers.  *)
(* Nobody else writes these annotations, so Get and Patch are one step.       *)
Patched(p, key, val) ==
  /\ Len(podStore[p]) <= MaxLag
  /\ podStore' = [podStore EXCEPT ![p] = Write(@, [Stored(@) EXCEPT ![key] = val])]
PatchAnnotations(p, m, key, val) ==
  /\ \/ /\ Cached(podStore[p])[key] = val /\ UNCHANGED podStore
        /\ mem' = [mem EXCEPT ![p] = [m EXCEPT !.ann = Cached(podStore[p])]]
     \/ /\ Cached(podStore[p])[key] # val /\ Patched(p, key, val)
        /\ mem' = [mem EXCEPT ![p] = [m EXCEPT !.ann = [Stored(podStore[p]) EXCEPT ![key] = val]]]
  /\ UNCHANGED <<todo, current, wf, read, faults>>
\* A conflict or an error, which leaves open whether the patch was applied.
PatchFails(p, key, val) ==
  /\ Fault
  /\ \/ UNCHANGED podStore
     \/ Cached(podStore[p])[key] # val /\ Patched(p, key, val)

\* In the loop over the pods an error ends the reconcile.
Annotate(m, key, val, next) ==
  \/ PatchAnnotations(current, m, key, val) /\ pc' = next
  \/ PatchFails(current, key, val) /\ End

(* Reconcile up to the loop. A conflict on the In-Progress label is swallowed.*)
Begin ==
  /\ pc = "Idle" /\ Cached(store).labels["status"] \notin {"Completed", "Error"}
  /\ pc' = "Pods" /\ todo' = Pods
  /\ LET labelled == WithStatus(Stored(store), "In-Progress") IN
     \/ /\ Cached(store).labels["status"] = "In-Progress"
        /\ wf' = Cached(store) /\ UNCHANGED <<store, faults>>
     \/ /\ Cached(store).labels["status"] # "In-Progress"
        /\ \/ wf' = labelled /\ Writes(labelled) /\ UNCHANGED faults
           \/ wf' = WithStatus(Cached(store), "In-Progress") /\ Fault /\ UNCHANGED store
  /\ read' = wf'
  /\ UNCHANGED <<input, podStore, registry, current, mem>>

BeginFails == \* the answer to the patch of the label is lost
  /\ pc = "Idle" /\ Cached(store).labels["status"] = "none" /\ Fault
  /\ Writes(WithStatus(Stored(store), "In-Progress"))
  /\ UNCHANGED <<input, podStore, registry, worker>>

(* getPod; the pods come in the order of a map.                               *)
ReconcilePod ==
  /\ pc = "Pods"
  /\ \E p \in todo :
       LET m == Load(Cached(podStore[p])) IN
       /\ todo' = todo \ {p} /\ current' = p
       /\ mem' = [mem EXCEPT ![p] = m]
       /\ pc' = IF m.reconciled THEN "Pods" ELSE "InProgress"
  /\ UNCHANGED <<input, stores, registry, wf, read, faults>>

MarkInProgress ==
  /\ pc = "InProgress"
  /\ Annotate(mem[current], "status", "In-Progress", "Artifacts")
  /\ UNCHANGED <<input, store, registry>>

(* The reference is taken from the annotation by getPod only: where the Get   *)
(* of a patch is the first to show it, the pod has one but no info.           *)
HandleArtifactInfo ==
  /\ pc = "Artifacts"
  /\ LET m == mem[current]
         info == Extract(outputs[current])
     IN
     \/ /\ m.ann["artifacts"] = "none"
        /\ Annotate([m EXCEPT !.found = info # "NotFound", !.info = info],
                    "artifacts", info, "Signing")
     \/ /\ m.ann["artifacts"] # "none"
        /\ mem' = [mem EXCEPT ![current].found = m.ann["artifacts"] # "NotFound"]
        /\ pc' = "Signing"
        /\ UNCHANGED <<podStore, todo, current, wf, read, faults>>
  /\ UNCHANGED <<input, store, registry>>

\* SignWithConfigOpts publishes last, and never for a reference without digest.
HandleArtifactSigning ==
  /\ pc = "Signing"
  /\ LET m == mem[current] IN
     \/ ~ m.found /\ Annotate(m, "signed", "Skipped", "Final") /\ UNCHANGED signed
     \/ /\ m.found /\ m.ann["signed"] = "none"
        /\ \E ok \in BOOLEAN :
             /\ ok => CheckOCI(m.info)
             /\ \/ /\ CheckOCI(m.info)
                   /\ signed' = [signed EXCEPT ![current] = @ \cup {m.info}]
                \/ ~ ok /\ UNCHANGED signed
             /\ mem' = [mem EXCEPT ![current].signed = ok]
        /\ pc' = "Signed" /\ UNCHANGED <<podStore, todo, current, wf, read, faults>>
     \/ /\ m.found /\ m.ann["signed"] # "none"
        /\ mem' = [mem EXCEPT ![current].signed = m.ann["signed"] = "Completed"]
        /\ pc' = "Final"
        /\ UNCHANGED <<podStore, signed, todo, current, wf, read, faults>>
  /\ UNCHANGED <<input, store, statements>>

AnnotateSigned ==
  /\ pc = "Signed"
  /\ LET m == mem[current] IN
     Annotate(m, "signed", IF m.signed THEN "Completed" ELSE "Error", "Final")
  /\ UNCHANGED <<input, store, registry>>

UpdateFinalStatus ==
  /\ pc = "Final"
  /\ LET m == mem[current] IN
     Annotate([m EXCEPT !.reconciled = TRUE], "status", FinalStatus(m), "Pods")
  /\ UNCHANGED <<input, store, registry>>

ValidateAllPodsReconciled ==
  /\ pc = "Pods" /\ todo = {}
  /\ \/ /\ \E p \in Pods : mem[p].found /\ ~ mem[p].signed
        /\ pc' = "LabelError" /\ UNCHANGED todo
     \/ /\ \A p \in Pods : mem[p].found => mem[p].signed
        /\ pc' = "Attest" /\ todo' = Pods
  /\ UNCHANGED <<input, stores, registry, current, wf, read, mem, faults>>

\* Mutant: the annotation is not looked at.
AttachesAgain(m) == m.found /\ m.signed
\* handleProveneceAttachment: found, signed and not annotated yet.
Attaches(m) == m.found /\ m.signed /\ m.ann["provenance"] = "none"

\* In the loop of AttestArtifacts an error makes the workflow an Error.
AnnotateProvenanceOf(p, state) ==
  \/ PatchAnnotations(p, mem[p], "provenance", state) /\ pc' = "Attest"
  \/ /\ PatchFails(p, "provenance", state) /\ pc' = "LabelError"
     /\ UNCHANGED <<todo, current, wf, read, mem>>

(* Generating it takes its own keys out of the label map of the in-memory     *)
(* Workflow, whatever becomes of the statement. AttestWithConfigOpts may fail *)
(* after it has published, and publishes nothing without a digest.            *)
Attest(p) ==
  /\ todo' = todo \ {p} /\ current' = p
  /\ \/ /\ wf' = WithoutOwn(wf)
        /\ \/ /\ CheckOCI(mem[p].info)
              /\ statements' = Append(statements, Statement(p))
              /\ pc' \in {"Attached", "NotAttached"}
           \/ pc' = "NotAttached" /\ UNCHANGED statements
        /\ UNCHANGED faults
     \/ /\ Fault /\ pc' = "LabelError" \* no provenance can be generated
        /\ UNCHANGED <<statements, wf>>
  /\ UNCHANGED <<podStore, read, mem>>

HandleProvenanceAttachment ==
  /\ pc = "Attest"
  /\ \E p \in todo :
       \/ Attaches(mem[p]) /\ Attest(p)
       \/ /\ mem[p].found /\ ~ Attaches(mem[p])
          /\ todo' = todo \ {p}
          /\ UNCHANGED <<podStore, statements, pc, current, wf, read, mem, faults>>
       \/ /\ ~ mem[p].found
          /\ pc' = "Skipped" /\ todo' = todo \ {p} /\ current' = p
          /\ UNCHANGED <<podStore, statements, wf, read, mem, faults>>
  /\ UNCHANGED <<input, store, signed>>

AnnotateProvenance ==
  /\ pc \in {"Attached", "NotAttached", "Skipped"}
  /\ AnnotateProvenanceOf(current, CASE pc = "Attached" -> "Attached"
                                      [] pc = "NotAttached" -> "Error"
                                      [] OTHER -> "Skipped")
  /\ UNCHANGED <<input, store, registry>>

Complete ==
  /\ pc = "Attest" /\ todo = {}
  /\ pc' = "LabelCompleted"
  /\ UNCHANGED <<input, stores, registry, todo, current, wf, read, mem, faults>>

(* The final label, which may be lost; the next reconcile then starts over.   *)
UpdateWorkflowStatus ==
  /\ pc \in {"LabelError", "LabelCompleted"}
  /\ LET val == IF pc = "LabelError" THEN "Error" ELSE "Completed" IN
     \/ Cached(store).labels["status"] = val /\ UNCHANGED <<store, faults>>
     \/ /\ Cached(store).labels["status"] # val
        /\ \/ Writes(WithStatus(Stored(store), val)) /\ UNCHANGED faults
           \/ /\ Fault
              /\ Writes(WithStatus(Stored(store), val)) \/ UNCHANGED store
  /\ End
  /\ UNCHANGED <<input, podStore, registry>>

Crash ==
  /\ pc # "Idle" /\ Fault /\ End
  /\ store' = Relist(store)
  /\ podStore' = [p \in Pods |-> Relist(podStore[p])]
  /\ UNCHANGED <<input, registry>>

(* The Argo controller ends the workflow, the user labels it, the informers   *)
(* deliver. The workflow may end after its pods: exit handlers come later.    *)
Finish ==
  /\ ~ Stored(store).finished
  /\ \E o \in FinalOutputs :
       Writes([Stored(store) EXCEPT !.finished = TRUE, !.outputs = o])
  /\ UNCHANGED <<input, podStore, registry, worker, faults>>

Relabel ==
  /\ \E l \in Labels \ Own :
       /\ Stored(store).labels[l] = "none"
       /\ Writes([Stored(store) EXCEPT !.labels[l] = "set"])
  /\ UNCHANGED <<input, podStore, registry, worker, faults>>

SyncWorkflow ==
  /\ ~ Synced(store) /\ store' = Deliver(store)
  /\ UNCHANGED <<input, podStore, registry, worker, faults>>

SyncPod(p) ==
  /\ ~ Synced(podStore[p]) /\ podStore' = [podStore EXCEPT ![p] = Deliver(@)]
  /\ UNCHANGED <<input, store, registry, worker, faults>>

Init ==
  /\ outputs \in [Pods -> OutputLists] /\ arguments \in ArgumentLists
  /\ store = <<NewWorkflow>> /\ podStore = [p \in Pods |-> <<NoAnn>>]
  /\ signed = [p \in Pods |-> {}] /\ statements = <<>>
  /\ pc = "Idle" /\ todo = {} /\ current = CHOOSE p \in Pods : TRUE
  /\ wf = NewWorkflow /\ read = NewWorkflow
  /\ mem = [p \in Pods |-> NewStatus] /\ faults = 0

Worker == \/ Begin \/ BeginFails \/ ReconcilePod \/ MarkInProgress
          \/ HandleArtifactInfo \/ HandleArtifactSigning \/ AnnotateSigned
          \/ UpdateFinalStatus \/ ValidateAllPodsReconciled
          \/ HandleProvenanceAttachment \/ AnnotateProvenance
          \/ Complete \/ UpdateWorkflowStatus

Next == \/ Worker \/ Crash \/ Finish \/ Relabel
        \/ SyncWorkflow \/ \E p \in Pods : SyncPod(p)

Spec == Init /\ [][Next]_vars
------------------------------------------------------------------------------
(* handleArtifactInfo: whatever reconcile signs for a pod, and the subjects   *)
(* of its statement, are the value of the last of its output parameters whose *)
(* name is a beginning of OCI, and nothing when that one has no digest. The   *)
(* other subjects are those of other pods, which may be missing.              *)
IsLastMatch(params, n) == /\ Matches(params[n])
                          /\ \A k \in n + 1 .. Len(params) : ~ Matches(params[k])
NamedBy(params) ==
  {params[n].value : n \in {k \in 1 .. Len(params) : IsLastMatch(params, k)}} \cap Digests
SignsNamedReference ==
  /\ \A p \in Pods : signed[p] \subseteq NamedBy(outputs[p])
  /\ \A n \in 1 .. Len(statements) :
       LET s == statements[n] IN
       /\ NamedBy(outputs[s.pod]) # {} /\ NamedBy(outputs[s.pod]) \subseteq s.subjects
       /\ s.subjects \subseteq UNION {NamedBy(outputs[p]) : p \in Pods}

(* GetInternalParams, ConstrunctWorkflowBuildDefinition: every statement      *)
(* describes the Workflow as one read of it returned it, although making the  *)
(* statement before it has deleted labels from that Workflow: the user's      *)
(* labels and none of the controller's, the specification under runSpec, each *)
(* other argument with its last value, and every output of the workflow.      *)
LastValue(x) ==
  arguments[CHOOSE n \in 1 .. Len(arguments) :
              /\ arguments[n].name = x
              /\ \A k \in n + 1 .. Len(arguments) : arguments[k].name # x].value
DescribesWhatWasRead ==
  \A n \in 1 .. Len(statements) :
    LET s == statements[n] IN
    /\ s.finished = s.of.finished
    /\ \A l \in Labels : s.internal[l] = IF l \in Own THEN "none" ELSE s.of.labels[l]
    /\ DOMAIN s.external = {arguments[k].name : k \in 1 .. Len(arguments)} \cup {"runSpec"}
    /\ \A x \in DOMAIN s.external :
         s.external[x] = IF x = "runSpec" THEN "spec" ELSE LastValue(x)
    /\ ToSet(s.byproducts) = ToSet(s.of.outputs.artifacts) \cup ToSet(s.of.outputs.parameters)

(* handleProveneceAttachment: a statement is repeated for a pod only from a   *)
(* copy that does not show its annotation yet, or because a crash or a failing*)
(* call kept the annotation off, and then at most once for each of them.      *)
RepeatsAreExplained ==
  Cardinality({n \in 1 .. Len(statements) : ~ statements[n].stale})
    <= Cardinality(Pods) + faults
==============================================================================
