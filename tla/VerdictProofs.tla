---------------------------- MODULE VerdictProofs ----------------------------
(* What the Error label of a workflow tells, for every set of pods, every lag *)
(* of the informers and every budget of faults: while nothing but crashes has *)
(* gone wrong, the reconcile that sets it holds a copy of a pod marked Error. *)
EXTENDS ReconcilerProofs

Node(p) == Stored(wfStore).nodes[p]

(* Along the versions of a pod, what one has the later ones have: the pod has *)
(* succeeded, or the reconciler has begun with its artifact, and, as long as  *)
(* nothing was deleted, the pod is there.                                     *)
Ascending(S, vs) ==
  \A m, n \in 1 .. Len(vs) : m <= n /\ vs[m] \in S => vs[n] \in S

SucceededPods == {c \in Pod : c.phase = "Succeeded"}
LivePods == {c \in Pod : c.live}
BegunPods == {c \in Pod : c.ann["status"] \in {"In-Progress", "Completed", "Error"}}

LifeInv ==
  /\ \A kind \in FaultKinds : faults[kind] <= MaxFaults[kind]
  /\ \A p \in Pods : Ascending(SucceededPods, podStore[p])
  /\ Unharmed => \A p \in Pods :
       /\ Ascending(LivePods, podStore[p])
       /\ mem[p].pod.live => Versions(podStore[p]) \subseteq LivePods

(* The last phase of a node is the one every later copy shows.                *)
LastPhases == Finished \cup {"Omitted"}
SnapInv ==
  \A w \in Versions(wfStore) \cup {snap} : \A p \in Pods :
    w.nodes[p] \in LastPhases => Node(p) = w.nodes[p]

(* The worker is at a pod from the In-Progress patch to the patch of its      *)
(* final status, or only to set the latter when it skips the pod.             *)
Closed == {"Completed", "Error", "Skipped"}
Working == pc \in InPod /\ ~ (Pending /\ patch.key = "provenance")
Closing == Pending /\ patch.key = "status" /\ patch.val # "In-Progress"
Started == \/ pc \in {"Artifacts", "Signing", "Sbom", "Final"}
           \/ Pending /\ patch.key \in {"artifacts", "signed", "sbom"}
PastInfo == \/ pc \in {"Signing", "Sbom", "Final"}
            \/ Pending /\ patch.key \in {"artifacts", "signed", "sbom"}
PastSigning == \/ pc \in {"Sbom", "Final"}
               \/ Pending /\ patch.key = "sbom"

(* No copy still to be read keeps the reconciler from handling the pod.       *)
Ready(p) == /\ Versions(podStore[p]) \subseteq SucceededPods
            /\ Node(p) \in Finished \ {"Error"}
Touched(c) == c \in BegunPods \/ c.ann["artifacts"] = "Ref"

(* What the versions of a pod with an artifact say, each and in their order.  *)
VersionsOK(p) ==
  /\ Ascending(BegunPods, podStore[p])
  /\ (\E c \in Versions(podStore[p]) : Touched(c)) => Ready(p)
  /\ \A c \in Versions(podStore[p]) :
       /\ c.ann["status"] \in {"none", "In-Progress"} \cup Closed
       /\ c.ann["status"] = "Completed" => c.ann["signed"] # "none"
       /\ c.ann["status"] = "Skipped" => c.ann["artifacts"] # "Ref"

(* What the worker knows of the pod it is at.                                 *)
ClosingOK(p) ==
  /\ mem[p].reconciled /\ patch.val \in Closed
  /\ mem[p].found /\ ~ mem[p].signed => patch.val = "Error"
  /\ patch.val = "Completed" => Kept(p, "signed")
  /\ patch.val = "Skipped" => \A c \in Versions(podStore[p]) : ~ Touched(c)

WorkOK(p) ==
  /\ ~ (Closing /\ patch.val = "Skipped") => Ready(p)
  /\ Started => Stored(podStore[p]) \in BegunPods
  /\ PastInfo => mem[p].found
  /\ PastSigning /\ mem[p].found => Kept(p, "signed")
  /\ Closing => ClosingOK(p)

(* What it knows of the pods behind it, and of those still to come.           *)
RestOK(p) ==
  mem[p].found => /\ mem[p].reconciled
                  /\ mem[p].signed \/ mem[p].pod.ann["status"] = "Error"
Distinct == \A m, n \in 1 .. Len(order) : order[m] = order[n] => m = n
IsUnread(m) == ~ m.found /\ ~ m.reconciled
Unread == \A n \in 1 .. Len(order) :
  (pc = "Pod" /\ n >= i) \/ (Working /\ n > i) => IsUnread(mem[order[n]])

MemInv ==
  /\ \A p \in Pods : mem[p].found => p \in WithArtifact
  /\ \A p \in WithArtifact : IF Working /\ p = order[i] THEN WorkOK(p) ELSE RestOK(p)
  /\ Distinct /\ Unread
WorkInv == (\A p \in WithArtifact : VersionsOK(p)) /\ MemInv

(* Why the worker is about to set the Error label.                            *)
Excused == \/ \E n \in 1 .. Len(order) : mem[order[n]].pod.ann["status"] = "Error"
           \/ ~ Unharmed /\ FirstProblem(mem) = "none"
Failing == pc \in {"LabelGet", "LabelPatch"} /\ patch.val = "Error"
ErrorInv == Failing => Excused
------------------------------------------------------------------------------
(* Histories in order.                                                        *)
LEMMA AscendingHistory ==
  ASSUME NEW T, NEW vs \in Histories(T), NEW S, Ascending(S, vs)
  PROVE  /\ Cached(vs) \in S => Versions(vs) \subseteq S
         /\ \A v \in T : (Stored(vs) \in S => v \in S) => Ascending(S, Write(vs, v))
         /\ ~ Synced(vs) => Ascending(S, Deliver(vs))
         /\ Ascending(S, Relist(vs))
<1>0. vs \in Seq(T) /\ vs # <<>> /\ Len(vs) \in Nat /\ Len(vs) # 0
  BY EmptySeq DEF Histories
<1>1. Cached(vs) \in S => Versions(vs) \subseteq S
  <2>1. \A n \in 1 .. Len(vs) : 1 \in 1 .. Len(vs) /\ 1 <= n
    BY <1>0
  <2> QED BY <2>1 DEF Cached, Versions, Ascending
<1>2. ASSUME NEW v \in T, Stored(vs) \in S => v \in S
      PROVE  Ascending(S, Write(vs, v))
  <2>1. CASE v = Stored(vs)
    BY <2>1 DEF Write
  <2>2. CASE v # Stored(vs)
    <3> DEFINE ws == Append(vs, v)
    <3>1. /\ Len(ws) = Len(vs) + 1 /\ ws[Len(vs) + 1] = v
          /\ \A n \in 1 .. Len(vs) : ws[n] = vs[n]
      BY <1>0
    <3> SUFFICES ASSUME NEW m \in 1 .. Len(ws), NEW n \in 1 .. Len(ws),
                        m <= n, ws[m] \in S
                 PROVE  ws[n] \in S
      BY <2>2 DEF Write, Ascending
    <3>2. CASE m = Len(vs) + 1
      BY <1>0, <3>1, <3>2
    <3>3. CASE m \in 1 .. Len(vs) /\ n \in 1 .. Len(vs)
      BY <3>1, <3>3 DEF Ascending
    <3>4. CASE m \in 1 .. Len(vs) /\ n = Len(vs) + 1
      <4>1. Len(vs) \in 1 .. Len(vs) /\ m <= Len(vs)
        BY <1>0, <3>4
      <4>2. vs[Len(vs)] \in S
        BY <3>1, <3>4, <4>1 DEF Ascending
      <4> QED BY <1>2, <3>1, <3>4, <4>2 DEF Stored
    <3> QED BY <1>0, <3>1, <3>2, <3>3, <3>4
  <2> QED BY <2>1, <2>2
<1>3. ASSUME ~ Synced(vs)
      PROVE  Ascending(S, Deliver(vs))
  <2>1. /\ Len(Tail(vs)) = Len(vs) - 1
        /\ \A n \in 1 .. Len(vs) - 1 : Tail(vs)[n] = vs[n + 1]
    BY <1>0, HeadTailProperties
  <2>2. \A m, n \in 1 .. Len(vs) - 1 :
          m <= n => m + 1 \in 1 .. Len(vs) /\ n + 1 \in 1 .. Len(vs) /\ m + 1 <= n + 1
    BY <1>0
  <2> QED BY <2>1, <2>2 DEF Deliver, Ascending
<1>4. Ascending(S, Relist(vs))
  <2>1. Len(Relist(vs)) = 1
    BY DEF Relist
  <2>2. \A m, n \in 1 .. 1 : m = n
    OBVIOUS
  <2> QED BY <2>1, <2>2 DEF Ascending
<1> QED BY <1>1, <1>2, <1>3, <1>4

(* One step of the system moves the history of a pod by one write at most.    *)
LEMMA HistorySteps ==
  ASSUME TypeInv, [Next]_vars, NEW p \in Pods
  PROVE  \/ podStore'[p] = podStore[p]
         \/ NewVersion(p) \in Pod /\ podStore'[p] = Write(podStore[p], NewVersion(p))
         \/ ~ Synced(podStore[p]) /\ podStore'[p] = Deliver(podStore[p])
         \/ podStore'[p] = Relist(podStore[p])
<1>0. podStore[p] \in Histories(Pod) /\ podStore \in [Pods -> Histories(Pod)]
  BY DEF TypeInv, StoreOK
<1>1. ASSUME NEW q \in Pods, NEW c \in Pod, WritePod(q, c)
      PROVE  \/ podStore'[p] = podStore[p]
             \/ NewVersion(p) \in Pod /\ podStore'[p] = Write(podStore[p], NewVersion(p))
  <2>1. podStore'[q] = Write(podStore[q], c) /\ \A r \in Pods \ {q} : podStore'[r] = podStore[r]
    BY <1>0, <1>1 DEF WritePod
  <2>2. NewVersion(q) = c
    BY <1>1, OneWrite
  <2> QED BY <1>1, <2>1, <2>2
<1>2. CASE Worker
  <2>1. \/ podStore' = podStore
        \/ pc = "AnnPatch" /\ WritePod(order[i], AnnotationPatched(order[i]))
    BY <1>2 DEF Worker, BeginFails, BeginIgnores, BeginSecures, LabelGet, LabelPatch,
       LabelConflict, LabelFails, GetPodInfo, ReconcilePod, AnnotationGet,
       AnnotationPatch, AnnotationPatchFails, HandleArtifactInfo,
       HandleArtifactSigning, HandleSBOMgeneration, UpdateFinalStatus,
       ValidateAllPodsReconciled, HandleProvenanceAttachment, stores
  <2>2. CASE pc = "AnnPatch" /\ WritePod(order[i], AnnotationPatched(order[i]))
    <3>1. order[i] \in Pods /\ patch.key \in AnnKeys /\ patch.val \in AnnValues
      BY <2>2, LoopPod DEF InLoop, Labels, TypeInv, ControlOK, Patch
    <3>2. AnnotationPatched(order[i]) \in Pod
      BY <3>1, ReadsOK, OperatorTypes DEF AnnotationPatched
    <3> QED BY <1>1, <2>2, <3>1, <3>2
  <2> QED BY <2>1, <2>2
<1>3. CASE Environment
  <2>1. \A q \in Pods :
          /\ NewPod \in Pod
          /\ [Stored(podStore[q]) EXCEPT !.phase = "Succeeded"] \in Pod
          /\ [Stored(podStore[q]) EXCEPT !.phase = "Failed"] \in Pod
          /\ [Stored(podStore[q]) EXCEPT !.live = FALSE] \in Pod
    BY InitialObjects, ReadsOK DEF Pod
  <2>2. podStore' = podStore \/ \E q \in Pods, c \in Pod : WritePod(q, c)
    BY <1>3, <2>1 DEF Environment, StartNode, LeaveUnknown, FinishPod, FinishNode,
       DeletePod, DeleteWorkflow, Enable
  <2> QED BY <1>1, <2>2
<1>4. CASE Informers \/ Crash \/ UNCHANGED vars
  BY <1>0, <1>4 DEF Informers, SyncWorkflow, SyncPod, Resync, Crash, stores, vars
<1> QED BY <1>2, <1>3, <1>4 DEF Next

LEMMA AscendingStep ==
  ASSUME TypeInv, [Next]_vars, NEW p \in Pods, NEW S, Ascending(S, podStore[p]),
         Stored(podStore[p]) \in S => NewVersion(p) \in S
  PROVE  Ascending(S, podStore'[p])
<1>1. podStore[p] \in Histories(Pod)
  BY DEF TypeInv, StoreOK
<1> QED BY <1>1, AscendingHistory, HistorySteps

(* What every version has, the ones after a step have too.                    *)
LEMMA AllVersionsStep ==
  ASSUME TypeInv, [Next]_vars, NEW p \in Pods, NEW S, Versions(podStore[p]) \subseteq S,
         Stored(podStore[p]) \in S => NewVersion(p) \in S
  PROVE  Versions(podStore'[p]) \subseteq S
<1>1. Stored(podStore[p]) \in S
  BY ReadIsVersion DEF TypeInv, StoreOK
<1> QED BY <1>1, PodSteps DEF PodStep
------------------------------------------------------------------------------
(* The budget of faults only shrinks, and a pod that succeeded stays so.      *)
LEMMA FaultSteps ==
  ASSUME TypeInv, [Next]_vars
  PROVE  faults' = faults \/ \E kind \in FaultKinds : Spend(kind)
<1>1. CASE Worker
  BY <1>1
  DEF Worker, BeginFails, BeginIgnores, BeginSecures, LabelGet, LabelPatch,
      LabelConflict, LabelFails, GetPodInfo, ReconcilePod, AnnotationGet,
      AnnotationPatch, AnnotationPatchFails, HandleArtifactInfo,
      HandleArtifactSigning, HandleSBOMgeneration, UpdateFinalStatus,
      ValidateAllPodsReconciled, HandleProvenanceAttachment, FaultKinds
<1>2. CASE Environment
  BY <1>2
  DEF Environment, StartNode, LeaveUnknown, FinishPod, FinishNode, DeletePod,
      DeleteWorkflow, Enable, FaultKinds
<1>3. CASE Informers \/ Crash \/ UNCHANGED vars
  BY <1>3
  DEF Informers, SyncWorkflow, SyncPod, Resync, Crash, vars, FaultKinds
<1> QED BY <1>1, <1>2, <1>3 DEF Next

LEMMA UnharmedBefore ==
  ASSUME TypeInv, [Next]_vars, \A kind \in FaultKinds : faults[kind] <= MaxFaults[kind]
  PROVE  /\ \A kind \in FaultKinds : faults'[kind] <= MaxFaults[kind]
         /\ Unharmed' => Unharmed /\ \A kind \in FaultKinds \ {"crash"} : ~ Spend(kind)
<1>0. faults \in [FaultKinds -> Nat] /\ MaxFaults \in [FaultKinds -> Nat]
  BY ReconcilerAssumption DEF TypeInv, StoreOK
<1>1. CASE faults' = faults
  <2>1. \A kind \in FaultKinds : ~ Spend(kind)
    BY <1>0, <1>1 DEF Spend
  <2> QED BY <1>1, <2>1 DEF Unharmed
<1>2. ASSUME NEW spent \in FaultKinds, Spend(spent)
      PROVE  /\ \A kind \in FaultKinds : faults'[kind] <= MaxFaults[kind]
             /\ Unharmed' => Unharmed /\ \A kind \in FaultKinds \ {"crash"} : ~ Spend(kind)
  <2>1. /\ faults'[spent] = faults[spent] - 1
        /\ \A kind \in FaultKinds \ {spent} : faults'[kind] = faults[kind]
    BY <1>0, <1>2 DEF Spend
  <2>2. \A kind \in FaultKinds : Spend(kind) => kind = spent
    <3> SUFFICES ASSUME NEW kind \in FaultKinds, Spend(kind), kind # spent
                 PROVE  FALSE
      OBVIOUS
    <3>1. faults'[kind] = faults[kind] - 1
      BY <1>0 DEF Spend
    <3> QED BY <1>0, <2>1, <3>1
  <2>3. faults'[spent] # MaxFaults[spent]
    BY <1>0, <2>1
  <2>4. \A kind \in FaultKinds : faults'[kind] <= MaxFaults[kind]
    BY <1>0, <2>1
  <2>5. Unharmed' => spent = "crash"
    BY <2>3 DEF Unharmed
  <2>6. spent = "crash" => (Unharmed' => Unharmed)
    BY <2>1 DEF Unharmed
  <2> QED BY <2>2, <2>4, <2>5, <2>6
<1> QED BY <1>1, <1>2, FaultSteps

(* A pod that has succeeded stays so, and one that is there stays there as    *)
(* long as nothing is deleted.                                                *)
LEMMA LaterVersions ==
  ASSUME TypeInv, KeepInv, [Next]_vars, NEW p \in Pods
  PROVE  /\ NewVersion(p) \in Pod
         /\ Stored(podStore[p]) \in SucceededPods => NewVersion(p) \in SucceededPods
         /\ (Stored(podStore[p]) \in LivePods /\ ~ Spend("gone")) => NewVersion(p) \in LivePods
<1>0. NewVersion(p) \in Pod
  <2>1. podStore' \in [Pods -> Histories(Pod)]
    BY TypeNext DEF TypeInv, StoreOK
  <2>2. Stored(podStore'[p]) \in Pod
    BY <2>1, ReadIsVersion
  <2> QED BY <2>2, CopiesStep
<1>1. Stored(podStore[p]) \in Pod /\ NewPod.live
  BY StoredIsCopy DEF NewPod
<1>2. CASE NewVersion(p) = Stored(podStore[p])
  BY <1>0, <1>2 DEF SucceededPods, LivePods
<1>3. CASE PodCreated(p)
  <2>1. Unborn(p)
    BY <1>3, BornStays
  <2>2. Stored(podStore[p]) = NoPod
    BY <2>1, StoredIsCopy DEF KeepInv, UnbornIsUnseen
  <2> QED BY <1>0, <2>2 DEF NoPod, SucceededPods, LivePods
<1>4. CASE PodFinished(p)
  BY <1>0, <1>1, <1>4 DEF PodFinished, SucceededPods, LivePods, Pod
<1>5. CASE PodDeleted(p)
  BY <1>0, <1>1, <1>5 DEF PodDeleted, SucceededPods, LivePods, Pod
<1>6. CASE PodPatched(p)
  BY <1>0, <1>6, PatchedAnnotations DEF SucceededPods, LivePods
<1> QED BY <1>0, <1>2, <1>3, <1>4, <1>5, <1>6, PodSteps DEF PodStep

LEMMA LifeNext ==
  ASSUME TypeInv, KeepInv, ReadInv, LifeInv, [Next]_vars
  PROVE  LifeInv'
<1>1. /\ \A kind \in FaultKinds : faults'[kind] <= MaxFaults[kind]
      /\ Unharmed' => Unharmed /\ ~ Spend("gone")
  BY UnharmedBefore DEF LifeInv, FaultKinds
<1>2. ASSUME NEW p \in Pods
      PROVE  Ascending(SucceededPods, podStore'[p])
  BY AscendingStep, LaterVersions DEF LifeInv
<1>3. ASSUME NEW p \in Pods, Unharmed'
      PROVE  /\ Ascending(LivePods, podStore'[p])
             /\ mem'[p].pod.live => Versions(podStore'[p]) \subseteq LivePods
  <2>1. Unharmed /\ (Stored(podStore[p]) \in LivePods => NewVersion(p) \in LivePods)
    BY <1>1, <1>3, LaterVersions
  <2>2. Ascending(LivePods, podStore'[p])
    BY <2>1, AscendingStep DEF LifeInv
  <2>3. ASSUME mem'[p].pod.live
        PROVE  Versions(podStore[p]) \subseteq LivePods
    <3>1. CASE mem'[p].pod \in {mem[p].pod, NoPod}
      BY <2>1, <2>3, <3>1 DEF LifeInv, NoPod
    <3>2. CASE AnnotationPatch /\ p = order[i]
      <4>1. mem[p].pod.live
        BY <3>2 DEF AnnotationPatch, ReadInv, InPod
      <4> QED BY <2>1, <4>1 DEF LifeInv
    <3>3. CASE mem'[p].pod = Cached(podStore[p])
      <4>1. Cached(podStore[p]) \in LivePods
        BY <2>3, <3>3, StoredIsCopy DEF LivePods
      <4>2. podStore[p] \in Histories(Pod) /\ Ascending(LivePods, podStore[p])
        BY <2>1 DEF LifeInv, TypeInv, StoreOK
      <4> QED BY <4>1, <4>2, AscendingHistory
    <3> QED BY <3>1, <3>2, <3>3, MemorySteps DEF MemoryStep
  <2>4. mem'[p].pod.live => Versions(podStore'[p]) \subseteq LivePods
    BY <2>1, <2>3, AllVersionsStep
  <2> QED BY <2>2, <2>4
<1>4. Unharmed' => \A p \in Pods :
        /\ Ascending(LivePods, podStore'[p])
        /\ mem'[p].pod.live => Versions(podStore'[p]) \subseteq LivePods
  BY <1>3
<1> QED BY <1>1, <1>2, <1>4 DEF LifeInv, Ascending, Versions

LEMMA LifeInvariant == Spec => []LifeInv
<1>1. Init => LifeInv
  <2> SUFFICES ASSUME Init PROVE LifeInv
    OBVIOUS
  <2>1. \A kind \in FaultKinds : faults[kind] <= MaxFaults[kind]
    BY ReconcilerAssumption DEF Init
  <2>2. \A p \in Pods : podStore[p] = <<NoPod>> /\ mem[p].pod = NoPod /\ ~ NoPod.live
    BY DEF Init, NewStatus, NoPod
  <2>3. Len(<<NoPod>>) = 1 /\ \A m, n \in 1 .. 1 : m = n
    OBVIOUS
  <2>4. \A p \in Pods : \A S : Ascending(S, podStore[p])
    BY <2>2, <2>3 DEF Ascending
  <2> QED BY <2>1, <2>2, <2>4 DEF LifeInv
<1> QED BY <1>1, LifeNext, TypeInvariant, KeepInvariant, ReadInvariant, PTL DEF Spec
------------------------------------------------------------------------------
(* What the caches and the worker hold of the Workflow was stored before.     *)
LEMMA WorkflowVersions ==
  ASSUME TypeInv, [Next]_vars
  PROVE  Versions(wfStore)' \cup {snap'}
           \subseteq Versions(wfStore) \cup {snap, NoWorkflow, Stored(wfStore')}
<1>0. wfStore \in Histories(Workflow) /\ Stored(wfStore) \in Workflow
      /\ Cached(wfStore) \in Versions(wfStore)
  BY ReadsOK, ReadIsVersion DEF TypeInv, StoreOK
<1>1. \A v \in Workflow : WriteWf(v) =>
        Versions(wfStore)' = Versions(wfStore) \cup {v} /\ Stored(wfStore') = v
  <2>1. \A v \in Workflow : WriteWf(v) => wfStore' = Write(wfStore, v)
    BY DEF WriteWf
  <2>2. Versions(wfStore)' = Versions(wfStore')
    BY DEF Versions
  <2> QED BY <1>0, <2>1, <2>2, WriteAddsVersion
<1>2. CASE Worker
  <2>1. LabelPatched \in Workflow \/ pc # "LabelPatch"
    BY <1>0 DEF LabelPatched, Workflow, TypeInv, ControlOK
  <2>2. CASE LabelPatch
    BY <1>1, <2>1, <2>2 DEF LabelPatch, AfterLabel, End, Reset
  <2>3. CASE LabelFails
    BY <1>1, <2>1, <2>3 DEF LabelFails, End, Reset, Versions
  <2>4. CASE LabelGet \/ LabelConflict
    BY <1>0, <2>4 DEF LabelGet, LabelConflict, AfterLabel, End, Reset, stores, Versions
  <2>5. CASE \/ BeginFails \/ BeginIgnores \/ BeginSecures \/ GetPodInfo \/ ReconcilePod
             \/ AnnotationGet \/ AnnotationPatch \/ AnnotationPatchFails
             \/ HandleArtifactInfo \/ HandleArtifactSigning \/ HandleSBOMgeneration
             \/ UpdateFinalStatus \/ ValidateAllPodsReconciled
             \/ HandleProvenanceAttachment
    <3>1. wfStore' = wfStore
      BY <2>5 DEF BeginFails, BeginIgnores, BeginSecures, GetPodInfo, ReconcilePod,
         AnnotationGet, AnnotationPatch, AnnotationPatchFails, HandleArtifactInfo,
         HandleArtifactSigning, HandleSBOMgeneration, UpdateFinalStatus,
         ValidateAllPodsReconciled, HandleProvenanceAttachment, stores
    <3>2. snap' \in {snap, NoWorkflow, Cached(wfStore)}
      BY <2>5 DEF BeginFails, BeginIgnores, BeginSecures, GetPodInfo, ReconcilePod,
         AnnotationGet, AnnotationPatch, AnnotationPatchFails, AnnotationFails,
         HandleArtifactInfo, HandleArtifactSigning, HandleSBOMgeneration,
         UpdateFinalStatus, ValidateAllPodsReconciled, HandleProvenanceAttachment,
         NoPodPanics, PodMissing, End, Reset, Keep, worker
    <3> QED BY <1>0, <3>1, <3>2 DEF Versions
  <2> QED BY <1>2, <2>2, <2>3, <2>4, <2>5 DEF Worker
<1>3. CASE Environment
  <2>1. snap' = snap
    BY <1>3 DEF Environment, StartNode, LeaveUnknown, FinishPod, FinishNode, DeletePod,
       DeleteWorkflow, Enable, Quiet, worker
  <2>2. wfStore' = wfStore \/ \E v \in Workflow : WriteWf(v)
    <3>1. \A q \in Pods : \A phase \in NodePhases :
            SetNode(q, phase) => \E v \in Workflow : WriteWf(v)
      BY <1>0 DEF SetNode, Workflow
    <3>2. OddPhases \subseteq NodePhases
          /\ {"Running", "Succeeded", "Failed", "Error"} \subseteq NodePhases
      BY ReconcilerAssumption DEF NodePhases
    <3>3. \A v \in {[Stored(wfStore) EXCEPT !.live = FALSE],
                    [Stored(wfStore) EXCEPT !.enabled = TRUE]} : v \in Workflow
      BY <1>0 DEF Workflow
    <3>4. CASE DeleteWorkflow \/ Enable
      BY <3>3, <3>4 DEF DeleteWorkflow, Enable
    <3>5. ASSUME NEW q \in Pods, \/ StartNode(q) \/ LeaveUnknown(q) \/ FinishPod(q)
                                 \/ FinishNode(q) \/ DeletePod(q)
          PROVE  wfStore' = wfStore \/ \E phase \in NodePhases : SetNode(q, phase)
      BY <3>2, <3>5 DEF StartNode, LeaveUnknown, FinishPod, FinishNode, DeletePod
    <3> QED BY <1>3, <3>1, <3>4, <3>5 DEF Environment
  <2> QED BY <1>1, <2>1, <2>2 DEF Versions
<1>4. CASE Informers \/ Crash
  <2>1. /\ \/ wfStore' = wfStore
           \/ ~ Synced(wfStore) /\ wfStore' = Deliver(wfStore)
           \/ wfStore' = Relist(wfStore)
        /\ snap' \in {snap, NoWorkflow}
    BY <1>4 DEF Informers, SyncWorkflow, SyncPod, Resync, Crash, Reset, stores, worker
  <2>2. Versions(wfStore)' = Versions(wfStore')
    BY DEF Versions
  <2> QED BY <1>0, <2>1, <2>2, DeliveryKeepsVersions
<1>5. CASE UNCHANGED vars
  BY <1>5 DEF vars, stores, worker, Versions
<1> QED BY <1>2, <1>3, <1>4, <1>5 DEF Next

(* The last phase of a node stays.                                            *)
LEMMA LastPhaseStays ==
  ASSUME TypeInv, [Next]_vars, NEW p \in Pods, Node(p) \in LastPhases
  PROVE  Node(p)' = Node(p)
BY WorkflowSteps DEF WorkflowStep, NodeStep, Node, LastPhases, Finished

LEMMA SnapNext ==
  ASSUME TypeInv, SnapInv, [Next]_vars
  PROVE  SnapInv'
<1> SUFFICES ASSUME NEW w \in Versions(wfStore)' \cup {snap'}, NEW p \in Pods,
                    w.nodes[p] \in LastPhases
             PROVE  Node(p)' = w.nodes[p]
  BY DEF SnapInv
<1>1. CASE w \in Versions(wfStore) \cup {snap}
  BY <1>1, LastPhaseStays DEF SnapInv
<1>2. CASE w = Stored(wfStore')
  BY <1>2 DEF Node
<1>3. w # NoWorkflow
  BY DEF NoWorkflow, NewWorkflow, LastPhases, Finished
<1> QED BY <1>1, <1>2, <1>3, WorkflowVersions

LEMMA SnapInvariant == Spec => []SnapInv
<1>1. Init => SnapInv
  <2> SUFFICES ASSUME Init, NEW w \in Versions(wfStore) \cup {snap}, NEW p \in Pods
               PROVE  w.nodes[p] \notin LastPhases
    BY DEF SnapInv
  <2>1. w.nodes[p] = "Absent"
    BY DEF Init, Versions, NewWorkflow, NoWorkflow
  <2> QED BY <2>1 DEF LastPhases, Finished
<1> QED BY <1>1, SnapNext, TypeInvariant, PTL DEF Spec
------------------------------------------------------------------------------
BaseOK == /\ TypeInv /\ KeepInv /\ ReadInv /\ RecordInv /\ CoverInv
          /\ LifeInv /\ SnapInv

(* What the worker can rely on, whatever the others do meanwhile.             *)
LEMMA ReadyStays ==
  ASSUME BaseOK, [Next]_vars, NEW p \in Pods, Ready(p)
  PROVE  Ready(p)'
<1>1. Versions(podStore'[p]) \subseteq SucceededPods
  BY AllVersionsStep, LaterVersions DEF Ready, BaseOK
<1>2. Node(p)' = Node(p)
  BY LastPhaseStays DEF Ready, LastPhases, BaseOK
<1> QED BY <1>1, <1>2 DEF Ready, Versions

(* Only the pending patch changes what the annotations say.                   *)
LEMMA NewAnnotations ==
  ASSUME BaseOK, [Next]_vars, NEW p \in Pods, ~ PodPatched(p)
  PROVE  NewVersion(p).ann = Stored(podStore[p]).ann
<1>1. CASE PodCreated(p)
  <2>1. Stored(podStore[p]) = NoPod
    BY <1>1, BornStays, StoredIsCopy DEF KeepInv, UnbornIsUnseen, BaseOK
  <2> QED BY <1>1, <2>1 DEF PodCreated, NewPod, NoPod
<1> QED BY <1>1, PodSteps, OtherStepsKeepAnnotations DEF PodStep, BaseOK

(* The versions of a pod go on saying what they should.                       *)
LEMMA PatchedOK ==
  ASSUME BaseOK, WorkInv, [Next]_vars, NEW p \in WithArtifact, PodPatched(p)
  PROVE  LET old == Stored(podStore[p]).ann
             new == NewVersion(p).ann
         IN
         /\ Stored(podStore[p]) \in BegunPods => NewVersion(p) \in BegunPods
         /\ Touched(NewVersion(p)) => Ready(p)
         /\ new["status"] \in {"none", "In-Progress"} \cup Closed
         /\ new["status"] = "Completed" => new["signed"] # "none"
         /\ new["status"] = "Skipped" => new["artifacts"] # "Ref"
<1> DEFINE old == Stored(podStore[p]).ann
           new == NewVersion(p).ann
<1>0. /\ p \in Pods /\ TypeInv /\ KeepInv /\ VersionsOK(p)
      /\ pc = "AnnPatch" /\ p = order[i] /\ Stored(podStore[p]).live
      /\ podStore[p] \in Histories(Pod)
  BY ReconcilerAssumption DEF BaseOK, TypeInv, StoreOK, WorkInv, PodPatched
<1>1. /\ patch.key \in AnnKeys /\ patch.val # "none"
      /\ new[patch.key] = patch.val
      /\ \A k \in AnnKeys \ {patch.key} : new[k] = old[k]
      /\ NewVersion(p) \in Pod
  BY <1>0, PatchedAnnotations, LaterVersions DEF KeepInv, PatchesSet
<1>2. /\ Stored(podStore[p]) \in Versions(podStore[p]) /\ Stored(podStore[p]) \in Pod
      /\ Touched(Stored(podStore[p])) => Ready(p)
      /\ old["status"] \in {"none", "In-Progress"} \cup Closed
      /\ old["status"] = "Completed" => old["signed"] # "none"
      /\ old["status"] = "Skipped" => old["artifacts"] # "Ref"
  BY <1>0, ReadIsVersion DEF VersionsOK
<1>3. {"status", "artifacts", "signed"} \subseteq AnnKeys
  BY DEF AnnKeys
<1>4. NewVersion(p) \in BegunPods <=> new["status"] \in {"In-Progress", "Completed", "Error"}
  BY <1>1 DEF BegunPods
<1>5. Stored(podStore[p]) \in BegunPods <=> old["status"] \in {"In-Progress", "Completed", "Error"}
  BY <1>2 DEF BegunPods
<1>6. CASE patch.key \in {"sbom", "provenance"}
  BY <1>1, <1>2, <1>3, <1>4, <1>5, <1>6 DEF Touched
<1>7. CASE patch.key \in {"status", "artifacts", "signed"}
  <2>1. Working /\ WorkOK(p) /\ Pending
    BY <1>0, <1>7 DEF Working, Pending, InPod, WorkInv, MemInv
  <2>2. CASE patch.key = "signed"
    BY <1>1, <1>2, <1>3, <1>4, <1>5, <2>2 DEF Touched
  <2>3. CASE patch.key = "artifacts"
    <3>1. Ready(p) /\ Stored(podStore[p]) \in BegunPods
      BY <2>1, <2>3 DEF WorkOK, Closing, Started
    <3> QED BY <1>1, <1>2, <1>3, <1>4, <1>5, <2>3, <3>1
  <2>4. CASE patch.key = "status"
    <3>1. CASE patch.val = "In-Progress"
      <4>1. Ready(p)
        BY <2>1, <3>1 DEF WorkOK, Closing
      <4> QED BY <1>1, <1>2, <1>3, <1>4, <1>5, <2>4, <3>1, <4>1
    <3>2. CASE patch.val # "In-Progress"
      <4>1. ClosingOK(p)
        BY <2>1, <2>4, <3>2 DEF WorkOK, Closing
      <4>2. CASE patch.val = "Skipped"
        <5>1. ~ Touched(Stored(podStore[p]))
          BY <1>2, <4>1, <4>2 DEF ClosingOK
        <5> QED BY <1>1, <1>2, <1>3, <1>4, <1>5, <2>4, <4>2, <5>1 DEF Touched, Closed
      <4>3. CASE patch.val # "Skipped"
        <5>1. patch.val \in {"Completed", "Error"}
          BY <4>1, <4>3 DEF ClosingOK, Closed
        <5>2. patch.val = "Completed" => old["signed"] # "none"
          BY <1>0, <4>1 DEF ClosingOK, Kept
        <5>3. Ready(p)
          BY <2>1, <4>3 DEF WorkOK
        <5>4. new["status"] \in {"Completed", "Error"} /\ new["signed"] = old["signed"]
          BY <1>1, <1>3, <2>4, <5>1
        <5>5. new["status"] = "Completed" => new["signed"] # "none"
          BY <1>1, <2>4, <5>2, <5>4
        <5> QED BY <1>4, <5>3, <5>4, <5>5 DEF Closed
      <4> QED BY <4>2, <4>3
    <3> QED BY <3>1, <3>2
  <2> QED BY <1>7, <2>2, <2>3, <2>4
<1> QED BY <1>1, <1>6, <1>7 DEF AnnKeys

(* What a pod has begun stays, and what was not touched does, as long as the  *)
(* worker patches nothing.                                                    *)
LEMMA NewVersionOK ==
  ASSUME BaseOK, WorkInv, [Next]_vars, NEW p \in WithArtifact
  PROVE  LET new == NewVersion(p).ann IN
         /\ Stored(podStore[p]) \in BegunPods => NewVersion(p) \in BegunPods
         /\ Touched(NewVersion(p)) => Ready(p)
         /\ new["status"] \in {"none", "In-Progress"} \cup Closed
         /\ new["status"] = "Completed" => new["signed"] # "none"
         /\ new["status"] = "Skipped" => new["artifacts"] # "Ref"
         /\ ~ PodPatched(p) => (Touched(NewVersion(p)) => Touched(Stored(podStore[p])))
<1>0. p \in Pods /\ VersionsOK(p) /\ TypeInv
  BY ReconcilerAssumption DEF WorkInv, BaseOK
<1>1. CASE PodPatched(p)
  BY <1>1, PatchedOK
<1>2. CASE ~ PodPatched(p)
  <2>1. NewVersion(p).ann = Stored(podStore[p]).ann
    BY <1>0, <1>2, NewAnnotations
  <2>2. Stored(podStore[p]) \in Versions(podStore[p]) /\ Stored(podStore[p]) \in Pod
        /\ NewVersion(p) \in Pod
    BY <1>0, ReadIsVersion, LaterVersions DEF TypeInv, StoreOK, BaseOK
  <2>3. Touched(NewVersion(p)) <=> Touched(Stored(podStore[p]))
    BY <2>1, <2>2 DEF Touched, BegunPods
  <2>4. NewVersion(p) \in BegunPods <=> Stored(podStore[p]) \in BegunPods
    BY <2>1, <2>2 DEF BegunPods
  <2> QED BY <1>0, <2>1, <2>2, <2>3, <2>4 DEF VersionsOK
<1> QED BY <1>1, <1>2

LEMMA VersionsNext ==
  ASSUME BaseOK, WorkInv, [Next]_vars, NEW p \in WithArtifact
  PROVE  VersionsOK(p)'
<1>0. p \in Pods /\ VersionsOK(p) /\ TypeInv
  BY ReconcilerAssumption DEF WorkInv, BaseOK
<1>1. Ascending(BegunPods, podStore'[p])
  BY <1>0, AscendingStep, NewVersionOK DEF VersionsOK
<1>2. Versions(podStore'[p]) \subseteq Versions(podStore[p]) \cup {NewVersion(p)}
  BY <1>0, PodSteps DEF PodStep
<1>3. (\E c \in Versions(podStore'[p]) : Touched(c)) => Ready(p)'
  BY <1>0, <1>2, NewVersionOK, ReadyStays DEF VersionsOK
<1>4. \A c \in Versions(podStore'[p]) :
        /\ c.ann["status"] \in {"none", "In-Progress"} \cup Closed
        /\ c.ann["status"] = "Completed" => c.ann["signed"] # "none"
        /\ c.ann["status"] = "Skipped" => c.ann["artifacts"] # "Ref"
  BY <1>0, <1>2, NewVersionOK DEF VersionsOK
<1> QED BY <1>1, <1>3, <1>4 DEF VersionsOK, Ascending, Versions
------------------------------------------------------------------------------
(* Steps that leave the pods of the loop alone, forget them, or change the    *)
(* one the worker is at.                                                      *)
LEMMA MemForgotten ==
  ASSUME mem' = [p \in Pods |-> NewStatus], order' \in Seq(Pods), Distinct', ~ Working'
  PROVE  MemInv'
<1>1. \A p \in Pods : mem'[p].found = FALSE /\ mem'[p].reconciled = FALSE
  BY DEF NewStatus
<1>2. \A n \in 1 .. Len(order') : IsUnread(mem'[order'[n]])
  BY <1>1 DEF IsUnread
<1> QED BY <1>1, <1>2, ReconcilerAssumption DEF MemInv, RestOK, Unread

LEMMA MemReset ==
  ASSUME Reset
  PROVE  MemInv'
<1>1. order' = <<>> /\ Len(<<>>) = 0 /\ pc' = "Idle" /\ <<>> \in Seq(Pods)
  BY DEF Reset
<1>2. Distinct'
  BY <1>1 DEF Distinct
<1>3. ~ Working' /\ mem' = [p \in Pods |-> NewStatus]
  BY DEF Reset, Working, InPod
<1> QED BY <1>1, <1>2, <1>3, MemForgotten

LEMMA MemOutside ==
  ASSUME MemInv, UNCHANGED <<mem, order>>, ~ Working, ~ Working', pc' # "Pod"
  PROVE  MemInv'
BY DEF MemInv, RestOK, Distinct, Unread

LEMMA MemAt ==
  ASSUME BaseOK, MemInv, pc = "Pod" \/ Working, order' = order,
         NEW p \in Pods, p = order[i],
         \A q \in Pods \ {p} : mem'[q] = mem[q],
         mem'[p].found => p \in WithArtifact,
         \/ i' = i /\ Working' /\ (p \in WithArtifact => WorkOK(p)')
         \/ NextPod /\ (p \in WithArtifact => RestOK(p)')
  PROVE  MemInv'
<1>0. /\ order \in Seq(Pods) /\ i \in 1 .. Len(order)
      /\ Len(order) \in Nat /\ i \in Nat
      /\ \A n \in 1 .. Len(order) : order[n] \in Pods
  BY DEF BaseOK, TypeInv, MemoryOK, ControlOK, Working, InPod, InLoop, Labels
<1>1. Distinct'
  BY DEF MemInv, Distinct
<1>2. \A q \in Pods : mem'[q].found => q \in WithArtifact
  BY DEF MemInv
<1>3. \A n \in 1 .. Len(order) : n > i => IsUnread(mem'[order[n]])
  <2> SUFFICES ASSUME NEW n \in 1 .. Len(order), n > i
               PROVE  IsUnread(mem'[order[n]])
    OBVIOUS
  <2>1. order[n] # order[i]
    BY <1>0 DEF MemInv, Distinct
  <2>2. IsUnread(mem[order[n]])
    BY <1>0 DEF MemInv, Unread
  <2> QED BY <1>0, <2>1, <2>2
<1>4. \A q \in WithArtifact : q # p => RestOK(q)'
  <2> SUFFICES ASSUME NEW q \in WithArtifact, q # p
               PROVE  RestOK(q)'
    OBVIOUS
  <2>1. RestOK(q) /\ mem'[q] = mem[q]
    BY ReconcilerAssumption DEF MemInv
  <2> QED BY <2>1 DEF RestOK
<1>5. CASE i' = i /\ Working' /\ (p \in WithArtifact => WorkOK(p)')
  <2>1. pc' # "Pod"
    BY <1>5 DEF Working, InPod
  <2>2. Unread'
    BY <1>3, <1>5, <2>1 DEF Unread
  <2>3. \A q \in WithArtifact : (IF Working /\ q = order[i] THEN WorkOK(q) ELSE RestOK(q))'
    BY <1>4, <1>5
  <2> QED BY <1>1, <1>2, <2>2, <2>3 DEF MemInv
<1>6. CASE NextPod /\ (p \in WithArtifact => RestOK(p)')
  <2>1. ~ Working' /\ (pc' = "Pod" => i' = i + 1)
    BY <1>6 DEF NextPod, Working, InPod
  <2>2. \A n \in 1 .. Len(order) : n >= i + 1 => n > i
    BY <1>0
  <2>3. Unread'
    BY <1>3, <2>1, <2>2 DEF Unread
  <2>4. \A q \in WithArtifact : RestOK(q)'
    BY <1>4, <1>6
  <2> QED BY <1>1, <1>2, <2>1, <2>3, <2>4 DEF MemInv
<1> QED BY <1>5, <1>6

(* While the provenance is attached no pod has a problem, so that it does not *)
(* matter which copy of a pod the worker holds.                               *)
LEMMA MemAttesting ==
  ASSUME BaseOK, MemInv, Attesting, order' = order, ~ Working', pc' # "Pod",
         NEW p \in Pods, p = order[i],
         \A q \in Pods \ {p} : mem'[q] = mem[q],
         \E d : mem'[p] = [mem[p] EXCEPT !.pod = d]
  PROVE  MemInv'
<1>0. i \in 1 .. Len(order) /\ mem[p] \in PodStatus
  BY DEF BaseOK, TypeInv, MemoryOK, ControlOK, Attesting, InLoop, Labels
<1>1. Problem(mem[p]) = "none" /\ ~ Working
  BY <1>0 DEF BaseOK, CoverInv, Attesting, Working, Pending, InPod
<1>2. mem'[p].found = mem[p].found
      /\ mem'[p].reconciled = mem[p].reconciled
      /\ mem'[p].signed = mem[p].signed
  BY <1>0 DEF PodStatus
<1>3. RestOK(p)'
  BY <1>1, <1>2 DEF RestOK, Problem
<1>4. \A q \in WithArtifact : RestOK(q)'
  <2> SUFFICES ASSUME NEW q \in WithArtifact, q # p
               PROVE  RestOK(q)'
    BY <1>3
  <2>1. RestOK(q) /\ mem'[q] = mem[q]
    BY <1>1, ReconcilerAssumption DEF MemInv
  <2> QED BY <2>1 DEF RestOK
<1>5. Distinct' /\ Unread'
  BY <1>1 DEF MemInv, Distinct, Unread
<1>6. \A q \in Pods : mem'[q].found => q \in WithArtifact
  BY <1>2 DEF MemInv
<1> QED BY <1>1, <1>4, <1>5, <1>6 DEF MemInv

(* What the worker knows of its pod outlasts what the others do.              *)
LEMMA WorkStays ==
  ASSUME BaseOK, WorkInv, [Next]_vars, NEW p \in WithArtifact, Working, p = order[i]
  PROVE  /\ mem[p].pod.live /\ ~ Unborn(p) /\ p \in Pods
         /\ Ready(p) => Ready(p)'
         /\ Stored(podStore[p]) \in BegunPods => Stored(podStore'[p]) \in BegunPods
         /\ Kept(p, "signed") => Kept(p, "signed")'
         /\ ~ PodPatched(p) /\ (\A c \in Versions(podStore[p]) : ~ Touched(c))
              => \A c \in Versions(podStore'[p]) : ~ Touched(c)
<1>1. p \in Pods /\ mem[p].pod.live
  BY ReconcilerAssumption DEF BaseOK, ReadInv, Working
<1>2. ~ Unborn(p)
  BY <1>1 DEF BaseOK, KeepInv, UnbornIsUnseen, Copies, NoPod
<1>3. NewVersion(p) = Stored(podStore'[p])
      /\ Versions(podStore'[p]) \subseteq Versions(podStore[p]) \cup {NewVersion(p)}
      /\ Stored(podStore[p]) \in Versions(podStore[p])
  BY <1>1, CopiesStep, PodSteps, ReadIsVersion DEF BaseOK, PodStep, TypeInv, StoreOK
<1>4. Kept(p, "signed") => Kept(p, "signed")'
  BY <1>1, <1>2, KeptStays DEF BaseOK, AnnKeys
<1> QED BY <1>1, <1>2, <1>3, <1>4, ReadyStays, NewVersionOK
------------------------------------------------------------------------------
LEMMA OrderIsInjective ==
  ASSUME NEW S \in SUBSET Pods, S # {}, NEW s \in SetToSeqs(S)
  PROVE  \A m, n \in 1 .. Len(s) : s[m] = s[n] => m = n
<1>1. IsFiniteSet(S)
  BY ReconcilerAssumption, FS_Subset
<1>2. Cardinality(S) \in Nat
  BY <1>1, FS_CardinalityType
<1>3. /\ s \in [1 .. Cardinality(S) -> S]
      /\ \A m, n \in 1 .. Cardinality(S) : m # n => s[m] # s[n]
  BY DEF SetToSeqs
<1>4. Len(s) = Cardinality(S)
  BY <1>2, <1>3
<1> QED BY <1>3, <1>4

(* A pod the reconciler finds done was signed, or says it could not be.       *)
LEMMA ClosedIsSigned ==
  ASSUME BaseOK, WorkInv, NEW p \in WithArtifact, NEW c \in Versions(podStore[p]),
         c.ann["artifacts"] = "Ref", c.ann["status"] \notin {"none", "In-Progress"}
  PROVE  c.ann["signed"] # "none" \/ c.ann["status"] = "Error"
BY DEF WorkInv, VersionsOK, Closed

(* The handlers, one lemma each.                                              *)
LEMMA MemOutsideSteps ==
  ASSUME BaseOK, MemInv, [Next]_vars,
         \/ BeginFails \/ BeginIgnores \/ BeginSecures \/ LabelGet \/ LabelPatch
         \/ LabelConflict \/ LabelFails \/ GetPodInfo \/ ValidateAllPodsReconciled
         \/ HandleProvenanceAttachment
  PROVE  MemInv'
<1>1. CASE Reset
  BY <1>1, MemReset
<1>2. CASE BeginFails \/ BeginIgnores \/ BeginSecures \/ LabelGet \/ LabelPatch
             \/ LabelConflict \/ LabelFails \/ ValidateAllPodsReconciled
  <2>1. \/ Reset
        \/ /\ UNCHANGED <<mem, order>>
           /\ pc \in {"Idle", "LabelGet", "LabelPatch", "Validate"}
           /\ pc' \in {"Idle", "LabelGet", "LabelPatch", "PodInfo", "Attest"}
    BY <1>2 DEF BeginFails, BeginIgnores, BeginSecures, LabelGet, LabelPatch,
       LabelConflict, LabelFails, ValidateAllPodsReconciled, AfterLabel, End, Goto, Set,
       Keep, worker
  <2> QED BY <1>1, <2>1, MemOutside DEF Working, InPod
<1>3. CASE GetPodInfo
  <2> DEFINE known == {p \in Pods : snap.nodes[p] # "Absent"}
  <2>1. CASE known = {}
    BY <1>1, <1>3, <2>1 DEF GetPodInfo, End
  <2>2. CASE known # {}
    <3>1. /\ order' \in SetToSeqs(known) /\ mem' = [p \in Pods |-> NewStatus]
          /\ pc' = "Pod"
      BY <1>3, <2>2 DEF GetPodInfo
    <3>2. order' \in Seq(Pods) /\ Len(order') \in Nat
      BY <2>2, <3>1, OrderIsSequence
    <3>3. Distinct'
      BY <2>2, <3>1, OrderIsInjective DEF Distinct
    <3> QED BY <3>1, <3>2, <3>3, MemForgotten DEF Working, InPod
  <2> QED BY <2>1, <2>2
<1>4. CASE HandleProvenanceAttachment
  <2>1. \/ Reset
        \/ /\ UNCHANGED <<mem, order>>
           /\ \/ pc' \in {"LabelGet", "Attest"}
              \/ pc' = "AnnGet" /\ patch'.key = "provenance"
    BY <1>4 DEF HandleProvenanceAttachment, NoPodPanics, End, NextAttest, Set, Keep
  <2>2. pc = "Attest"
    BY <1>4 DEF HandleProvenanceAttachment
  <2> QED BY <1>1, <2>1, <2>2, MemOutside DEF Working, InPod, Pending
<1> QED BY <1>2, <1>3, <1>4

LEMMA MemReconcilePod ==
  ASSUME BaseOK, WorkInv, [Next]_vars, ReconcilePod, NEW p \in Pods, p = order[i]
  PROVE  MemInv'
<1> DEFINE c == Cached(podStore[p])
           m == Load(mem[p], c)
           phase == snap.nodes[p]
<1>0. /\ pc = "Pod" /\ mem[p] \in PodStatus /\ mem \in [Pods -> PodStatus]
      /\ i \in 1 .. Len(order) /\ i \in Nat /\ MemInv
      /\ wfStore' = wfStore /\ podStore' = podStore
      /\ ~ Working
  BY LoopPod DEF ReconcilePod, BaseOK, TypeInv, MemoryOK, ControlOK, InLoop, Labels, WorkInv,
                 stores, Working, InPod
<1>1. ~ mem[p].found /\ ~ mem[p].reconciled
  BY <1>0 DEF MemInv, Unread, IsUnread
<1>2. /\ c \in Pod /\ c \in Versions(podStore[p]) /\ c \in Copies(p)
      /\ podStore[p] \in Histories(Pod)
  BY <1>0, ReadIsVersion DEF BaseOK, TypeInv, StoreOK, Copies
<1>3. /\ m.pod = c /\ m.found = (c.ann["artifacts"] \notin {"none", "NotFound"})
      /\ m.signed = (mem[p].signed \/ c.ann["signed"] # "none")
      /\ m.reconciled = (mem[p].reconciled \/ c.ann["status"] \notin {"none", "In-Progress"})
  BY <1>0, <1>1 DEF Load, PodStatus
<1>4. m.found => p \in WithArtifact /\ c.ann["artifacts"] = "Ref"
  BY <1>0, <1>2, <1>3 DEF BaseOK, RecordInv, OneReference, Extract
<1>5. CASE Reset
  BY <1>5, MemReset
<1>6. CASE phase = "Running" /\ NextPod /\ Keep /\ mem' = mem
  <2>1. p \in WithArtifact => RestOK(p)
    BY <1>0 DEF MemInv
  <2>2. p \in WithArtifact => RestOK(p)'
    BY <1>6, <2>1 DEF RestOK
  <2> QED BY <1>0, <1>1, <1>6, <2>2, MemAt DEF Keep
<1>7. CASE mem' = [mem EXCEPT ![p] = [mem[p] EXCEPT !.reconciled = TRUE]] /\ NextPod /\ Keep
  <2>1. mem'[p].found = mem[p].found /\ \A q \in Pods \ {p} : mem'[q] = mem[q]
    BY <1>0, <1>7 DEF PodStatus
  <2>2. ~ mem'[p].found
    BY <1>1, <2>1
  <2>3. RestOK(p)'
    BY <2>2 DEF RestOK
  <2> QED BY <1>0, <1>7, <2>1, <2>2, <2>3, MemAt DEF Keep
<1>8. CASE m.reconciled /\ mem' = [mem EXCEPT ![p] = m] /\ NextPod /\ Keep
  <2>1. mem'[p] = m /\ \A q \in Pods \ {p} : mem'[q] = mem[q]
    BY <1>0, <1>8
  <2>2. ASSUME p \in WithArtifact, m.found
        PROVE  m.reconciled /\ (m.signed \/ m.pod.ann["status"] = "Error")
    BY <1>1, <1>2, <1>3, <1>4, <1>8, <2>2, ClosedIsSigned
  <2>3. p \in WithArtifact => RestOK(p)'
    BY <2>1, <2>2 DEF RestOK
  <2> QED BY <1>0, <1>4, <1>8, <2>1, <2>3, MemAt DEF Keep
<1>9. CASE /\ phase \in Finished /\ SkipsPod(phase, c)
           /\ mem' = [mem EXCEPT ![p] = [m EXCEPT !.reconciled = TRUE]]
           /\ Set("status", "Skipped") /\ Keep
  <2>1. /\ mem'[p].found = m.found /\ mem'[p].reconciled = TRUE
        /\ \A q \in Pods \ {p} : mem'[q] = mem[q]
    BY <1>0, <1>9 DEF Load
  <2>2. ~ Ready(p)
    <3>1. phase = "Error" => Node(p) = "Error"
      BY <1>0 DEF BaseOK, SnapInv, LastPhases, Finished
    <3>2. c.phase # "Succeeded" => c \notin SucceededPods
      BY DEF SucceededPods
    <3> QED BY <1>2, <1>9, <3>1, <3>2 DEF SkipsPod, Ready
  <2>3. p \in WithArtifact => \A v \in Versions(podStore[p]) : ~ Touched(v)
    BY <2>2 DEF WorkInv, VersionsOK
  <2>4. ~ m.found
    BY <1>2, <1>4, <2>3 DEF Touched
  <2>5. /\ pc' = "AnnGet" /\ i' = i /\ patch' = [key |-> "status", val |-> "Skipped"]
        /\ order' = order
    BY <1>9 DEF Set, Keep
  <2>6. Working' /\ Closing' /\ ~ Started' /\ ~ PastInfo' /\ ~ PastSigning'
    BY <2>5 DEF Working, Closing, Started, PastInfo, PastSigning, Pending, InPod
  <2>7. p \in WithArtifact => ClosingOK(p)'
    BY <1>0, <2>1, <2>3, <2>4, <2>5 DEF ClosingOK, Closed, Versions, Touched
  <2>8. p \in WithArtifact => WorkOK(p)'
    BY <2>5, <2>6, <2>7 DEF WorkOK
  <2> QED BY <1>0, <2>1, <2>4, <2>5, <2>6, <2>8, MemAt
<1>10. CASE /\ phase \in Finished /\ ~ SkipsPod(phase, c)
            /\ mem' = [mem EXCEPT ![p] = m]
            /\ Set("status", "In-Progress") /\ Keep
  <2>1. mem'[p] = m /\ \A q \in Pods \ {p} : mem'[q] = mem[q]
    BY <1>0, <1>10
  <2>2. Node(p) = phase /\ phase # "Error"
    BY <1>0, <1>10 DEF BaseOK, SnapInv, LastPhases, SkipsPod
  <2>3. c \in SucceededPods
    BY <1>2, <1>10 DEF SkipsPod, SucceededPods
  <2>4. Ready(p)
    BY <1>0, <1>2, <1>10, <2>2, <2>3, AscendingHistory DEF Ready, BaseOK, LifeInv
  <2>5. Ready(p)'
    BY <1>0, <2>4, ReadyStays
  <2>6. /\ pc' = "AnnGet" /\ i' = i /\ patch' = [key |-> "status", val |-> "In-Progress"]
        /\ order' = order
    BY <1>10 DEF Set, Keep
  <2>7. Working' /\ ~ Closing' /\ ~ Started' /\ ~ PastInfo' /\ ~ PastSigning'
    BY <2>6 DEF Working, Closing, Started, PastInfo, PastSigning, Pending, InPod
  <2>8. WorkOK(p)'
    BY <2>5, <2>7 DEF WorkOK
  <2> QED BY <1>0, <1>4, <2>1, <2>6, <2>7, <2>8, MemAt
<1>11. mem' = [mem EXCEPT ![p].reconciled = TRUE]
         => mem' = [mem EXCEPT ![p] = [mem[p] EXCEPT !.reconciled = TRUE]]
  OBVIOUS
<1> QED BY <1>5, <1>6, <1>7, <1>8, <1>9, <1>10, <1>11 DEF ReconcilePod, PodMissing, End
------------------------------------------------------------------------------
(* PatchAnnotations: after a success, with the copy d that shows the          *)
(* annotation, and after an error.                                            *)
LEMMA MemPatched ==
  ASSUME BaseOK, WorkInv, [Next]_vars, NEW p \in Pods, p = order[i], Pending,
         patch.key # "provenance", NEW d, d.ann[patch.key] = patch.val,
         mem' = [mem EXCEPT ![p] = [mem[p] EXCEPT !.pod = d]], Keep, AfterAnnotation,
         patch.key = "status" /\ patch.val = "In-Progress" /\ p \in WithArtifact
           => Stored(podStore'[p]) \in BegunPods
  PROVE  MemInv'
<1>0. /\ Working /\ MemInv /\ order' = order /\ patch.key \in AnnKeys
      /\ mem \in [Pods -> PodStatus] /\ mem[p] \in PodStatus
  BY DEF Working, Pending, InPod, WorkInv, Keep, BaseOK, TypeInv, MemoryOK, ControlOK
<1>1. /\ mem'[p].pod = d /\ mem'[p].found = mem[p].found
      /\ mem'[p].signed = mem[p].signed /\ mem'[p].reconciled = mem[p].reconciled
      /\ \A q \in Pods \ {p} : mem'[q] = mem[q]
  BY <1>0 DEF PodStatus
<1>2. mem'[p].found => p \in WithArtifact
  BY <1>0, <1>1 DEF MemInv
<1>3. p \in WithArtifact => WorkOK(p)
  BY <1>0 DEF MemInv
<1>4. p \in WithArtifact => /\ Ready(p) => Ready(p)'
                            /\ Stored(podStore[p]) \in BegunPods => Stored(podStore'[p]) \in BegunPods
                            /\ Kept(p, "signed") => Kept(p, "signed")'
  BY <1>0, WorkStays
<1>5. ASSUME p \in WithArtifact => WorkOK(p)', i' = i, Working'
      PROVE  MemInv'
  BY <1>0, <1>1, <1>2, <1>5, MemAt
<1>6. CASE patch.key = "status" /\ patch.val = "In-Progress"
  <2>1. pc' = "Artifacts" /\ i' = i
    BY <1>6 DEF AfterAnnotation, Goto
  <2>2. Working' /\ ~ Closing' /\ Started' /\ ~ PastInfo' /\ ~ PastSigning'
    BY <2>1 DEF Working, Closing, Started, PastInfo, PastSigning, Pending, InPod
  <2>3. p \in WithArtifact => Ready(p) /\ Ready(p)'
    BY <1>3, <1>4, <1>6 DEF WorkOK, Closing
  <2>4. p \in WithArtifact => WorkOK(p)'
    BY <1>6, <2>2, <2>3 DEF WorkOK, Stored
  <2> QED BY <1>5, <2>1, <2>2, <2>4
<1>7. CASE patch.key = "status" /\ patch.val # "In-Progress"
  <2>1. NextPod
    BY <1>7 DEF AfterAnnotation
  <2>2. p \in WithArtifact => ClosingOK(p)
    BY <1>3, <1>7 DEF WorkOK, Closing
  <2>3. p \in WithArtifact => RestOK(p)'
    BY <1>1, <1>7, <2>2 DEF RestOK, ClosingOK
  <2> QED BY <1>0, <1>1, <1>2, <2>1, <2>3, MemAt
<1>8. CASE patch.key \in {"artifacts", "signed", "sbom"}
  <2>1. /\ i' = i
        /\ patch.key = "artifacts" => pc' = "Signing"
        /\ patch.key = "signed" => pc' \in {"Sbom", "Final"}
        /\ patch.key = "sbom" => pc' = "Final"
    BY <1>8 DEF AfterAnnotation, Goto
  <2>2. Working' /\ ~ Closing' /\ Started' /\ PastInfo'
        /\ (PastSigning' => patch.key \in {"signed", "sbom"})
    BY <1>8, <2>1 DEF Working, Closing, Started, PastInfo, PastSigning, Pending, InPod
  <2>3. p \in WithArtifact => /\ Ready(p)' /\ Stored(podStore'[p]) \in BegunPods
                              /\ mem'[p].found
    BY <1>0, <1>1, <1>3, <1>4, <1>8 DEF WorkOK, Closing, Started, PastInfo, Pending
  <2>4. p \in WithArtifact /\ patch.key = "sbom" /\ mem[p].found => Kept(p, "signed")'
    BY <1>3, <1>4 DEF WorkOK, PastSigning
  <2>5. patch.key = "signed" => Kept(p, "signed")'
    <3>1. KeepInv'
      BY KeepNext DEF BaseOK
    <3>2. mem'[p].pod \in Copies(p)' /\ patch.val # "none"
      BY DEF Copies, BaseOK, KeepInv, PatchesSet, Pending
    <3> QED BY <1>1, <3>1, <3>2 DEF KeepInv, NothingLost, AnnKeys
  <2>6. p \in WithArtifact => WorkOK(p)'
    BY <1>1, <2>2, <2>3, <2>4, <2>5 DEF WorkOK, Stored
  <2> QED BY <1>5, <2>1, <2>2, <2>6
<1> QED BY <1>0, <1>6, <1>7, <1>8 DEF AnnKeys

LEMMA MemFails ==
  ASSUME BaseOK, WorkInv, [Next]_vars, NEW p \in Pods, p = order[i], Pending,
         AnnotationFails
  PROVE  MemInv'
<1>1. CASE patch.key = "sbom"
  <2>1. pc' = "Final" /\ i' = i /\ mem' = mem /\ order' = order
    BY <1>1 DEF AnnotationFails, Goto, Keep
  <2>2. Working /\ Started /\ PastInfo /\ PastSigning /\ ~ Closing /\ MemInv
    BY <1>1 DEF Working, Pending, InPod, Started, PastInfo, PastSigning, Closing, WorkInv
  <2>3. Working' /\ ~ Closing'
    BY <2>1 DEF Working, Pending, InPod, Closing
  <2>4. ASSUME p \in WithArtifact
        PROVE  WorkOK(p)'
    <3>1. WorkOK(p)
      BY <2>2, <2>4 DEF MemInv
    <3>2. /\ Ready(p) => Ready(p)'
          /\ Stored(podStore[p]) \in BegunPods => Stored(podStore'[p]) \in BegunPods
          /\ Kept(p, "signed") => Kept(p, "signed")'
      BY <2>2, <2>4, WorkStays
    <3> QED BY <2>1, <2>2, <2>3, <3>1, <3>2 DEF WorkOK, Stored
  <2> QED BY <2>1, <2>2, <2>3, <2>4, MemAt DEF MemInv
<1>2. CASE patch.key = "provenance"
  <2>1. pc' = "LabelGet" /\ mem' = mem /\ order' = order
    BY <1>2 DEF AnnotationFails, Set, Keep
  <2> QED BY <1>2, <2>1, MemOutside DEF Working, Pending, InPod, WorkInv
<1>3. CASE patch.key \notin {"sbom", "provenance"}
  BY <1>3, MemReset DEF AnnotationFails, End
<1> QED BY <1>1, <1>2, <1>3

LEMMA MemAnnotation ==
  ASSUME BaseOK, WorkInv, [Next]_vars, NEW p \in Pods, p = order[i],
         AnnotationGet \/ AnnotationPatch \/ AnnotationPatchFails
  PROVE  MemInv'
<1> DEFINE c == Cached(podStore[p])
<1>0. /\ Pending /\ MemInv /\ mem \in [Pods -> PodStatus] /\ mem[p] \in PodStatus
      /\ podStore[p] \in Histories(Pod)
  BY DEF AnnotationGet, AnnotationPatch, AnnotationPatchFails, Pending, WorkInv, BaseOK,
         TypeInv, MemoryOK, StoreOK
<1>1. CASE AnnotationFails
  BY <1>0, <1>1, MemFails
<1>2. ASSUME NEW d, mem' = [mem EXCEPT ![p] = [mem[p] EXCEPT !.pod = d]], Keep,
             patch.key = "provenance", AfterAnnotation \/ Goto("AnnPatch")
      PROVE  MemInv'
  <2>1. Attesting /\ order' = order
    BY <1>0, <1>2 DEF Attesting, Pending, Keep
  <2>2. \/ pc' \in {"Attest", "LabelGet"}
        \/ pc' = "AnnPatch" /\ patch' = patch
    BY <1>2 DEF AfterAnnotation, NextAttest, Goto, Set
  <2>3. ~ Working' /\ pc' # "Pod"
    BY <1>2, <2>2 DEF Working, Pending, InPod
  <2>4. mem'[p] = [mem[p] EXCEPT !.pod = d] /\ \A q \in Pods \ {p} : mem'[q] = mem[q]
    BY <1>0, <1>2
  <2> QED BY <1>0, <2>1, <2>3, <2>4, MemAttesting
<1>3. CASE AnnotationGet /\ ~ AnnotationFails
  <2>1. /\ mem' = [mem EXCEPT ![p] = [mem[p] EXCEPT !.pod = c]] /\ Keep
        /\ podStore' = podStore /\ pc = "AnnGet"
        /\ IF c.ann[patch.key] = patch.val THEN AfterAnnotation ELSE Goto("AnnPatch")
    BY <1>3 DEF AnnotationGet, stores
  <2>2. CASE patch.key = "provenance"
    BY <1>2, <2>1, <2>2
  <2>3. CASE patch.key # "provenance" /\ c.ann[patch.key] = patch.val
    <3>1. ASSUME patch.key = "status", patch.val = "In-Progress", p \in WithArtifact
          PROVE  Stored(podStore'[p]) \in BegunPods
      <4>1. c \in BegunPods
        BY <2>3, <3>1, StoredIsCopy DEF BegunPods, BaseOK
      <4>2. Ascending(BegunPods, podStore[p])
        BY <3>1 DEF WorkInv, VersionsOK
      <4>3. Stored(podStore[p]) \in Versions(podStore[p])
        BY <1>0, ReadIsVersion
      <4> QED BY <1>0, <2>1, <4>1, <4>2, <4>3, AscendingHistory
    <3> QED BY <1>0, <2>1, <2>3, <3>1, MemPatched
  <2>4. CASE patch.key # "provenance" /\ c.ann[patch.key] # patch.val
    <3>1. pc' = "AnnPatch" /\ i' = i /\ patch' = patch /\ order' = order
      BY <2>1, <2>4 DEF Goto, Keep
    <3>2. Working /\ Working' /\ (Closing' <=> Closing) /\ (Started' <=> Started)
          /\ (PastInfo' <=> PastInfo) /\ (PastSigning' <=> PastSigning)
      BY <2>1, <2>4, <3>1
      DEF Working, Pending, InPod, Closing, Started, PastInfo, PastSigning
    <3>3. /\ mem'[p].found = mem[p].found /\ mem'[p].signed = mem[p].signed
          /\ mem'[p].reconciled = mem[p].reconciled
          /\ \A q \in Pods \ {p} : mem'[q] = mem[q]
      BY <1>0, <2>1 DEF PodStatus
    <3>4. ASSUME p \in WithArtifact
          PROVE  WorkOK(p)'
      <4>1. WorkOK(p)
        BY <1>0, <3>2, <3>4 DEF MemInv
      <4>2. Ready(p) => Ready(p)'
        BY ReadyStays
      <4>3. Kept(p, "signed") => Kept(p, "signed")'
        BY <2>1 DEF Kept
      <4>4. ClosingOK(p) => ClosingOK(p)'
        BY <2>1, <3>1, <3>3, <4>3 DEF ClosingOK
      <4> QED BY <2>1, <3>1, <3>2, <3>3, <4>1, <4>2, <4>3, <4>4 DEF WorkOK
    <3> QED BY <1>0, <3>1, <3>2, <3>3, <3>4, MemAt DEF MemInv
  <2> QED BY <2>2, <2>3, <2>4
<1>4. CASE AnnotationPatch
  <2> DEFINE d == AnnotationPatched(p)
  <2>1. /\ mem' = [mem EXCEPT ![p] = [mem[p] EXCEPT !.pod = d]] /\ Keep
        /\ AfterAnnotation /\ WritePod(p, d)
    BY <1>4 DEF AnnotationPatch
  <2>2. patch.key \in AnnKeys /\ patch.val \in AnnValues
    BY <1>0 DEF BaseOK, TypeInv, ControlOK, Patch, Pending
  <2>3. d \in Pod /\ d.ann[patch.key] = patch.val
    <3>1. Stored(podStore[p]) \in Pod /\ d \in Pod
      BY <2>2, ReadsOK, OperatorTypes DEF AnnotationPatched, BaseOK
    <3> QED BY <2>2, <3>1 DEF AnnotationPatched, Annotate, Pod
  <2>4. Stored(podStore'[p]) = d
    BY <2>1, <2>3, OneWrite, CopiesStep DEF BaseOK
  <2>5. patch.key = "status" /\ patch.val = "In-Progress" => d \in BegunPods
    BY <2>3 DEF BegunPods
  <2> QED BY <1>0, <1>2, <2>1, <2>3, <2>4, <2>5, MemPatched
<1> QED BY <1>1, <1>3, <1>4 DEF AnnotationPatchFails
------------------------------------------------------------------------------
LEMMA MemHandlers ==
  ASSUME BaseOK, WorkInv, [Next]_vars, NEW p \in Pods, p = order[i],
         \/ HandleArtifactInfo \/ HandleArtifactSigning \/ HandleSBOMgeneration
         \/ UpdateFinalStatus
  PROVE  MemInv'
<1>0. /\ Working /\ MemInv /\ order' = order /\ podStore' = podStore /\ i' = i
      /\ mem \in [Pods -> PodStatus] /\ mem[p] \in PodStatus
      /\ ~ Closing
  BY DEF HandleArtifactInfo, HandleArtifactSigning, HandleSBOMgeneration,
         UpdateFinalStatus, Working, Pending, InPod, Closing, Keep, stores, WorkInv, BaseOK,
         TypeInv, MemoryOK, AfterSigning, Goto, Set
<1>1. p \in WithArtifact =>
        /\ WorkOK(p) /\ mem[p].pod.live
        /\ Ready(p) /\ Ready(p)'
        /\ Kept(p, "signed") => Kept(p, "signed")'
  <2>1. p \in WithArtifact => WorkOK(p)
    BY <1>0 DEF MemInv
  <2> QED BY <1>0, <2>1, WorkStays DEF WorkOK
<1>2. p \in WithArtifact => Stored(podStore[p]) \in BegunPods
  BY <1>1 DEF WorkOK, Started, HandleArtifactInfo, HandleArtifactSigning,
              HandleSBOMgeneration, UpdateFinalStatus
<1>3. CASE HandleArtifactInfo
  <2>1. /\ \A q \in Pods \ {p} : mem'[q] = mem[q]
        /\ \/ mem'[p].found = (Extract(p) # "NotFound")
           \/ /\ mem[p].pod.ann["artifacts"] # "none"
              /\ mem'[p].found = (mem[p].pod.ann["artifacts"] # "NotFound")
    BY <1>0, <1>3 DEF HandleArtifactInfo, PodStatus
  <2>2. mem[p].pod.ann["artifacts"] \in {"none", Extract(p)}
    BY DEF BaseOK, RecordInv, OneReference, Copies
  <2>3. mem'[p].found <=> p \in WithArtifact
    BY <2>1, <2>2 DEF Extract
  <2>4. /\ Working' /\ ~ Closing' /\ ~ PastSigning'
    BY <1>3 DEF HandleArtifactInfo, Set, Goto, Working, Pending, InPod, Closing, PastSigning
  <2>5. p \in WithArtifact => WorkOK(p)'
    BY <1>0, <1>1, <1>2, <2>3, <2>4 DEF WorkOK
  <2> QED BY <1>0, <2>1, <2>3, <2>4, <2>5, MemAt
<1>4. CASE HandleArtifactSigning
  <2>1. /\ \A q \in Pods \ {p} : mem'[q] = mem[q]
        /\ mem'[p].found = mem[p].found
    BY <1>0, <1>4 DEF HandleArtifactSigning, PodStatus
  <2>2. p \in WithArtifact => mem[p].found
    BY <1>1, <1>4 DEF WorkOK, PastInfo, HandleArtifactSigning
  <2>3. mem'[p].found => p \in WithArtifact
    BY <1>0, <2>1 DEF MemInv
  <2>4. /\ Working' /\ ~ Closing'
        /\ PastSigning' /\ mem[p].found => SignedAlready(mem[p].pod)
    <3>1. ASSUME NEW val, Set("signed", val)
          PROVE  Working' /\ ~ Closing' /\ ~ PastSigning'
      BY <3>1 DEF Set, Working, Pending, InPod, Closing, PastSigning
    <3>2. ASSUME AfterSigning
          PROVE  Working' /\ ~ Closing'
      BY <3>2 DEF AfterSigning, Goto, Working, Pending, InPod, Closing
    <3>3. \/ \E val : Set("signed", val)
          \/ AfterSigning /\ (mem[p].found => SignedAlready(mem[p].pod))
      BY <1>4 DEF HandleArtifactSigning
    <3> QED BY <3>1, <3>2, <3>3
  <2>5. SignedAlready(mem[p].pod) => Kept(p, "signed")
    BY DEF SignedAlready, BaseOK, KeepInv, NothingLost, Copies, AnnKeys
  <2>6. p \in WithArtifact => WorkOK(p)'
    BY <1>0, <1>1, <1>2, <2>1, <2>2, <2>4, <2>5 DEF WorkOK
  <2> QED BY <1>0, <2>1, <2>3, <2>4, <2>6, MemAt
<1>5. CASE HandleSBOMgeneration
  <2>1. mem' = mem /\ PastSigning /\ PastInfo
    BY <1>5 DEF HandleSBOMgeneration, PastSigning, PastInfo
  <2>2. Working' /\ ~ Closing'
    BY <1>5 DEF HandleSBOMgeneration, Set, Goto, Working, Pending, InPod, Closing
  <2>3. p \in WithArtifact => WorkOK(p)'
    BY <1>0, <1>1, <1>2, <2>1, <2>2 DEF WorkOK
  <2> QED BY <1>0, <2>1, <2>2, <2>3, MemAt DEF MemInv
<1>6. CASE UpdateFinalStatus
  <2>1. /\ \A q \in Pods \ {p} : mem'[q] = mem[q]
        /\ mem'[p].found = mem[p].found /\ mem'[p].signed = mem[p].signed
        /\ mem'[p].reconciled = TRUE
    BY <1>0, <1>6 DEF UpdateFinalStatus, PodStatus
  <2>2. patch' = [key |-> "status", val |-> FinalStatus(mem[p])] /\ pc' = "AnnGet"
    BY <1>6 DEF UpdateFinalStatus, Set
  <2>3. p \in WithArtifact => mem[p].found /\ Kept(p, "signed")'
    BY <1>1, <1>6 DEF WorkOK, PastInfo, PastSigning, UpdateFinalStatus
  <2>4. Working' /\ ~ Started' /\ ~ PastInfo' /\ ~ PastSigning'
    BY <2>2 DEF Working, Pending, InPod, Started, PastInfo, PastSigning
  <2>5. p \in WithArtifact => patch'.val = IF mem[p].signed THEN "Completed" ELSE "Error"
    BY <2>2, <2>3 DEF FinalStatus
  <2>6. p \in WithArtifact => ClosingOK(p)'
    BY <2>1, <2>3, <2>5 DEF ClosingOK, Closed
  <2>7. p \in WithArtifact => WorkOK(p)'
    BY <1>0, <1>1, <2>4, <2>5, <2>6 DEF WorkOK
  <2>8. mem'[p].found => p \in WithArtifact
    BY <1>0, <2>1 DEF MemInv
  <2> QED BY <1>0, <2>1, <2>4, <2>7, <2>8, MemAt
<1> QED BY <1>3, <1>4, <1>5, <1>6

(* The worker loses nothing it relies on by what the others do.               *)
LEMMA MemOthers ==
  ASSUME BaseOK, WorkInv, [Next]_vars, worker' = worker
  PROVE  MemInv'
<1>0. UNCHANGED <<pc, snap, order, i, mem, patch>> /\ MemInv
  BY DEF worker, WorkInv
<1>1. (Working' <=> Working) /\ (Closing' <=> Closing) /\ (Started' <=> Started)
      /\ (PastInfo' <=> PastInfo) /\ (PastSigning' <=> PastSigning)
  BY <1>0 DEF Working, Pending, InPod, Closing, Started, PastInfo, PastSigning
<1>2. ~ AnnotationPatch /\ ~ AnnotationPatchFails
  BY <1>0 DEF AnnotationPatch, AnnotationPatchFails, AfterAnnotation, AnnotationFails,
              NextPod, NextAttest, Goto, Set, End, Reset
<1>3. ASSUME NEW p \in WithArtifact, Working, p = order[i]
      PROVE  WorkOK(p)'
  <2>1. WorkOK(p) /\ p \in Pods
    BY <1>0, <1>3, ReconcilerAssumption DEF MemInv
  <2>2. ~ PodPatched(p)
    BY <1>2 DEF PodPatched
  <2>3. ClosingOK(p) => ClosingOK(p)'
    BY <1>0, <1>3, <2>2, WorkStays DEF ClosingOK, Versions
  <2> QED BY <1>0, <1>1, <1>3, <2>1, <2>3, WorkStays DEF WorkOK, Stored
<1>4. ASSUME NEW p \in WithArtifact, ~ (Working /\ p = order[i])
      PROVE  RestOK(p)'
  BY <1>0, <1>4 DEF MemInv, RestOK
<1>5. Distinct' /\ Unread'
  BY <1>0, <1>1 DEF MemInv, Distinct, Unread
<1> QED BY <1>0, <1>1, <1>3, <1>4, <1>5 DEF MemInv

LEMMA WorkNext ==
  ASSUME BaseOK, WorkInv, [Next]_vars
  PROVE  WorkInv'
<1>1. \A p \in WithArtifact : VersionsOK(p)'
  BY VersionsNext
<1> SUFFICES MemInv'
  BY <1>1 DEF WorkInv
<1>2. MemInv /\ (pc \in InLoop => order[i] \in Pods)
  BY LoopPod DEF BaseOK, WorkInv
<1>3. CASE BeginFails \/ BeginIgnores \/ BeginSecures \/ LabelGet \/ LabelPatch
             \/ LabelConflict \/ LabelFails \/ GetPodInfo \/ ValidateAllPodsReconciled
             \/ HandleProvenanceAttachment
  BY <1>2, <1>3, MemOutsideSteps
<1>4. CASE ReconcilePod
  BY <1>2, <1>4, MemReconcilePod DEF ReconcilePod, InLoop, Labels
<1>5. CASE AnnotationGet \/ AnnotationPatch \/ AnnotationPatchFails
  BY <1>2, <1>5, MemAnnotation
  DEF AnnotationGet, AnnotationPatch, AnnotationPatchFails, InLoop, Labels
<1>6. CASE HandleArtifactInfo \/ HandleArtifactSigning \/ HandleSBOMgeneration
             \/ UpdateFinalStatus
  BY <1>2, <1>6, MemHandlers
  DEF HandleArtifactInfo, HandleArtifactSigning, HandleSBOMgeneration, UpdateFinalStatus,
      InLoop, Labels
<1>7. CASE Environment \/ Informers \/ Crash \/ UNCHANGED vars
  <2>1. worker' = worker \/ Reset
    BY <1>7 DEF Environment, StartNode, LeaveUnknown, FinishPod, FinishNode, DeletePod,
       DeleteWorkflow, Enable, Quiet, Informers, SyncWorkflow, SyncPod, Resync, Crash,
       vars
  <2> QED BY <2>1, MemOthers, MemReset
<1> QED BY <1>3, <1>4, <1>5, <1>6, <1>7 DEF Next, Worker

LEMMA WorkInit == Init => WorkInv
<1> SUFFICES ASSUME Init PROVE WorkInv
  OBVIOUS
<1>1. \A p \in Pods : podStore[p] = <<NoPod>> /\ Versions(podStore[p]) = {NoPod}
  BY InitCopies DEF Init, Versions
<1>2. /\ NoPod.ann["status"] = "none" /\ NoPod.ann["artifacts"] = "none"
      /\ ~ Touched(NoPod)
  BY DEF NoPod, AnnKeys, Touched, BegunPods
<1>3. Len(<<NoPod>>) = 1 /\ \A m, n \in 1 .. 1 : m = n
  OBVIOUS
<1>4. \A p \in Pods : Ascending(BegunPods, podStore[p])
  BY <1>1, <1>3 DEF Ascending
<1>5. \A p \in WithArtifact : VersionsOK(p)
  BY <1>1, <1>2, <1>4, ReconcilerAssumption DEF VersionsOK
<1>6. \A p \in Pods : mem[p].found = FALSE
  BY DEF Init, NewStatus
<1>7. Distinct /\ Unread /\ ~ Working
  BY DEF Init, Distinct, Unread, Working, InPod
<1> QED BY <1>5, <1>6, <1>7, ReconcilerAssumption DEF WorkInv, MemInv, RestOK
------------------------------------------------------------------------------
(* The Error label.                                                           *)
LEMMA ProblemFound ==
  ASSUME order \in Seq(Pods), FirstProblem(mem) # "none"
  PROVE  \E n \in 1 .. Len(order) : Problem(mem[order[n]]) = FirstProblem(mem)
<1> DEFINE bad == {n \in 1 .. Len(order) : Problem(mem[order[n]]) # "none"}
           least == CHOOSE n \in bad : \A k \in bad : n <= k
<1>1. bad # {}
  BY DEF FirstProblem
<1>2. bad \in SUBSET Nat
  OBVIOUS
<1>3. least \in bad
  BY <1>1, <1>2, LeastPosition
<1>4. FirstProblem(mem) = Problem(mem[order[least]])
  BY <1>1 DEF FirstProblem
<1> QED BY <1>3, <1>4

(* Where the worker gets the label from.                                      *)
LEMMA FailingSteps ==
  ASSUME TypeInv, [Next]_vars, Failing'
  PROVE  /\ UNCHANGED <<mem, order>>
         /\ \/ Failing
            \/ ValidateAllPodsReconciled /\ FirstProblem(mem) = "unsigned"
            \/ Attesting /\ Spend("call")
            \/ /\ AnnotationGet /\ patch.key = "provenance"
               /\ ~ Cached(podStore[order[i]]).live
            \/ AnnotationPatchFails /\ patch.key = "provenance"
<1>1. CASE worker' = worker
  BY <1>1 DEF worker, Failing
<1>2. ASSUME Reset \/ NextPod \/ NextAttest
      PROVE  FALSE
  BY <1>2 DEF Reset, NextPod, NextAttest, Set, Goto, Failing
<1>3. ASSUME NEW key, NEW val, Set(key, val), val # "Error" \/ key # "label"
      PROVE  FALSE
  BY <1>3 DEF Set, Failing
<1>4. ASSUME NEW l, Goto(l), l \notin {"LabelGet", "LabelPatch"}
      PROVE  FALSE
  BY <1>4 DEF Goto, Failing
<1>5. CASE BeginFails \/ BeginIgnores \/ BeginSecures
  BY <1>1, <1>2, <1>3, <1>5 DEF BeginFails, BeginIgnores, BeginSecures
<1>6. CASE LabelGet \/ LabelPatch \/ LabelConflict \/ LabelFails
  <2>1. ASSUME NEW w, AfterLabel(w)
        PROVE  FALSE
    BY <1>2, <1>4, <2>1 DEF AfterLabel, End
  <2> QED BY <1>2, <1>6, <2>1
          DEF LabelGet, LabelPatch, LabelConflict, LabelFails, End, Goto, Failing
<1>7. CASE GetPodInfo
  BY <1>2, <1>7 DEF GetPodInfo, End, Failing
<1>8. CASE ReconcilePod
  BY <1>2, <1>3, <1>8 DEF ReconcilePod, PodMissing, End
<1>9. CASE HandleArtifactInfo \/ HandleArtifactSigning \/ HandleSBOMgeneration
             \/ UpdateFinalStatus
  BY <1>3, <1>4, <1>9 DEF HandleArtifactInfo, HandleArtifactSigning, AfterSigning,
     HandleSBOMgeneration, UpdateFinalStatus
<1>10. CASE AfterAnnotation
  BY <1>2, <1>4, <1>10 DEF AfterAnnotation
<1>11. AnnotationFails => patch.key = "provenance" /\ UNCHANGED <<mem, order>>
  BY <1>2, <1>4 DEF AnnotationFails, End, Keep
<1>12. CASE AnnotationGet \/ AnnotationPatch \/ AnnotationPatchFails
  BY <1>4, <1>10, <1>11, <1>12 DEF AnnotationGet, AnnotationPatch, AnnotationPatchFails
<1>13. CASE ValidateAllPodsReconciled
  BY <1>2, <1>4, <1>13 DEF ValidateAllPodsReconciled, End, Keep
<1>14. CASE HandleProvenanceAttachment
  BY <1>2, <1>3, <1>14
  DEF HandleProvenanceAttachment, NoPodPanics, End, Keep, Attesting
<1>15. CASE Environment \/ Informers \/ Crash \/ UNCHANGED vars
  <2>1. worker' = worker \/ Reset
    BY <1>15 DEF Environment, StartNode, LeaveUnknown, FinishPod, FinishNode, DeletePod,
       DeleteWorkflow, Enable, Quiet, Informers, SyncWorkflow, SyncPod, Resync, Crash,
       vars
  <2> QED BY <1>1, <1>2, <2>1
<1> QED BY <1>5, <1>6, <1>7, <1>8, <1>9, <1>12, <1>13, <1>14, <1>15 DEF Next, Worker

LEMMA ErrorNext ==
  ASSUME BaseOK, WorkInv, ErrorInv, [Next]_vars
  PROVE  ErrorInv'
<1> SUFFICES ASSUME Failing'
             PROVE  Excused'
  BY DEF ErrorInv
<1>0. TypeInv /\ UNCHANGED <<mem, order>> /\ order \in Seq(Pods)
  BY FailingSteps DEF BaseOK, TypeInv, MemoryOK
<1>1. /\ \A kind \in FaultKinds : faults[kind] <= MaxFaults[kind]
      /\ Unharmed' => Unharmed /\ \A kind \in FaultKinds \ {"crash"} : ~ Spend(kind)
  BY <1>0, UnharmedBefore DEF BaseOK, LifeInv
<1>2. FirstProblem(mem)' = FirstProblem(mem)
  BY <1>0 DEF FirstProblem
<1>3. Excused => Excused'
  BY <1>0, <1>1, <1>2 DEF Excused
<1>4. Attesting => FirstProblem(mem) = "none"
  <2>1. ASSUME Attesting, FirstProblem(mem) # "none"
        PROVE  FALSE
    BY <1>0, <2>1, ProblemFound DEF BaseOK, CoverInv
  <2> QED BY <2>1
<1>5. CASE ValidateAllPodsReconciled /\ FirstProblem(mem) = "unsigned"
  <2>1. PICK n \in 1 .. Len(order) : Problem(mem[order[n]]) = "unsigned"
    BY <1>0, <1>5, ProblemFound
  <2>2. mem[order[n]].found /\ ~ mem[order[n]].signed /\ order[n] \in Pods
    BY <1>0, <2>1 DEF Problem
  <2>3. ~ Working
    BY <1>5 DEF ValidateAllPodsReconciled, Working, InPod
  <2>4. mem[order[n]].pod.ann["status"] = "Error"
    BY <2>2, <2>3 DEF WorkInv, MemInv, RestOK
  <2> QED BY <1>3, <2>4 DEF Excused
<1>6. CASE Attesting /\ Spend("call")
  <2>1. ~ Unharmed'
    BY <1>1, <1>6 DEF FaultKinds
  <2> QED BY <1>2, <1>4, <1>6, <2>1 DEF Excused
<1>7. CASE \/ /\ AnnotationGet /\ patch.key = "provenance"
              /\ ~ Cached(podStore[order[i]]).live
           \/ AnnotationPatchFails /\ patch.key = "provenance"
  <2>1. /\ Attesting /\ order[i] \in Pods /\ mem[order[i]].pod.live
        /\ podStore[order[i]] \in Histories(Pod)
    BY <1>0, <1>7, LoopPod
    DEF AnnotationGet, AnnotationPatchFails, Attesting, InLoop, Labels, BaseOK, ReadInv,
        InPod, TypeInv, StoreOK
  <2>2. Unharmed => Cached(podStore[order[i]]).live /\ Stored(podStore[order[i]]).live
    BY <2>1, ReadIsVersion DEF BaseOK, LifeInv, LivePods
  <2>3. ~ Unharmed'
    BY <1>1, <1>7, <2>2 DEF AnnotationPatchFails, FaultKinds
  <2> QED BY <1>2, <1>4, <2>1, <2>3 DEF Excused
<1> QED BY <1>0, <1>3, <1>5, <1>6, <1>7, FailingSteps DEF ErrorInv

(* The Error label never comes out of the blue: whatever was stale, whatever  *)
(* crashed, whatever failed before and was tried again, the reconcile that    *)
(* labels the workflow as Error holds a pod marked Error, or something failed *)
(* while it attached the provenance of artifacts that are all signed.         *)
THEOREM ErrorNamesPod == Spec => ErrorHasFailedPod
<1>1. Init => ErrorInv
  BY DEF Init, ErrorInv, Failing
<1>2. BaseOK /\ WorkInv /\ ErrorInv /\ [Next]_vars
        => [ (Stored(wfStore').status = "Error" /\ Stored(wfStore).status # "Error")
               => \/ \E p \in ToSet(order) : mem[p].pod.ann["status"] = "Error"
                  \/ ~ Unharmed /\ FirstProblem(mem) = "none" ]_vars
  <2> SUFFICES ASSUME BaseOK, ErrorInv, [Next]_vars,
                      Stored(wfStore').status = "Error", Stored(wfStore).status # "Error"
               PROVE  \/ \E p \in ToSet(order) : mem[p].pod.ann["status"] = "Error"
                      \/ ~ Unharmed /\ FirstProblem(mem) = "none"
    OBVIOUS
  <2>1. Failing
    BY WorkflowSteps DEF WorkflowStep, Failing, BaseOK
  <2>2. \A n \in 1 .. Len(order) : order[n] \in ToSet(order)
    BY DEF ToSet
  <2> QED BY <2>1, <2>2 DEF ErrorInv, Excused
<1>3. Spec => []BaseOK
  BY TypeInvariant, KeepInvariant, ReadInvariant, RecordInvariant, CoverInvariant,
     LifeInvariant, SnapInvariant, PTL DEF BaseOK
<1>4. Spec => [](WorkInv /\ ErrorInv)
  BY <1>1, <1>3, WorkInit, WorkNext, ErrorNext, PTL DEF Spec
<1> QED BY <1>2, <1>3, <1>4, PTL DEF Spec, ErrorHasFailedPod
==============================================================================
