-------------------------- MODULE ReconcilerProofs --------------------------
(* Theorems about Reconciler, for every set of pods, every bound on the lag   *)
(* of the informers and every number of crashes and failing calls.            *)
EXTENDS Reconciler, FiniteSetTheorems

StoreOK ==
  /\ wfStore \in Histories(Workflow)
  /\ podStore \in [Pods -> Histories(Pod)]
  /\ published \subseteq Pods
  /\ attestations \subseteq Pods \X SUBSET Pods
  /\ faults \in [FaultKinds -> Nat]
  /\ queued \in BOOLEAN

MemoryOK ==
  /\ snap \in Workflow
  /\ order \in Seq(Pods)
  /\ mem \in [Pods -> PodStatus]

(* The worker is at a place where its loop index and its pending patch make   *)
(* sense; this is what TypeOK needs to be inductive.                          *)
InLoop == Labels \ {"Idle", "PodInfo", "LabelGet", "LabelPatch"}
ControlOK ==
  /\ pc \in Labels
  /\ i \in Nat \ {0}
  /\ patch \in Patch
  /\ pc \in InLoop => i \in 1 .. Len(order)
  /\ pc \in {"LabelGet", "LabelPatch"} => patch.val \in LabelValues
  /\ pc \in {"AnnGet", "AnnPatch"} => patch.key \in AnnKeys

TypeInv == StoreOK /\ MemoryOK /\ ControlOK

(* The type invariant of the model is part of the inductive one.              *)
LEMMA TypeInvImpliesTypeOK == TypeInv => TypeOK
BY DEF TypeInv, TypeOK, StoreOK, MemoryOK, ControlOK, InLoop

(* The objects the code starts from have their types.                         *)
LEMMA InitialObjects ==
  /\ \A enabled \in BOOLEAN : NewWorkflow(enabled) \in Workflow
  /\ NoWorkflow \in Workflow
  /\ NoPod \in Pod
  /\ NewPod \in Pod
  /\ NewStatus \in PodStatus
  /\ NoPatch \in Patch
<1>1. \A enabled \in BOOLEAN : NewWorkflow(enabled) \in Workflow
  BY DEF NewWorkflow, Workflow, LabelValues, NodePhases
<1>2. NoWorkflow \in Workflow
  BY <1>1 DEF NoWorkflow, Workflow
<1>3. NoPod \in Pod
  BY DEF NoPod, Pod, AnnValues
<1>4. NewPod \in Pod
  BY <1>3 DEF NewPod, Pod
<1>5. NewStatus \in PodStatus
  BY <1>3 DEF NewStatus, PodStatus
<1>6. NoPatch \in Patch
  BY DEF NoPatch, Patch, AnnValues
<1> QED BY <1>1, <1>2, <1>3, <1>4, <1>5, <1>6

(* GetPodInfo lists pods of the workflow, and at least one.                   *)
LEMMA OrderIsSequence ==
  ASSUME NEW S \in SUBSET Pods, S # {}, NEW s \in SetToSeqs(S)
  PROVE  s \in Seq(Pods) /\ Len(s) \in Nat \ {0}
<1>1. IsFiniteSet(S)
  BY ReconcilerAssumption, FS_Subset
<1>2. Cardinality(S) \in Nat /\ Cardinality(S) # 0
  BY <1>1, FS_CardinalityType, FS_EmptySet
<1>3. s \in [1 .. Cardinality(S) -> S]
  BY DEF SetToSeqs
<1>4. s \in Seq(S) /\ Len(s) = Cardinality(S)
  BY <1>2, <1>3
<1> QED BY <1>2, <1>4

(* currentRconsiliationStatus and Annotate keep the types.                    *)
LEMMA OperatorTypes ==
  /\ \A m \in PodStatus, c \in Pod : Load(m, c) \in PodStatus
  /\ \A c \in Pod, k \in AnnKeys, v \in AnnValues : Annotate(c, k, v) \in Pod
  /\ \A m \in PodStatus : FinalStatus(m) \in AnnValues
  /\ \A p \in Pods : Extract(p) \in {"Ref", "NotFound"}
<1>1. \A m \in PodStatus, c \in Pod : Load(m, c) \in PodStatus
  BY DEF Load, PodStatus
<1>2. \A c \in Pod, k \in AnnKeys, v \in AnnValues : Annotate(c, k, v) \in Pod
  BY DEF Annotate, Pod
<1>3. \A m \in PodStatus : FinalStatus(m) \in AnnValues
  BY DEF FinalStatus, AnnValues
<1>4. \A p \in Pods : Extract(p) \in {"Ref", "NotFound"}
  BY DEF Extract
<1> QED BY <1>1, <1>2, <1>3, <1>4
------------------------------------------------------------------------------
(* Where the worker goes next keeps the types.                                *)

(* The return of Reconcile leaves nothing in memory.                          *)
LEMMA ResetOK ==
  ASSUME Reset
  PROVE  MemoryOK' /\ ControlOK'
<1>1. MemoryOK'
  BY InitialObjects DEF Reset, MemoryOK
<1>2. ControlOK'
  BY InitialObjects DEF Reset, ControlOK, Labels, InLoop
<1> QED BY <1>1, <1>2

(* A pending label or annotation patch is one PatchLabels or PatchAnnotations *)
(* was called with.                                                           *)
LEMMA SetOK ==
  ASSUME TypeInv, NEW key, NEW val, Set(key, val), order' = order,
         \/ key = "label" /\ val \in LabelValues
         \/ key \in AnnKeys /\ val \in AnnValues /\ pc \in InLoop
  PROVE  ControlOK'
<1>1. LabelValues \subseteq AnnValues
  BY DEF LabelValues, AnnValues
<1>2. CASE key = "label" /\ val \in LabelValues
  BY <1>1, <1>2 DEF TypeInv, ControlOK, Set, Patch, Labels, InLoop
<1>3. CASE key \in AnnKeys /\ val \in AnnValues /\ pc \in InLoop
  BY <1>3 DEF TypeInv, ControlOK, Set, Patch, Labels, InLoop, AnnKeys
<1> QED BY <1>2, <1>3

(* A step inside the loop body keeps the loop index and the patch.            *)
LEMMA GotoOK ==
  ASSUME TypeInv, NEW l \in {"Artifacts", "Signing", "Sbom", "Final", "AnnPatch"},
         Goto(l), order' = order, pc \in InLoop,
         l = "AnnPatch" => pc = "AnnGet"
  PROVE  ControlOK'
BY DEF TypeInv, ControlOK, Goto, Labels, InLoop

(* The loops over PodsStatus stay inside it.                                  *)
LEMMA LoopOK ==
  ASSUME TypeInv, order' = order, pc \in InLoop, NextPod \/ NextAttest
  PROVE  ControlOK'
<1>1. i \in 1 .. Len(order) /\ Len(order) \in Nat
  BY DEF TypeInv, ControlOK, MemoryOK
<1>2. CASE NextPod
  BY <1>1, <1>2 DEF TypeInv, ControlOK, NextPod, Labels, InLoop
<1>3. CASE NextAttest /\ i < Len(order)
  BY <1>1, <1>3 DEF TypeInv, ControlOK, NextAttest, Labels, InLoop
<1>4. CASE NextAttest /\ ~ i < Len(order)
  BY <1>4, SetOK DEF NextAttest, LabelValues
<1> QED BY <1>2, <1>3, <1>4

(* After updateWorkflowStatus the worker collects the pods or returns.        *)
LEMMA AfterLabelOK ==
  ASSUME TypeInv, NEW w \in Workflow, AfterLabel(w)
  PROVE  MemoryOK' /\ ControlOK' /\ queued' \in BOOLEAN
<1>1. CASE patch.val = "In-Progress"
  BY <1>1 DEF TypeInv, StoreOK, MemoryOK, ControlOK, AfterLabel, Goto, Labels, InLoop
<1>2. CASE patch.val # "In-Progress"
  BY <1>2, ResetOK DEF AfterLabel, End
<1> QED BY <1>1, <1>2

(* After a PatchAnnotations that succeeded.                                   *)
LEMMA AfterAnnotationOK ==
  ASSUME TypeInv, pc \in {"AnnGet", "AnnPatch"}, AfterAnnotation, order' = order
  PROVE  ControlOK'
<1>1. pc \in InLoop /\ patch.key \in AnnKeys
  BY DEF TypeInv, ControlOK, InLoop, Labels
<1>2. \/ \E l \in {"Artifacts", "Signing", "Sbom", "Final"} : Goto(l)
      \/ NextPod
      \/ NextAttest
  BY ReconcilerAssumption DEF AfterAnnotation
<1> QED BY <1>1, <1>2, GotoOK, LoopOK

(* After a PatchAnnotations that failed.                                      *)
LEMMA AnnotationFailsOK ==
  ASSUME TypeInv, pc \in {"AnnGet", "AnnPatch"}, AnnotationFails
  PROVE  MemoryOK' /\ ControlOK' /\ queued' \in BOOLEAN
<1>1. pc \in InLoop
  BY DEF InLoop, Labels
<1>2. CASE Goto("Final") /\ Keep /\ UNCHANGED mem
  BY <1>1, <1>2, GotoOK DEF Keep, TypeInv, MemoryOK, StoreOK
<1>3. CASE Set("label", "Error") /\ Keep /\ UNCHANGED mem
  BY <1>1, <1>3, SetOK DEF Keep, TypeInv, MemoryOK, StoreOK, LabelValues
<1>4. CASE End(TRUE)
  BY <1>4, ResetOK DEF End
<1> QED BY <1>2, <1>3, <1>4 DEF AnnotationFails
------------------------------------------------------------------------------
(* Writes and faults keep the types.                                          *)
LEMMA WritesOK ==
  ASSUME TypeInv
  PROVE  /\ \A w \in Workflow : WriteWf(w) => wfStore' \in Histories(Workflow)
         /\ \A p \in Pods, c \in Pod :
              WritePod(p, c) => podStore' \in [Pods -> Histories(Pod)]
         /\ \A kind \in FaultKinds : Spend(kind) => faults' \in [FaultKinds -> Nat]
<1>1. \A w \in Workflow : WriteWf(w) => wfStore' \in Histories(Workflow)
  BY WriteAddsVersion DEF TypeInv, StoreOK, WriteWf
<1>2. ASSUME NEW p \in Pods, NEW c \in Pod, WritePod(p, c)
      PROVE  podStore' \in [Pods -> Histories(Pod)]
  <2>1. Write(podStore[p], c) \in Histories(Pod)
    BY WriteAddsVersion DEF TypeInv, StoreOK
  <2> QED BY <1>2, <2>1 DEF TypeInv, StoreOK, WritePod
<1>3. ASSUME NEW kind \in FaultKinds, Spend(kind)
      PROVE  faults' \in [FaultKinds -> Nat]
  BY <1>3 DEF TypeInv, StoreOK, Spend
<1> QED BY <1>1, <1>2, <1>3

(* What the worker reads has the type of the object, and so has what it, or   *)
(* anyone else, writes.                                                       *)
LEMMA ReadsOK ==
  ASSUME TypeInv
  PROVE  /\ Cached(wfStore) \in Workflow
         /\ Stored(wfStore) \in Workflow
         /\ \A p \in Pods : Cached(podStore[p]) \in Pod /\ Stored(podStore[p]) \in Pod
<1>1. Cached(wfStore) \in Workflow /\ Stored(wfStore) \in Workflow
  BY ReadIsVersion DEF TypeInv, StoreOK
<1>2. ASSUME NEW p \in Pods
      PROVE  Cached(podStore[p]) \in Pod /\ Stored(podStore[p]) \in Pod
  <2>1. podStore[p] \in Histories(Pod)
    BY DEF TypeInv, StoreOK
  <2> QED BY <2>1, ReadIsVersion
<1> QED BY <1>1, <1>2

(* The pod a loop is at is a pod of the workflow.                             *)
LEMMA LoopPod ==
  ASSUME TypeInv, pc \in InLoop
  PROVE  order[i] \in Pods /\ mem[order[i]] \in PodStatus
BY DEF TypeInv, ControlOK, MemoryOK

(* Fields of the in-memory podStatus that the handlers set.                   *)
LEMMA MemoryUpdate ==
  ASSUME TypeInv, NEW p \in Pods, NEW m \in PodStatus,
         mem' = [mem EXCEPT ![p] = m], snap' = snap, order' = order
  PROVE  MemoryOK'
BY DEF TypeInv, MemoryOK
------------------------------------------------------------------------------
(* Type correctness, one lemma per group of actions.                          *)
LEMMA TypeBegin ==
  ASSUME TypeInv, BeginFails \/ BeginIgnores \/ BeginSecures
  PROVE  TypeInv'
<1>1. CASE BeginFails
  <2>1. faults' \in [FaultKinds -> Nat]
    BY <1>1, WritesOK DEF BeginFails, FaultKinds
  <2> QED BY <1>1, <2>1 DEF BeginFails, TypeInv, StoreOK, MemoryOK, ControlOK,
                        stores, registry, worker
<1>2. CASE BeginIgnores
  BY <1>2 DEF BeginIgnores, TypeInv, StoreOK, MemoryOK, ControlOK, stores,
              registry, worker
<1>3. CASE BeginSecures
  <2>1. ControlOK'
    BY <1>3, SetOK DEF BeginSecures, LabelValues
  <2> QED BY <1>3, <2>1, ReadsOK DEF BeginSecures, TypeInv, StoreOK, MemoryOK,
                                 stores, registry
<1> QED BY <1>1, <1>2, <1>3

LEMMA TypeLabel ==
  ASSUME TypeInv, LabelGet \/ LabelPatch \/ LabelConflict \/ LabelFails
  PROVE  TypeInv'
<1>0. snap \in Workflow /\ (pc = "LabelPatch" => LabelPatched \in Workflow)
  BY ReadsOK DEF TypeInv, MemoryOK, ControlOK, LabelPatched, Workflow
<1>1. CASE LabelGet
  <2> DEFINE w == Cached(wfStore)
  <2>1. w \in Workflow
    BY ReadsOK
  <2>2. CASE AfterLabel(snap)
    BY <1>0, <1>1, <2>2, AfterLabelOK DEF LabelGet, TypeInv, StoreOK, stores, registry
  <2>3. CASE AfterLabel(w)
    BY <1>1, <2>1, <2>3, AfterLabelOK DEF LabelGet, TypeInv, StoreOK, stores, registry
  <2>4. CASE /\ snap' = w /\ Goto("LabelPatch")
             /\ UNCHANGED <<order, queued, mem>>
    BY <1>1, <2>1, <2>4 DEF LabelGet, Goto, TypeInv, StoreOK, MemoryOK, ControlOK,
                            stores, registry, Labels, InLoop
  <2> QED BY <1>1, <2>2, <2>3, <2>4 DEF LabelGet
<1>2. CASE LabelPatch
  <2>1. wfStore' \in Histories(Workflow)
    BY <1>0, <1>2, WritesOK DEF LabelPatch
  <2>2. MemoryOK' /\ ControlOK' /\ queued' \in BOOLEAN
    BY <1>0, <1>2, AfterLabelOK DEF LabelPatch
  <2> QED BY <1>2, <2>1, <2>2 DEF LabelPatch, TypeInv, StoreOK, registry
<1>3. CASE LabelConflict
  <2>1. faults' \in [FaultKinds -> Nat]
    BY <1>3, WritesOK DEF LabelConflict, FaultKinds, TypeInv, StoreOK
  <2>2. MemoryOK' /\ ControlOK' /\ queued' \in BOOLEAN
    BY <1>0, <1>3, AfterLabelOK DEF LabelConflict
  <2> QED BY <1>3, <2>1, <2>2 DEF LabelConflict, TypeInv, StoreOK, stores, registry
<1>4. CASE LabelFails
  <2>1. faults' \in [FaultKinds -> Nat]
    BY <1>4, WritesOK DEF LabelFails, FaultKinds
  <2>2. wfStore' \in Histories(Workflow)
    BY <1>0, <1>4, WritesOK DEF LabelFails, TypeInv, StoreOK
  <2>3. MemoryOK' /\ ControlOK' /\ queued' \in BOOLEAN
    BY <1>4, ResetOK DEF LabelFails, End
  <2> QED BY <1>4, <2>1, <2>2, <2>3 DEF LabelFails, TypeInv, StoreOK, registry
<1> QED BY <1>1, <1>2, <1>3, <1>4

LEMMA TypeGetPodInfo ==
  ASSUME TypeInv, GetPodInfo
  PROVE  TypeInv'
<1> DEFINE known == {p \in Pods : snap.nodes[p] # "Absent"}
<1>1. CASE known = {}
  <2>1. End(TRUE)
    BY <1>1 DEF GetPodInfo
  <2> QED BY <2>1, ResetOK DEF GetPodInfo, End, TypeInv, StoreOK, stores, registry
<1>2. CASE known # {}
  <2>1. /\ order' \in SetToSeqs(known) /\ i' = 1 /\ pc' = "Pod"
        /\ mem' = [p \in Pods |-> NewStatus]
        /\ UNCHANGED <<snap, patch, queued, stores, registry, faults>>
    BY <1>2 DEF GetPodInfo
  <2>2. order' \in Seq(Pods) /\ Len(order') \in Nat \ {0}
    BY <1>2, <2>1, OrderIsSequence
  <2>3. MemoryOK'
    BY <2>1, <2>2, InitialObjects DEF TypeInv, MemoryOK
  <2>4. ControlOK'
    BY <2>1, <2>2 DEF TypeInv, ControlOK, Labels, InLoop
  <2> QED BY <2>1, <2>3, <2>4 DEF TypeInv, StoreOK, stores, registry
<1> QED BY <1>1, <1>2

LEMMA TypeReconcilePod ==
  ASSUME TypeInv, ReconcilePod
  PROVE  TypeInv'
<1> DEFINE p == order[i]
           c == Cached(podStore[p])
           m == Load(mem[p], c)
<1>1. pc \in InLoop
  BY DEF ReconcilePod, InLoop, Labels
<1>2. p \in Pods /\ mem[p] \in PodStatus /\ c \in Pod /\ m \in PodStatus
  BY <1>1, LoopPod, ReadsOK, OperatorTypes
<1>3. [m EXCEPT !.reconciled = TRUE] \in PodStatus
      /\ [mem[p] EXCEPT !.reconciled = TRUE] \in PodStatus
  BY <1>2 DEF PodStatus
<1>4. CASE End(TRUE)
  BY <1>4, ResetOK DEF ReconcilePod, End, TypeInv, StoreOK, stores, registry
<1>5. CASE NextPod /\ Keep /\ mem' \in [Pods -> PodStatus]
  <2>1. ControlOK'
    BY <1>1, <1>5, LoopOK DEF Keep
  <2> QED BY <1>5, <2>1 DEF ReconcilePod, Keep, TypeInv, StoreOK, MemoryOK,
                            stores, registry
<1>6. CASE /\ \E val \in {"Skipped", "In-Progress"} : Set("status", val)
           /\ Keep /\ mem' \in [Pods -> PodStatus]
  <2>1. ControlOK'
    BY <1>1, <1>6, SetOK DEF Keep, AnnKeys, AnnValues
  <2> QED BY <1>6, <2>1 DEF ReconcilePod, Keep, TypeInv, StoreOK, MemoryOK,
                            stores, registry
<1>7. mem \in [Pods -> PodStatus]
  BY DEF TypeInv, MemoryOK
<1>8. \/ mem' = mem
      \/ mem' = [mem EXCEPT ![p].reconciled = TRUE]
      \/ mem' = [mem EXCEPT ![p] = m]
      \/ mem' = [mem EXCEPT ![p] = [m EXCEPT !.reconciled = TRUE]]
      => mem' \in [Pods -> PodStatus]
  BY <1>2, <1>3, <1>7
<1> QED BY <1>4, <1>5, <1>6, <1>8 DEF ReconcilePod, PodMissing

LEMMA TypeAnnotation ==
  ASSUME TypeInv, AnnotationGet \/ AnnotationPatch \/ AnnotationPatchFails
  PROVE  TypeInv'
<1> DEFINE p == order[i]
           c == Cached(podStore[p])
<1>1. pc \in {"AnnGet", "AnnPatch"} /\ pc \in InLoop
  BY DEF AnnotationGet, AnnotationPatch, AnnotationPatchFails, InLoop, Labels
<1>2. p \in Pods /\ mem[p] \in PodStatus /\ c \in Pod /\ AnnotationPatched(p) \in Pod
  BY <1>1, LoopPod, ReadsOK, OperatorTypes DEF AnnotationPatched, TypeInv, ControlOK, Patch
<1>3. mem \in [Pods -> PodStatus]
  BY DEF TypeInv, MemoryOK
<1>4. \A d \in Pod : [mem EXCEPT ![p].pod = d] \in [Pods -> PodStatus]
  <2>1. \A d \in Pod : [mem[p] EXCEPT !.pod = d] \in PodStatus
    BY <1>2 DEF PodStatus
  <2> QED BY <1>2, <1>3, <2>1
<1>5. CASE AnnotationGet /\ ~ c.live
  BY <1>1, <1>5, AnnotationFailsOK DEF AnnotationGet, TypeInv, StoreOK, stores, registry
<1>6. CASE AnnotationGet /\ c.live
  <2>1. mem' = [mem EXCEPT ![p].pod = c] /\ Keep
    BY <1>6 DEF AnnotationGet
  <2>2. MemoryOK'
    BY <1>2, <1>4, <2>1 DEF Keep, TypeInv, MemoryOK
  <2>3. ControlOK'
    <3>1. AfterAnnotation \/ (Goto("AnnPatch") /\ pc = "AnnGet")
      BY <1>6 DEF AnnotationGet
    <3> QED BY <1>1, <2>1, <3>1, AfterAnnotationOK, GotoOK DEF Keep
  <2> QED BY <1>6, <2>1, <2>2, <2>3 DEF AnnotationGet, Keep, TypeInv, StoreOK,
                                        stores, registry
<1>7. CASE AnnotationPatch
  <2>1. podStore' \in [Pods -> Histories(Pod)]
    BY <1>2, <1>7, WritesOK DEF AnnotationPatch
  <2>2. MemoryOK'
    BY <1>2, <1>4, <1>7 DEF AnnotationPatch, Keep, TypeInv, MemoryOK
  <2>3. ControlOK'
    BY <1>1, <1>7, AfterAnnotationOK DEF AnnotationPatch, Keep
  <2> QED BY <1>7, <2>1, <2>2, <2>3 DEF AnnotationPatch, Keep, TypeInv, StoreOK, registry
<1>8. CASE AnnotationPatchFails
  <2>1. podStore' \in [Pods -> Histories(Pod)]
    BY <1>2, <1>8, WritesOK DEF AnnotationPatchFails, TypeInv, StoreOK
  <2>2. faults' \in [FaultKinds -> Nat]
    BY <1>8, WritesOK DEF AnnotationPatchFails, FaultKinds, TypeInv, StoreOK
  <2>3. MemoryOK' /\ ControlOK' /\ queued' \in BOOLEAN
    BY <1>1, <1>8, AnnotationFailsOK DEF AnnotationPatchFails
  <2> QED BY <1>8, <2>1, <2>2, <2>3 DEF AnnotationPatchFails, TypeInv, StoreOK, registry
<1> QED BY <1>5, <1>6, <1>7, <1>8

(* The handlers of one pod that change only the worker's memory.              *)
LEMMA TypePodHandlers ==
  ASSUME TypeInv,
         HandleArtifactInfo \/ HandleArtifactSigning \/ HandleSBOMgeneration
           \/ UpdateFinalStatus
  PROVE  TypeInv'
<1> DEFINE p == order[i]
<1>1. pc \in InLoop
  BY DEF HandleArtifactInfo, HandleArtifactSigning, HandleSBOMgeneration,
         UpdateFinalStatus, InLoop, Labels
<1>2. p \in Pods /\ mem[p] \in PodStatus /\ mem \in [Pods -> PodStatus]
  BY <1>1, LoopPod DEF TypeInv, MemoryOK
<1>3. CASE HandleArtifactInfo
  <2>1. Extract(p) \in {"Ref", "NotFound"}
    BY <1>2, OperatorTypes
  <2>2. mem' \in [Pods -> PodStatus]
    <3>1. \A b \in BOOLEAN, ref \in {"Ref", "NotFound"} :
            /\ [mem[p] EXCEPT !.found = b] \in PodStatus
            /\ [[mem[p] EXCEPT !.found = b] EXCEPT !.info = ref] \in PodStatus
      BY <1>2 DEF PodStatus
    <3>2. \/ \E b \in BOOLEAN : mem' = [mem EXCEPT ![p] = [mem[p] EXCEPT !.found = b]]
          \/ \E b \in BOOLEAN, ref \in {"Ref", "NotFound"} :
               mem' = [mem EXCEPT ![p] = [[mem[p] EXCEPT !.found = b] EXCEPT !.info = ref]]
      BY <1>2, <1>3, <2>1 DEF HandleArtifactInfo
    <3> QED BY <1>2, <3>1, <3>2
  <2>3. Set("artifacts", Extract(p)) \/ Goto("Signing")
    BY <1>3 DEF HandleArtifactInfo
  <2>4. ControlOK'
    BY <1>1, <1>3, <2>1, <2>3, SetOK, GotoOK
       DEF HandleArtifactInfo, Keep, AnnKeys, AnnValues
  <2> QED BY <1>3, <2>2, <2>4 DEF HandleArtifactInfo, Keep, TypeInv, StoreOK,
                                  MemoryOK, stores, registry
<1>4. CASE HandleArtifactSigning
  <2>1. mem' \in [Pods -> PodStatus]
    <3>1. \A b \in BOOLEAN : [mem[p] EXCEPT !.signed = b] \in PodStatus
      BY <1>2 DEF PodStatus
    <3>2. \/ mem' = mem
          \/ \E b \in BOOLEAN : mem' = [mem EXCEPT ![p] = [mem[p] EXCEPT !.signed = b]]
      BY <1>2, <1>4 DEF HandleArtifactSigning, SignedBefore
    <3> QED BY <1>2, <3>1, <3>2
  <2>2. \/ \E val \in {"Skipped", "Completed", "Error"} : Set("signed", val)
        \/ \E l \in {"Sbom", "Final"} : Goto(l)
    BY <1>4 DEF HandleArtifactSigning, AfterSigning
  <2>3. ControlOK'
    BY <1>1, <1>4, <2>2, SetOK, GotoOK
       DEF HandleArtifactSigning, Keep, AnnKeys, AnnValues
  <2>4. published' \subseteq Pods
    BY <1>2, <1>4 DEF HandleArtifactSigning, TypeInv, StoreOK
  <2> QED BY <1>4, <2>1, <2>3, <2>4 DEF HandleArtifactSigning, Keep, TypeInv,
                                        StoreOK, MemoryOK, stores
<1>5. CASE HandleSBOMgeneration
  <2>1. \/ \E val \in {"Skipped", "Attached", "Error"} : Set("sbom", val)
        \/ Goto("Final")
    BY <1>5 DEF HandleSBOMgeneration
  <2>2. ControlOK'
    BY <1>1, <1>5, <2>1, SetOK, GotoOK
       DEF HandleSBOMgeneration, Keep, AnnKeys, AnnValues
  <2> QED BY <1>5, <2>2 DEF HandleSBOMgeneration, Keep, TypeInv, StoreOK,
                            MemoryOK, stores, registry
<1>6. CASE UpdateFinalStatus
  <2>1. mem' \in [Pods -> PodStatus]
    BY <1>2, <1>6 DEF UpdateFinalStatus, PodStatus
  <2>2. ControlOK'
    BY <1>1, <1>2, <1>6, SetOK, OperatorTypes DEF UpdateFinalStatus, Keep, AnnKeys
  <2> QED BY <1>6, <2>1, <2>2 DEF UpdateFinalStatus, Keep, TypeInv, StoreOK,
                                  MemoryOK, stores, registry
<1> QED BY <1>3, <1>4, <1>5, <1>6

LEMMA TypeValidateAttest ==
  ASSUME TypeInv, ValidateAllPodsReconciled \/ HandleProvenanceAttachment
  PROVE  TypeInv'
<1> DEFINE p == order[i]
<1>1. pc \in InLoop
  BY DEF ValidateAllPodsReconciled, HandleProvenanceAttachment, InLoop, Labels
<1>2. p \in Pods
  BY <1>1, LoopPod
<1>3. CASE ValidateAllPodsReconciled
  <2>1. CASE End(FALSE)
    BY <1>3, <2>1, ResetOK DEF ValidateAllPodsReconciled, End, TypeInv, StoreOK,
                               stores, registry
  <2>2. CASE Set("label", "Error") /\ Keep /\ UNCHANGED mem
    <3>1. ControlOK'
      BY <2>2, SetOK DEF Keep, LabelValues
    <3> QED BY <1>3, <2>2, <3>1 DEF ValidateAllPodsReconciled, Keep, TypeInv,
                                    StoreOK, MemoryOK, stores, registry
  <2>3. CASE Goto("Attest") /\ Keep /\ UNCHANGED mem
    <3>1. ControlOK'
      BY <1>1, <2>3 DEF TypeInv, ControlOK, Goto, Keep, Labels, InLoop
    <3> QED BY <1>3, <2>3, <3>1 DEF ValidateAllPodsReconciled, Keep, TypeInv,
                                    StoreOK, MemoryOK, stores, registry
  <2> QED BY <1>3, <2>1, <2>2, <2>3 DEF ValidateAllPodsReconciled
<1>4. CASE HandleProvenanceAttachment
  <2>1. faults' \in [FaultKinds -> Nat]
    BY <1>4, WritesOK DEF HandleProvenanceAttachment, FaultKinds, TypeInv, StoreOK
  <2>2. attestations' \subseteq Pods \X SUBSET Pods
    <3>1. Subjects(mem) \subseteq Pods
      BY DEF Subjects, ToSet, TypeInv, MemoryOK
    <3>2. <<p, Subjects(mem)>> \in Pods \X SUBSET Pods
      BY <1>2, <3>1
    <3>3. \/ attestations' = attestations
          \/ attestations' = attestations \cup {<<p, Subjects(mem)>>}
      BY <1>4 DEF HandleProvenanceAttachment
    <3> QED BY <3>2, <3>3 DEF TypeInv, StoreOK
  <2>3. CASE End(TRUE)
    BY <1>4, <2>1, <2>2, <2>3, ResetOK
       DEF HandleProvenanceAttachment, End, TypeInv, StoreOK, stores
  <2>4. CASE /\ \/ \E val \in {"Skipped", "Attached", "Error"} : Set("provenance", val)
                \/ Set("label", "Error")
                \/ NextAttest
             /\ Keep /\ UNCHANGED mem
    <3>1. ControlOK'
      BY <1>1, <2>4, SetOK, LoopOK DEF Keep, AnnKeys, AnnValues, LabelValues
    <3> QED BY <1>4, <2>1, <2>2, <2>4, <3>1
            DEF HandleProvenanceAttachment, Keep, TypeInv, StoreOK, MemoryOK, stores
  <2> QED BY <1>4, <2>3, <2>4
      DEF HandleProvenanceAttachment, NoPodPanics, ProvenanceState
<1> QED BY <1>3, <1>4

LEMMA TypeWorker ==
  ASSUME TypeInv, Worker
  PROVE  TypeInv'
BY TypeBegin, TypeLabel, TypeGetPodInfo, TypeReconcilePod, TypeAnnotation,
   TypePodHandlers, TypeValidateAttest DEF Worker

(* The Argo controller, the kubelet and the user write well-typed objects.    *)
LEMMA TypeEnvironment ==
  ASSUME TypeInv, Environment
  PROVE  TypeInv'
<1>1. \A w \in Workflow, p \in Pods, phase \in NodePhases :
        /\ [w EXCEPT !.nodes[p] = phase] \in Workflow
        /\ [w EXCEPT !.live = FALSE] \in Workflow
        /\ [w EXCEPT !.enabled = TRUE] \in Workflow
  BY DEF Workflow
<1>2. \A c \in Pod, phase \in {"Succeeded", "Failed"} :
        [c EXCEPT !.phase = phase] \in Pod /\ [c EXCEPT !.live = FALSE] \in Pod
  BY DEF Pod
<1>3. ASSUME NEW p \in Pods, NEW phase \in NodePhases, SetNode(p, phase)
      PROVE  wfStore' \in Histories(Workflow)
  BY <1>1, <1>3, ReadsOK, WritesOK DEF SetNode
<1>4. ASSUME Quiet, wfStore' \in Histories(Workflow),
             podStore' \in [Pods -> Histories(Pod)], faults' \in [FaultKinds -> Nat]
      PROVE  TypeInv'
  BY <1>4 DEF Quiet, TypeInv, StoreOK, MemoryOK, ControlOK, registry, worker
<1>5. /\ wfStore \in Histories(Workflow)
      /\ podStore \in [Pods -> Histories(Pod)]
      /\ faults \in [FaultKinds -> Nat]
  BY DEF TypeInv, StoreOK
<1>6. OddPhases \subseteq NodePhases /\ {"Running", "Succeeded", "Failed", "Error"} \subseteq NodePhases
  BY ReconcilerAssumption DEF NodePhases
<1>7. \A p \in Pods : WritePod(p, NewPod) => podStore' \in [Pods -> Histories(Pod)]
  BY WritesOK, InitialObjects
<1>8. Spend("gone") => faults' \in [FaultKinds -> Nat]
  BY WritesOK DEF FaultKinds
<1>9. ASSUME NEW p \in Pods, StartNode(p)
      PROVE  TypeInv'
  BY <1>3, <1>4, <1>5, <1>6, <1>7, <1>8, <1>9 DEF StartNode
<1>10. ASSUME NEW p \in Pods, LeaveUnknown(p)
       PROVE  TypeInv'
  BY <1>3, <1>4, <1>5, <1>6, <1>7, <1>10 DEF LeaveUnknown
<1>11. ASSUME NEW p \in Pods, FinishPod(p)
       PROVE  TypeInv'
  BY <1>2, <1>4, <1>5, <1>11, ReadsOK, WritesOK DEF FinishPod
<1>12. ASSUME NEW p \in Pods, FinishNode(p)
       PROVE  TypeInv'
  BY <1>3, <1>4, <1>5, <1>6, <1>12 DEF FinishNode
<1>13. ASSUME NEW p \in Pods, DeletePod(p)
       PROVE  TypeInv'
  BY <1>2, <1>4, <1>5, <1>8, <1>13, ReadsOK, WritesOK DEF DeletePod
<1>14. CASE DeleteWorkflow \/ Enable
  <2>1. \A w \in Workflow : /\ [w EXCEPT !.live = FALSE] \in Workflow
                            /\ [w EXCEPT !.enabled = TRUE] \in Workflow
    BY DEF Workflow
  <2> QED BY <1>4, <1>5, <1>8, <1>14, <2>1, ReadsOK, WritesOK DEF DeleteWorkflow, Enable
<1> QED BY <1>9, <1>10, <1>11, <1>12, <1>13, <1>14 DEF Environment

(* The informers and a restart keep the types.                                *)
LEMMA TypeInformersCrash ==
  ASSUME TypeInv, Informers \/ Crash
  PROVE  TypeInv'
<1>1. CASE SyncWorkflow
  <2>1. wfStore' \in Histories(Workflow)
    BY <1>1, DeliveryKeepsVersions DEF SyncWorkflow, TypeInv, StoreOK
  <2> QED BY <1>1, <2>1 DEF SyncWorkflow, TypeInv, StoreOK, MemoryOK, ControlOK,
                            registry, worker
<1>2. ASSUME NEW p \in Pods, SyncPod(p)
      PROVE  TypeInv'
  <2>1. Deliver(podStore[p]) \in Histories(Pod)
    BY <1>2, DeliveryKeepsVersions DEF SyncPod, TypeInv, StoreOK
  <2> QED BY <1>2, <2>1 DEF SyncPod, TypeInv, StoreOK, MemoryOK, ControlOK,
                            registry, worker
<1>3. CASE Resync
  BY <1>3 DEF Resync, TypeInv, StoreOK, MemoryOK, ControlOK, stores, registry, worker
<1>4. CASE Crash
  <2>1. MemoryOK' /\ ControlOK'
    BY <1>4, ResetOK DEF Crash
  <2>2. faults' \in [FaultKinds -> Nat]
    BY <1>4, WritesOK DEF Crash, FaultKinds
  <2>3. wfStore' \in Histories(Workflow)
    BY <1>4, DeliveryKeepsVersions DEF Crash, TypeInv, StoreOK
  <2>4. podStore' \in [Pods -> Histories(Pod)]
    <3>1. \A p \in Pods : Relist(podStore[p]) \in Histories(Pod)
      BY DeliveryKeepsVersions DEF TypeInv, StoreOK
    <3> QED BY <1>4, <3>1 DEF Crash
  <2> QED BY <1>4, <2>1, <2>2, <2>3, <2>4 DEF Crash, TypeInv, StoreOK, registry
<1> QED BY <1>1, <1>2, <1>3, <1>4 DEF Informers

LEMMA TypeInit == Init => TypeInv
<1> SUFFICES ASSUME Init PROVE TypeInv
  OBVIOUS
<1>1. \A enabled \in BOOLEAN : <<NewWorkflow(enabled)>> \in Histories(Workflow)
  BY InitialObjects DEF Histories
<1>2. <<NoPod>> \in Histories(Pod)
  BY InitialObjects DEF Histories
<1>3. StoreOK
  BY <1>1, <1>2, ReconcilerAssumption DEF Init, StoreOK
<1>4. MemoryOK /\ ControlOK
  BY InitialObjects DEF Init, MemoryOK, ControlOK, Labels, InLoop
<1> QED BY <1>3, <1>4 DEF TypeInv

LEMMA TypeNext == TypeInv /\ [Next]_vars => TypeInv'
<1> SUFFICES ASSUME TypeInv, [Next]_vars PROVE TypeInv'
  OBVIOUS
<1>1. CASE UNCHANGED vars
  BY <1>1 DEF vars, stores, registry, worker, TypeInv, StoreOK, MemoryOK, ControlOK
<1> QED BY <1>1, TypeWorker, TypeEnvironment, TypeInformersCrash DEF Next

(* The strengthened type invariant holds of every reachable state.            *)
LEMMA TypeInvariant == Spec => []TypeInv
<1> QED BY TypeInit, TypeNext, PTL DEF Spec

(* The controller and what it reads and writes are well-typed, and its loops  *)
(* over PodsStatus stay in range, for every workflow.                         *)
THEOREM TypeCorrect == Spec => []TypeOK
<1> QED BY TypeInvariant, TypeInvImpliesTypeOK, PTL
------------------------------------------------------------------------------
(* CompletedPodIsSigned. What the API server stores is not enough to prove    *)
(* it: the worker acts on cached versions and on flags of its own. The        *)
(* invariant says that no version of a pod, whichever the cache, the API      *)
(* server or the worker holds, claims a signature that is not there, and that *)
(* between signing and the final status the worker's signed flag is right.    *)
Honest(p, c) ==
  c.ann["signed"] = "Completed" \/ c.ann["status"] = "Completed" => p \in published

StoreHonest == \A p \in Pods : \A c \in Versions(podStore[p]) : Honest(p, c)
MemoryHonest == \A p \in Pods : Honest(p, mem[p].pod)
PatchHonest ==
  pc \in {"AnnGet", "AnnPatch"} /\ patch.key \in {"signed", "status"}
    /\ patch.val = "Completed" => order[i] \in published
FlagHonest ==
  /\ \/ pc \in {"Sbom", "Final"}
     \/ pc \in {"AnnGet", "AnnPatch"} /\ patch.key \in {"signed", "sbom"}
  /\ mem[order[i]].found /\ mem[order[i]].signed
  => order[i] \in published

SignedInv == StoreHonest /\ MemoryHonest /\ PatchHonest /\ FlagHonest

(* Nothing pending, nothing to be wrong about: the control part holds at any  *)
(* other place.                                                               *)
LEMMA HonestElsewhere ==
  /\ pc' \notin {"AnnGet", "AnnPatch", "Sbom", "Final"} => PatchHonest' /\ FlagHonest'
  /\ \A key, val : Set(key, val) /\ key \notin {"signed", "status", "sbom"}
       => PatchHonest' /\ FlagHonest'
  /\ Reset => MemoryHonest' /\ PatchHonest' /\ FlagHonest'
<1>1. pc' \notin {"AnnGet", "AnnPatch", "Sbom", "Final"} => PatchHonest' /\ FlagHonest'
  BY DEF PatchHonest, FlagHonest
<1>2. \A key, val : Set(key, val) /\ key \notin {"signed", "status", "sbom"}
       => PatchHonest' /\ FlagHonest'
  BY DEF PatchHonest, FlagHonest, Set
<1>3. Reset => MemoryHonest'
  BY DEF Reset, MemoryHonest, Honest, NewStatus, NoPod, AnnKeys
<1>4. Reset => PatchHonest' /\ FlagHonest'
  BY <1>1 DEF Reset
<1> QED BY <1>1, <1>2, <1>3, <1>4

(* Stores and registry untouched, the pods in memory untouched.               *)
LEMMA HonestFrame ==
  ASSUME SignedInv, podStore' = podStore, published \subseteq published'
  PROVE  StoreHonest' /\ (mem' = mem => MemoryHonest')
BY DEF SignedInv, StoreHonest, MemoryHonest, Honest

(* A version that claims no more than what is signed may be written.          *)
LEMMA HonestWrite ==
  ASSUME TypeInv, SignedInv, published' = published,
         NEW p \in Pods, NEW c \in Pod, Honest(p, c), WritePod(p, c)
  PROVE  StoreHonest'
<1>1. podStore[p] \in Histories(Pod) /\ podStore \in [Pods -> Histories(Pod)]
  BY DEF TypeInv, StoreOK
<1>2. Versions(Write(podStore[p], c)) = Versions(podStore[p]) \cup {c}
  BY <1>1, WriteAddsVersion
<1>3. SUFFICES ASSUME NEW q \in Pods, NEW d \in Versions(podStore'[q])
               PROVE  Honest(q, d)
  BY DEF StoreHonest, Honest
<1>4. d \in Versions(podStore[q]) \/ (q = p /\ d = c)
  BY <1>1, <1>2 DEF WritePod
<1> QED BY <1>4 DEF SignedInv, StoreHonest

(* Reading the cache and the API server.                                      *)
LEMMA HonestReads ==
  ASSUME TypeInv, SignedInv, NEW p \in Pods
  PROVE  Honest(p, Cached(podStore[p])) /\ Honest(p, Stored(podStore[p]))
<1>1. podStore[p] \in Histories(Pod)
  BY DEF TypeInv, StoreOK
<1> QED BY <1>1, ReadIsVersion DEF SignedInv, StoreHonest

(* The annotation patchMetadata writes claims no more than what is signed.    *)
LEMMA HonestPatched ==
  ASSUME TypeInv, SignedInv, pc = "AnnPatch"
  PROVE  /\ order[i] \in Pods
         /\ AnnotationPatched(order[i]) \in Pod
         /\ Honest(order[i], AnnotationPatched(order[i]))
<1> DEFINE p == order[i]
           c == Stored(podStore[p])
<1>1. p \in Pods /\ patch.key \in AnnKeys /\ patch.val \in AnnValues
  BY LoopPod DEF InLoop, Labels, TypeInv, ControlOK, Patch
<1>2. c \in Pod /\ AnnotationPatched(p) \in Pod
  BY <1>1, ReadsOK, OperatorTypes DEF AnnotationPatched
<1>3. Honest(p, c)
  BY <1>1, HonestReads
<1>4. AnnotationPatched(p).ann = [c.ann EXCEPT ![patch.key] = patch.val]
  BY <1>2 DEF AnnotationPatched, Annotate, Pod
<1>5. c.ann \in [AnnKeys -> AnnValues]
  BY <1>2 DEF Pod
<1>6. \A k \in {"signed", "status"} :
        AnnotationPatched(p).ann[k] = "Completed"
          => c.ann[k] = "Completed" \/ (patch.key = k /\ patch.val = "Completed")
  BY <1>1, <1>4, <1>5 DEF AnnKeys
<1>7. Honest(p, AnnotationPatched(p))
  BY <1>3, <1>6 DEF Honest, SignedInv, PatchHonest
<1> QED BY <1>1, <1>2, <1>7
------------------------------------------------------------------------------
(* One lemma per group of actions.                                            *)
LEMMA SignedBegin ==
  ASSUME TypeInv, SignedInv, BeginFails \/ BeginIgnores \/ BeginSecures
  PROVE  SignedInv'
<1>1. CASE BeginFails \/ BeginIgnores
  BY <1>1 DEF BeginFails, BeginIgnores, SignedInv, StoreHonest, MemoryHonest,
              Honest, PatchHonest, FlagHonest, stores, registry, worker
<1>2. CASE BeginSecures
  BY <1>2, HonestFrame, HonestElsewhere DEF BeginSecures, SignedInv, stores, registry
<1> QED BY <1>1, <1>2

LEMMA SignedLabel ==
  ASSUME TypeInv, SignedInv, LabelGet \/ LabelPatch \/ LabelConflict \/ LabelFails
  PROVE  SignedInv'
<1>1. podStore' = podStore /\ published' = published
  BY DEF LabelGet, LabelPatch, LabelConflict, LabelFails, stores, registry
<1>2. CASE \E w : AfterLabel(w)
  BY <1>1, <1>2, HonestFrame, HonestElsewhere
     DEF AfterLabel, Goto, End, SignedInv
<1>3. CASE Goto("LabelPatch") /\ UNCHANGED <<order, queued, mem>>
  BY <1>1, <1>3, HonestFrame, HonestElsewhere DEF Goto, SignedInv
<1>4. CASE End(TRUE)
  BY <1>1, <1>4, HonestFrame, HonestElsewhere DEF End, SignedInv
<1> QED BY <1>2, <1>3, <1>4 DEF LabelGet, LabelPatch, LabelConflict, LabelFails

LEMMA SignedGetPodInfo ==
  ASSUME TypeInv, SignedInv, GetPodInfo
  PROVE  SignedInv'
<1>1. podStore' = podStore /\ published' = published
  BY DEF GetPodInfo, stores, registry
<1>2. CASE End(TRUE)
  BY <1>1, <1>2, HonestFrame, HonestElsewhere DEF End, SignedInv
<1>3. CASE pc' = "Pod" /\ mem' = [p \in Pods |-> NewStatus]
  <2>1. MemoryHonest'
    BY <1>3 DEF MemoryHonest, Honest, NewStatus, NoPod, AnnKeys
  <2> QED BY <1>1, <1>3, <2>1, HonestFrame, HonestElsewhere DEF SignedInv
<1> QED BY <1>2, <1>3 DEF GetPodInfo

LEMMA SignedReconcilePod ==
  ASSUME TypeInv, SignedInv, ReconcilePod
  PROVE  SignedInv'
<1> DEFINE p == order[i]
           c == Cached(podStore[p])
           m == Load(mem[p], c)
<1>1. podStore' = podStore /\ published' = published
  BY DEF ReconcilePod, stores, registry
<1>2. p \in Pods /\ mem \in [Pods -> PodStatus] /\ mem[p] \in PodStatus
  BY LoopPod DEF ReconcilePod, InLoop, Labels, TypeInv, MemoryOK
<1>3. Honest(p, c) /\ m.pod = c
  BY <1>2, HonestReads DEF Load
<1>4. CASE End(TRUE)
  BY <1>1, <1>4, HonestFrame, HonestElsewhere DEF End, SignedInv
<1>5. CASE NextPod \/ Set("status", "Skipped") \/ Set("status", "In-Progress")
  <2>1. PatchHonest' /\ FlagHonest'
    BY <1>5 DEF NextPod, Set, PatchHonest, FlagHonest
  <2>2. ASSUME mem' = mem \/ mem' = [mem EXCEPT ![p].reconciled = TRUE]
        PROVE  MemoryHonest'
    <3>1. \A q \in Pods : mem'[q].pod = mem[q].pod
      BY <1>2, <2>2 DEF PodStatus
    <3> QED BY <1>1, <3>1 DEF SignedInv, MemoryHonest, Honest
  <2>3. ASSUME \/ mem' = [mem EXCEPT ![p] = m]
             \/ mem' = [mem EXCEPT ![p] = [m EXCEPT !.reconciled = TRUE]]
        PROVE  MemoryHonest'
    <3>1. mem'[p].pod = c /\ \A q \in Pods \ {p} : mem'[q] = mem[q]
      BY <1>2, <1>3, <2>3 DEF Load
    <3> QED BY <1>1, <1>3, <3>1 DEF SignedInv, MemoryHonest, Honest
  <2>4. MemoryHonest'
    BY <1>5, <2>2, <2>3 DEF ReconcilePod, PodMissing, End, Reset, NextPod, Set
  <2> QED BY <1>1, <2>1, <2>4, HonestFrame DEF SignedInv
<1> QED BY <1>4, <1>5 DEF ReconcilePod, PodMissing

LEMMA SignedAnnotation ==
  ASSUME TypeInv, SignedInv, AnnotationGet \/ AnnotationPatch \/ AnnotationPatchFails
  PROVE  SignedInv'
<1> DEFINE p == order[i]
           c == Cached(podStore[p])
<1>1. pc \in {"AnnGet", "AnnPatch"}
  BY DEF AnnotationGet, AnnotationPatch, AnnotationPatchFails
<1>2. p \in Pods /\ mem \in [Pods -> PodStatus] /\ mem[p] \in PodStatus
  BY <1>1, LoopPod DEF InLoop, Labels, TypeInv, MemoryOK
<1>3. published' = published
  BY DEF AnnotationGet, AnnotationPatch, AnnotationPatchFails, registry
<1>4. ASSUME NEW d, Honest(p, d), mem' = [mem EXCEPT ![p].pod = d]
      PROVE  /\ MemoryHonest'
             /\ mem'[p].found = mem[p].found /\ mem'[p].signed = mem[p].signed
  <2>1. /\ mem'[p].pod = d /\ \A q \in Pods \ {p} : mem'[q] = mem[q]
        /\ mem'[p].found = mem[p].found /\ mem'[p].signed = mem[p].signed
    BY <1>2, <1>4 DEF PodStatus
  <2> QED BY <1>3, <1>4, <2>1 DEF SignedInv, MemoryHonest, Honest
<1>5. ASSUME AfterAnnotation, order' = order,
             mem'[p].found = mem[p].found, mem'[p].signed = mem[p].signed
      PROVE  PatchHonest' /\ FlagHonest'
  <2>1. patch.key \in AnnKeys
    BY <1>1 DEF TypeInv, ControlOK
  <2>2. CASE \/ NextPod \/ NextAttest
             \/ Goto("Artifacts") \/ Goto("Signing")
    BY <2>2 DEF NextPod, NextAttest, Goto, Set, PatchHonest, FlagHonest
  <2>3. CASE patch.key \in {"signed", "sbom"} /\ \E l \in {"Sbom", "Final"} : Goto(l)
    BY <1>1, <1>3, <1>5, <2>3 DEF Goto, PatchHonest, FlagHonest, SignedInv
  <2> QED BY <1>5, <2>1, <2>2, <2>3, ReconcilerAssumption DEF AfterAnnotation, AnnKeys
<1>6. ASSUME AnnotationFails
      PROVE  MemoryHonest' /\ PatchHonest' /\ FlagHonest'
  <2>1. CASE patch.key = "sbom" /\ Goto("Final") /\ Keep /\ UNCHANGED mem
    BY <1>1, <1>3, <2>1
       DEF Goto, Keep, PatchHonest, FlagHonest, MemoryHonest, Honest, SignedInv
  <2>2. CASE Set("label", "Error") /\ Keep /\ UNCHANGED mem
    BY <1>3, <2>2, HonestElsewhere DEF MemoryHonest, Honest, SignedInv
  <2>3. CASE End(TRUE)
    BY <2>3, HonestElsewhere DEF End
  <2> QED BY <1>6, <2>1, <2>2, <2>3 DEF AnnotationFails
<1>7. CASE AnnotationGet
  <2>1. StoreHonest'
    BY <1>3, <1>7, HonestFrame DEF AnnotationGet, stores
  <2>2. CASE ~ c.live
    BY <1>6, <1>7, <2>1, <2>2 DEF AnnotationGet, SignedInv
  <2>3. CASE c.live
    <3>1. mem' = [mem EXCEPT ![p].pod = c] /\ Keep /\ Honest(p, c)
      BY <1>2, <1>7, <2>3, HonestReads DEF AnnotationGet
    <3>2. CASE AfterAnnotation
      BY <1>4, <1>5, <2>1, <3>1, <3>2 DEF Keep, SignedInv
    <3>3. CASE Goto("AnnPatch")
      BY <1>1, <1>3, <1>4, <2>1, <3>1, <3>3
         DEF Goto, Keep, PatchHonest, FlagHonest, SignedInv
    <3> QED BY <1>7, <2>3, <3>2, <3>3 DEF AnnotationGet
  <2> QED BY <2>2, <2>3
<1>8. CASE AnnotationPatch
  <2>1. AnnotationPatched(p) \in Pod /\ Honest(p, AnnotationPatched(p))
    BY <1>8, HonestPatched DEF AnnotationPatch
  <2>2. StoreHonest'
    BY <1>2, <1>3, <1>8, <2>1, HonestWrite DEF AnnotationPatch
  <2> QED BY <1>4, <1>5, <1>8, <2>1, <2>2 DEF AnnotationPatch, Keep, SignedInv
<1>9. CASE AnnotationPatchFails
  <2>1. AnnotationPatched(p) \in Pod /\ Honest(p, AnnotationPatched(p))
    BY <1>9, HonestPatched DEF AnnotationPatchFails
  <2>2. StoreHonest'
    BY <1>2, <1>3, <1>9, <2>1, HonestWrite, HonestFrame DEF AnnotationPatchFails
  <2> QED BY <1>6, <1>9, <2>2 DEF AnnotationPatchFails, SignedInv
<1> QED BY <1>7, <1>8, <1>9

LEMMA SignedPodHandlers ==
  ASSUME TypeInv, SignedInv,
         HandleArtifactInfo \/ HandleArtifactSigning \/ HandleSBOMgeneration
           \/ UpdateFinalStatus
  PROVE  SignedInv'
<1> DEFINE p == order[i]
           m == mem[p]
<1>1. p \in Pods /\ mem \in [Pods -> PodStatus] /\ m \in PodStatus
  BY LoopPod DEF HandleArtifactInfo, HandleArtifactSigning, HandleSBOMgeneration,
                 UpdateFinalStatus, InLoop, Labels, TypeInv, MemoryOK
<1>2. podStore' = podStore /\ order' = order /\ published \subseteq published'
  BY DEF HandleArtifactInfo, HandleArtifactSigning, HandleSBOMgeneration,
         UpdateFinalStatus, Keep, stores, registry
<1>3. StoreHonest'
  BY <1>2, HonestFrame
<1>4. MemoryHonest'
  <2>1. \A q \in Pods : mem'[q].pod = mem[q].pod
    <3>1. CASE HandleArtifactInfo
      <4>1. \A b \in BOOLEAN, ref \in {"Ref", "NotFound"} :
              /\ [m EXCEPT !.found = b].pod = m.pod
              /\ [[m EXCEPT !.found = b] EXCEPT !.info = ref].pod = m.pod
        BY <1>1 DEF PodStatus
      <4>2. \/ \E b \in BOOLEAN : mem' = [mem EXCEPT ![p] = [m EXCEPT !.found = b]]
            \/ \E b \in BOOLEAN, ref \in {"Ref", "NotFound"} :
                 mem' = [mem EXCEPT ![p] = [[m EXCEPT !.found = b] EXCEPT !.info = ref]]
        BY <1>1, <3>1, OperatorTypes DEF HandleArtifactInfo
      <4> QED BY <1>1, <4>1, <4>2
    <3>2. CASE HandleArtifactSigning
      <4>1. \A b \in BOOLEAN : [m EXCEPT !.signed = b].pod = m.pod
        BY <1>1 DEF PodStatus
      <4>2. \/ mem' = mem
            \/ \E b \in BOOLEAN : mem' = [mem EXCEPT ![p] = [m EXCEPT !.signed = b]]
        BY <1>1, <3>2 DEF HandleArtifactSigning, SignedBefore
      <4> QED BY <1>1, <4>1, <4>2
    <3>3. CASE HandleSBOMgeneration \/ UpdateFinalStatus
      BY <1>1, <3>3 DEF HandleSBOMgeneration, UpdateFinalStatus, PodStatus
    <3> QED BY <3>1, <3>2, <3>3
  <2> QED BY <1>2, <2>1 DEF SignedInv, MemoryHonest, Honest
<1>5. ASSUME HandleArtifactInfo PROVE PatchHonest' /\ FlagHonest'
  BY <1>5, HonestElsewhere DEF HandleArtifactInfo, Goto
<1>6. ASSUME HandleArtifactSigning PROVE PatchHonest' /\ FlagHonest'
  <2>1. CASE ~ m.found /\ Set("signed", "Skipped") /\ UNCHANGED <<mem, published>>
    BY <1>2, <2>1 DEF Set, PatchHonest, FlagHonest
  <2>2. ASSUME NEW ok \in BOOLEAN,
               ok => m.info = "Ref",
               \/ m.info = "Ref" /\ published' = published \cup {p}
               \/ ~ ok /\ UNCHANGED published,
               mem' = [mem EXCEPT ![p].signed = ok],
               Set("signed", IF ok THEN "Completed" ELSE "Error")
        PROVE  PatchHonest' /\ FlagHonest'
    <3>1. CASE ok
      <4>1. p \in published' /\ order'[i'] = p
        BY <1>2, <2>2, <3>1 DEF Set
      <4> QED BY <4>1 DEF PatchHonest, FlagHonest
    <3>2. CASE ~ ok
      <4>1. ~ mem'[p].signed /\ order'[i'] = p /\ patch'.val = "Error"
        BY <1>1, <1>2, <2>2, <3>2 DEF Set, PodStatus
      <4> QED BY <4>1 DEF PatchHonest, FlagHonest
    <3> QED BY <3>1, <3>2
  <2>3. CASE /\ mem' = [mem EXCEPT ![p].signed = SignedBefore(m.pod)]
             /\ AfterSigning /\ UNCHANGED published
    <3>1. mem'[p].signed = SignedBefore(m.pod) /\ order'[i'] = p
          /\ pc' \in {"Sbom", "Final"}
      BY <1>1, <1>2, <2>3 DEF PodStatus, AfterSigning, Goto
    <3>2. SignedBefore(m.pod) => p \in published
      BY <1>1 DEF SignedBefore, SignedInv, MemoryHonest, Honest
    <3> QED BY <2>3, <3>1, <3>2 DEF PatchHonest, FlagHonest
  <2> QED BY <1>6, <2>1, <2>2, <2>3 DEF HandleArtifactSigning
<1>7. ASSUME HandleSBOMgeneration PROVE PatchHonest' /\ FlagHonest'
  <2>1. mem' = mem /\ published' = published /\ pc = "Sbom"
    BY <1>7 DEF HandleSBOMgeneration, registry
  <2>2. Goto("Final") \/ \E val : Set("sbom", val)
    BY <1>7 DEF HandleSBOMgeneration
  <2> QED BY <1>2, <2>1, <2>2 DEF Goto, Set, PatchHonest, FlagHonest, SignedInv
<1>8. ASSUME UpdateFinalStatus PROVE PatchHonest' /\ FlagHonest'
  <2>1. Set("status", FinalStatus(m)) /\ published' = published /\ pc = "Final"
    BY <1>8 DEF UpdateFinalStatus, registry
  <2>2. FinalStatus(m) = "Completed" => p \in published
    BY <2>1 DEF FinalStatus, SignedInv, FlagHonest
  <2> QED BY <1>2, <2>1, <2>2 DEF Set, PatchHonest, FlagHonest
<1> QED BY <1>3, <1>4, <1>5, <1>6, <1>7, <1>8 DEF SignedInv

LEMMA SignedValidateAttest ==
  ASSUME TypeInv, SignedInv, ValidateAllPodsReconciled \/ HandleProvenanceAttachment
  PROVE  SignedInv'
<1>1. podStore' = podStore /\ published' = published
  BY DEF ValidateAllPodsReconciled, HandleProvenanceAttachment, stores, registry
<1>2. \/ End(FALSE) \/ End(TRUE)
      \/ /\ \/ \E key \in {"label", "provenance"} : \E val : Set(key, val)
            \/ Goto("Attest")
            \/ NextAttest
         /\ UNCHANGED mem
  BY DEF ValidateAllPodsReconciled, HandleProvenanceAttachment, NoPodPanics
<1>3. CASE End(FALSE) \/ End(TRUE)
  BY <1>1, <1>3, HonestFrame, HonestElsewhere DEF End, SignedInv
<1>4. CASE /\ \/ \E key \in {"label", "provenance"} : \E val : Set(key, val)
              \/ Goto("Attest")
              \/ NextAttest
           /\ UNCHANGED mem
  BY <1>1, <1>4, HonestFrame, HonestElsewhere DEF Goto, NextAttest, SignedInv
<1> QED BY <1>2, <1>3, <1>4

LEMMA SignedWorker ==
  ASSUME TypeInv, SignedInv, Worker
  PROVE  SignedInv'
BY SignedBegin, SignedLabel, SignedGetPodInfo, SignedReconcilePod,
   SignedAnnotation, SignedPodHandlers, SignedValidateAttest DEF Worker

(* The kubelet and the Argo controller keep the annotations of a pod.         *)
LEMMA SignedEnvironment ==
  ASSUME TypeInv, SignedInv, Environment
  PROVE  SignedInv'
<1>1. Quiet
  BY DEF Environment, StartNode, LeaveUnknown, FinishPod, FinishNode, DeletePod,
         DeleteWorkflow, Enable
<1>2. MemoryHonest' /\ PatchHonest' /\ FlagHonest' /\ published' = published
  BY <1>1 DEF Quiet, registry, worker, SignedInv, MemoryHonest, Honest,
              PatchHonest, FlagHonest
<1>3. CASE podStore' = podStore
  BY <1>2, <1>3, HonestFrame DEF SignedInv
<1>4. ASSUME NEW p \in Pods, NEW c \in Pod, WritePod(p, c), Honest(p, c)
      PROVE  SignedInv'
  BY <1>2, <1>4, HonestWrite DEF SignedInv
<1>5. \A p \in Pods : NewPod \in Pod /\ Honest(p, NewPod)
  BY InitialObjects DEF Honest, NewPod, NoPod, AnnKeys
<1>6. ASSUME NEW p \in Pods
      PROVE  LET c == Stored(podStore[p]) IN
             \A phase \in {"Succeeded", "Failed"} :
               /\ [c EXCEPT !.phase = phase] \in Pod
               /\ Honest(p, [c EXCEPT !.phase = phase])
               /\ [c EXCEPT !.live = FALSE] \in Pod
               /\ Honest(p, [c EXCEPT !.live = FALSE])
  BY ReadsOK, HonestReads DEF Honest, Pod
<1>7. ASSUME NEW p \in Pods, StartNode(p) \/ LeaveUnknown(p)
      PROVE  SignedInv'
  BY <1>3, <1>4, <1>5, <1>7 DEF StartNode, LeaveUnknown
<1>8. ASSUME NEW p \in Pods, FinishPod(p) \/ DeletePod(p)
      PROVE  SignedInv'
  BY <1>4, <1>6, <1>8 DEF FinishPod, DeletePod
<1>9. ASSUME NEW p \in Pods, FinishNode(p)
      PROVE  SignedInv'
  BY <1>3, <1>9 DEF FinishNode
<1>10. CASE DeleteWorkflow \/ Enable
  BY <1>3, <1>10 DEF DeleteWorkflow, Enable
<1> QED BY <1>7, <1>8, <1>9, <1>10 DEF Environment

(* Watch events and a relist bring only versions that were written.           *)
LEMMA SignedInformersCrash ==
  ASSUME TypeInv, SignedInv, Informers \/ Crash
  PROVE  SignedInv'
<1>1. published' = published
  BY DEF Informers, SyncWorkflow, SyncPod, Resync, Crash, registry
<1>2. podStore \in [Pods -> Histories(Pod)]
  BY DEF TypeInv, StoreOK
<1>3. StoreHonest'
  <2>1. \A p \in Pods : Versions(podStore'[p]) \subseteq Versions(podStore[p])
    BY <1>2, DeliveryKeepsVersions
       DEF Informers, SyncWorkflow, SyncPod, Resync, Crash, stores
  <2> QED BY <1>1, <2>1 DEF SignedInv, StoreHonest, Honest
<1>4. MemoryHonest' /\ PatchHonest' /\ FlagHonest'
  <2>1. CASE worker' = worker
    BY <1>1, <2>1 DEF worker, SignedInv, MemoryHonest, Honest, PatchHonest, FlagHonest
  <2>2. CASE Reset
    BY <2>2, HonestElsewhere
  <2> QED BY <2>1, <2>2 DEF Informers, SyncWorkflow, SyncPod, Resync, Crash
<1> QED BY <1>3, <1>4 DEF SignedInv

LEMMA SignedInit == Init => SignedInv
<1> SUFFICES ASSUME Init PROVE SignedInv
  OBVIOUS
<1>1. \A p \in Pods : Honest(p, NoPod)
  BY DEF Honest, NoPod, AnnKeys
<1>2. \A p \in Pods : Versions(podStore[p]) = {NoPod}
  BY DEF Init, Versions
<1> QED BY <1>1, <1>2 DEF Init, SignedInv, StoreHonest, MemoryHonest, PatchHonest,
                          FlagHonest, NewStatus

LEMMA SignedNext == TypeInv /\ SignedInv /\ [Next]_vars => SignedInv'
<1> SUFFICES ASSUME TypeInv, SignedInv, [Next]_vars PROVE SignedInv'
  OBVIOUS
<1>1. CASE UNCHANGED vars
  BY <1>1 DEF vars, stores, registry, worker, SignedInv, StoreHonest, MemoryHonest,
              Honest, PatchHonest, FlagHonest
<1> QED BY <1>1, SignedWorker, SignedEnvironment, SignedInformersCrash DEF Next

LEMMA SignedImpliesCompleted == TypeInv /\ SignedInv => CompletedPodIsSigned
BY HonestReads DEF Honest, CompletedPodIsSigned

LEMMA SignedInvariant == Spec => []SignedInv
BY SignedInit, SignedNext, TypeInvariant, PTL DEF Spec

(* No pod is ever reported as Completed in the API server before a signature  *)
(* of its artifact is in the registry, whatever is stale, fails or crashes:   *)
(* updateFinalStatus never turns a failed signing into a success.             *)
THEOREM CompletedIsSigned == Spec => []CompletedPodIsSigned
BY SignedInvariant, TypeInvariant, SignedImpliesCompleted, PTL
------------------------------------------------------------------------------
(* No workflow is forgotten. While nothing has put the workflow back into the *)
(* queue, the cached version is the one the running reconcile began with; if  *)
(* that is also the stored one and all its nodes have finished, the reconcile *)
(* finds nothing to wait for. Only conflicts, after which the code does not   *)
(* requeue, are left out.                                                     *)
NoConflicts == MaxFaults["conflict"] = 0

(* Nothing will wake the controller up, and the workflow awaits its verdict.  *)
Owed == /\ ~ queued /\ Synced(wfStore) /\ Pods # {} /\ AllFinished
        /\ Stored(wfStore).live /\ Stored(wfStore).enabled /\ ~ Decided

(* The loop over the pods, which leaves every pod behind it reconciled.       *)
OverPods == \/ pc \in {"Pod", "Artifacts", "Signing", "Sbom", "Final"}
            \/ pc \in {"AnnGet", "AnnPatch"} /\ patch.key # "provenance"
ReconciledUpTo(n) == \A k \in 1 .. n : mem[order[k]].reconciled
Underway ==
  /\ pc # "Idle"
  /\ pc \in {"LabelGet", "LabelPatch"} => patch.val \in {"In-Progress"} \cup Final
  /\ pc = "PodInfo" \/ OverPods => \A p \in Pods : snap.nodes[p] \in Finished
  /\ OverPods => ReconciledUpTo(i - 1)
  /\ pc \in {"AnnGet", "AnnPatch"} /\ patch.key = "status" /\ patch.val # "In-Progress"
       => mem[order[i]].reconciled
  /\ pc = "Validate" => ReconciledUpTo(Len(order))

WakeInv == faults["conflict"] = 0 /\ (Owed => Underway)
(* A write, or a delivery, is an event that wakes the controller up.          *)
LEMMA OwedSteps ==
  ASSUME TypeInv, [Next]_vars, Owed', ~ BeginSecures
  PROVE  Owed /\ ~ BeginIgnores /\ ~ Crash /\ UNCHANGED <<wfStore, queued>>
<1>0. wfStore \in Histories(Workflow) /\ queued \in BOOLEAN /\ ~ queued'
  BY DEF TypeInv, StoreOK, Owed
<1>1. ASSUME NEW v \in Workflow, WriteWf(v)
      PROVE  wfStore' = wfStore
  <2>1. CASE v = Stored(wfStore)
    BY <1>1, <2>1 DEF WriteWf, Write
  <2>2. CASE v # Stored(wfStore)
    <3>1. Len(wfStore') = Len(wfStore) + 1 /\ Len(wfStore) \in Nat \ {0}
      BY <1>0, <1>1, <2>2 DEF WriteWf, Write, Histories
    <3>2. Len(wfStore') = 1
      BY DEF Owed, Synced
    <3>3. \A n \in Nat \ {0} : n + 1 # 1
      OBVIOUS
    <3> QED
      BY <3>1, <3>2, <3>3, Zenon
  <2> QED
    BY <2>1, <2>2
<1>2. /\ Stored(wfStore) \in Workflow
      /\ pc = "LabelPatch" => LabelPatched \in Workflow
      /\ \A p \in Pods, phase \in NodePhases :
           [Stored(wfStore) EXCEPT !.nodes[p] = phase] \in Workflow
      /\ [Stored(wfStore) EXCEPT !.live = FALSE] \in Workflow
      /\ [Stored(wfStore) EXCEPT !.enabled = TRUE] \in Workflow
  BY ReadsOK DEF LabelPatched, Workflow, TypeInv, ControlOK
<1>3. wfStore' = wfStore
  <2>1. CASE Worker
    BY <1>1, <1>2, <2>1
    DEF Worker, BeginFails, BeginIgnores, BeginSecures, LabelGet, LabelPatch,
        LabelConflict, LabelFails, GetPodInfo, ReconcilePod, AnnotationGet,
        AnnotationPatch, AnnotationPatchFails, HandleArtifactInfo,
        HandleArtifactSigning, HandleSBOMgeneration, UpdateFinalStatus,
        ValidateAllPodsReconciled, HandleProvenanceAttachment, stores
  <2>2. \A p \in Pods, phase \in NodePhases :
          SetNode(p, phase) => wfStore' = wfStore
    BY <1>1, <1>2 DEF SetNode
  <2>3. OddPhases \subseteq NodePhases
        /\ {"Running", "Succeeded", "Failed", "Error"} \subseteq NodePhases
    BY ReconcilerAssumption DEF NodePhases
  <2>4. CASE Environment
    BY <1>1, <1>2, <2>2, <2>3, <2>4
    DEF Environment, StartNode, LeaveUnknown, FinishPod, FinishNode, DeletePod,
        DeleteWorkflow, Enable
  <2>5. CASE Informers \/ Crash \/ UNCHANGED vars
    BY <1>0, <2>5 DEF Informers, SyncWorkflow, SyncPod, Resync, Crash, stores, vars
  <2> QED
    BY <2>1, <2>4, <2>5 DEF Next
<1>4. ~ BeginIgnores
  BY <1>3 DEF BeginIgnores, ToSecure, Owed, Synced, Stored, Cached, Decided
<1>5. ~ Crash
  BY <1>0 DEF Crash
<1>6. ~ queued
  <2>1. queued => BeginIgnores \/ BeginSecures \/ queued'
    BY DEF Next, Worker, BeginFails, LabelGet, LabelPatch, LabelConflict, LabelFails,
       GetPodInfo, ReconcilePod, AnnotationGet, AnnotationPatch, AnnotationPatchFails,
       AnnotationFails, HandleArtifactInfo, HandleArtifactSigning,
       HandleSBOMgeneration, UpdateFinalStatus, ValidateAllPodsReconciled,
       HandleProvenanceAttachment, NoPodPanics, PodMissing, AfterLabel, End, Keep,
       Environment, StartNode, LeaveUnknown, FinishPod, FinishNode, DeletePod,
       DeleteWorkflow, Enable, Quiet, Informers, SyncWorkflow, SyncPod, Resync, Crash,
       vars
  <2> QED
    BY <1>0, <1>4, <2>1
<1>7. Owed
  BY <1>3, <1>6 DEF Owed, AllFinished, Decided, Stored, Synced
<1>8. queued = FALSE /\ queued' = FALSE
  BY <1>0, <1>6, TypeNext DEF TypeInv, StoreOK
<1> QED
  BY <1>3, <1>4, <1>5, <1>7, <1>8

(* A return of Reconcile that nothing follows up.                             *)
LEMMA NoRequeue ==
  ASSUME Owed'
  PROVE  ~ End(TRUE)
BY DEF Owed, End

(* The pods behind the loop stay reconciled when a handler changes its pod.   *)
LEMMA ReconciledStays ==
  ASSUME TypeInv, NEW n \in Nat, n <= Len(order), ReconciledUpTo(n), order' = order,
         \A p \in Pods : mem[p].reconciled => mem'[p].reconciled
  PROVE  \A k \in 1 .. n : mem'[order'[k]].reconciled
<1>1. order \in Seq(Pods)
  BY DEF TypeInv, MemoryOK
<1>2. \A k \in 1 .. n : order[k] \in Pods
  BY <1>1
<1> QED
  BY <1>2 DEF ReconciledUpTo

LEMMA WakeLabel ==
  ASSUME TypeInv, WakeInv, Owed, Owed', wfStore' = wfStore,
         LabelGet \/ LabelPatch \/ LabelConflict \/ LabelFails
  PROVE  Underway'
<1>1. Stored(wfStore).live /\ Cached(wfStore) = Stored(wfStore)
      /\ Stored(wfStore).status \notin Final
      /\ \A p \in Pods : Stored(wfStore).nodes[p] \in Finished
  BY DEF Owed, Synced, Stored, Cached, Decided, AllFinished
<1>2. ~ LabelConflict
  BY <1>1 DEF LabelConflict, WakeInv, Spend
<1>3. ~ LabelFails
  BY NoRequeue DEF LabelFails
<1>4. CASE LabelPatch
  <2>1. wfStore \in Histories(Workflow) /\ Len(Append(wfStore, LabelPatched)) # Len(wfStore)
    BY DEF TypeInv, StoreOK, Histories
  <2>2. LabelPatched = Stored(wfStore)
    BY <1>4, <2>1 DEF LabelPatch, WriteWf, Write
  <2>3. Stored(wfStore) \in Workflow
    BY ReadsOK DEF TypeInv
  <2>4. Stored(wfStore).status = patch.val
    BY <2>2, <2>3 DEF LabelPatched, Workflow
  <2>5. patch.val = "In-Progress"
    BY <1>1, <1>4, <2>4 DEF LabelPatch, WakeInv, Underway
  <2>6. pc' = "PodInfo" /\ snap' = Stored(wfStore)
    BY <1>4, <2>2, <2>5 DEF LabelPatch, AfterLabel, Goto
  <2> QED
    BY <1>1, <2>6 DEF Underway, OverPods
<1>5. CASE LabelGet
  <2>1. CASE Stored(wfStore).status = patch.val
    <3>1. patch.val = "In-Progress"
      BY <1>1, <1>5, <2>1 DEF LabelGet, WakeInv, Underway
    <3> QED
      BY <1>1, <1>5, <2>1, <3>1
      DEF LabelGet, AfterLabel, Goto, Underway, OverPods
  <2>2. CASE Stored(wfStore).status # patch.val
    BY <1>1, <1>5, <2>2 DEF LabelGet, Goto, WakeInv, Underway, OverPods
  <2> QED
    BY <2>1, <2>2
<1> QED
  BY <1>2, <1>3, <1>4, <1>5

LEMMA WakeGetPodInfo ==
  ASSUME TypeInv, WakeInv, Owed, Owed', GetPodInfo
  PROVE  Underway'
<1>1. {p \in Pods : snap.nodes[p] # "Absent"} # {}
  BY DEF GetPodInfo, WakeInv, Underway, Owed, Finished
<1>2. pc' = "Pod" /\ i' = 1 /\ snap' = snap
  BY <1>1 DEF GetPodInfo
<1>3. \A p \in Pods : snap'.nodes[p] \in Finished
  BY <1>2 DEF GetPodInfo, WakeInv, Underway
<1>4. ReconciledUpTo(i - 1)'
  BY <1>2 DEF ReconciledUpTo
<1> QED
  BY <1>2, <1>3, <1>4 DEF Underway, OverPods

(* The loop over the pods goes on to the next one, or stays with this one.    *)
LEMMA WakeNextPod ==
  ASSUME TypeInv, Underway, OverPods, NextPod, UNCHANGED <<order, snap>>,
         \A p \in Pods : mem[p].reconciled => mem'[p].reconciled,
         mem'[order[i]].reconciled
  PROVE  Underway'
<1>1. /\ pc \in InLoop /\ i \in 1 .. Len(order) /\ i \in Nat /\ Len(order) \in Nat
      /\ order \in Seq(Pods)
  BY DEF OverPods, InLoop, Labels, TypeInv, MemoryOK, ControlOK
<1>2. ReconciledUpTo(i - 1) /\ i - 1 \in Nat /\ i - 1 <= Len(order)
  BY <1>1 DEF Underway
<1>3. \A k \in 1 .. i - 1 : mem'[order[k]].reconciled
  BY <1>2, ReconciledStays
<1>4. \A k \in 1 .. i : mem'[order[k]].reconciled
  <2>1. \A k \in 1 .. i : k \in 1 .. i - 1 \/ k = i
    BY <1>1
  <2> QED
    BY <1>3, <2>1
<1>5. CASE i < Len(order)
  <2>1. pc' = "Pod" /\ i' - 1 = i
    BY <1>1, <1>5 DEF NextPod
  <2>2. ReconciledUpTo(i - 1)'
    BY <1>4, <2>1 DEF ReconciledUpTo
  <2> QED
    BY <2>1, <2>2 DEF Underway, OverPods
<1>6. CASE ~ i < Len(order)
  <2>1. pc' = "Validate" /\ Len(order') = i
    BY <1>1, <1>6 DEF NextPod
  <2>2. ReconciledUpTo(Len(order))'
    BY <1>4, <2>1 DEF ReconciledUpTo
  <2> QED
    BY <2>1, <2>2 DEF Underway, OverPods
<1> QED
  BY <1>5, <1>6

LEMMA WakeSamePod ==
  ASSUME TypeInv, Underway, OverPods, OverPods', UNCHANGED <<order, snap, i>>,
         \A p \in Pods : mem[p].reconciled => mem'[p].reconciled,
         pc' \in {"AnnGet", "AnnPatch"} /\ patch'.key = "status"
           /\ patch'.val # "In-Progress" => mem'[order[i]].reconciled
  PROVE  Underway'
<1>1. pc \in InLoop /\ i \in 1 .. Len(order) /\ i \in Nat /\ Len(order) \in Nat
  BY DEF OverPods, InLoop, Labels, TypeInv, MemoryOK, ControlOK
<1>2. ReconciledUpTo(i - 1) /\ i - 1 \in Nat /\ i - 1 <= Len(order)
  BY <1>1 DEF Underway
<1>3. \A k \in 1 .. i - 1 : mem'[order'[k]].reconciled
  BY <1>2, ReconciledStays
<1>4. pc' \notin {"Idle", "LabelGet", "LabelPatch", "PodInfo", "Validate"}
  BY DEF OverPods
<1> QED
  BY <1>3, <1>4 DEF Underway, ReconciledUpTo

LEMMA WakeReconcilePod ==
  ASSUME TypeInv, WakeInv, Owed, Owed', ReconcilePod
  PROVE  Underway'
<1> DEFINE p == order[i]
           c == Cached(podStore[p])
           m == Load(mem[p], c)
<1>0. /\ pc = "Pod" /\ p \in Pods /\ mem \in [Pods -> PodStatus]
      /\ Underway /\ OverPods /\ snap.nodes[p] \in Finished
  <2>1. pc = "Pod" /\ p \in Pods /\ mem \in [Pods -> PodStatus]
    BY LoopPod DEF ReconcilePod, InLoop, Labels, TypeInv, MemoryOK
  <2> QED
    BY <2>1 DEF WakeInv, Underway, OverPods
<1>1. ~ PodMissing
  BY NoRequeue DEF PodMissing
<1>2. m.reconciled = (mem[p].reconciled \/ c.ann["status"] \notin {"none", "In-Progress"})
      /\ [m EXCEPT !.reconciled = TRUE].reconciled = TRUE
  BY DEF Load
<1>3. PICK d \in {m, [m EXCEPT !.reconciled = TRUE]} :
        /\ mem' = [mem EXCEPT ![p] = d] /\ Keep
        /\ \/ d.reconciled /\ NextPod
           \/ d.reconciled /\ Set("status", "Skipped")
           \/ Set("status", "In-Progress")
  <2>1. m \in {m, [m EXCEPT !.reconciled = TRUE]}
        /\ [m EXCEPT !.reconciled = TRUE] \in {m, [m EXCEPT !.reconciled = TRUE]}
    OBVIOUS
  <2> HIDE DEF m
  <2> QED
    BY <1>0, <1>1, <1>2, <2>1 DEF ReconcilePod, Finished, m
<1>4. mem[p].reconciled => d.reconciled
  BY <1>2, <1>3
<1>5. mem'[p] = d /\ \A q \in Pods : mem[q].reconciled => mem'[q].reconciled
  BY <1>0, <1>3, <1>4
<1>6. CASE d.reconciled /\ NextPod
  BY <1>0, <1>3, <1>5, <1>6, WakeNextPod DEF Keep
<1>7. ASSUME NEW val, Set("status", val), val = "In-Progress" \/ d.reconciled
      PROVE  Underway'
  <2>1. OverPods' /\ patch'.val = val /\ UNCHANGED <<order, snap, i>>
    BY <1>3, <1>7 DEF Set, Keep, OverPods
  <2> QED
    BY <1>0, <1>5, <1>7, <2>1, WakeSamePod
<1> QED
  BY <1>3, <1>6, <1>7

LEMMA WakeAnnotation ==
  ASSUME TypeInv, WakeInv, Owed, Owed',
         AnnotationGet \/ AnnotationPatch \/ AnnotationPatchFails
  PROVE  Underway'
<1> DEFINE p == order[i]
<1>0. /\ pc \in {"AnnGet", "AnnPatch"} /\ p \in Pods /\ mem \in [Pods -> PodStatus]
      /\ mem[p] \in PodStatus /\ Underway /\ patch.key \in AnnKeys
  <2>1. pc \in {"AnnGet", "AnnPatch"}
    BY DEF AnnotationGet, AnnotationPatch, AnnotationPatchFails
  <2> QED
    BY <2>1, LoopPod DEF InLoop, Labels, TypeInv, MemoryOK, ControlOK, WakeInv
<1>1. CASE AnnotationFails
  <2>1. CASE patch.key = "provenance"
    BY <1>1, <2>1 DEF AnnotationFails, Set, Underway, OverPods, Final
  <2>2. CASE patch.key = "sbom"
    <3>1. OverPods /\ OverPods' /\ pc' = "Final" /\ mem' = mem
          /\ UNCHANGED <<order, snap, i>>
      BY <1>0, <1>1, <2>2 DEF AnnotationFails, Goto, Keep, OverPods
    <3> QED
      BY <1>0, <3>1, WakeSamePod
  <2> QED
    BY <1>1, <2>1, <2>2, NoRequeue DEF AnnotationFails
<1>2. ASSUME Keep, \/ mem' = mem
                   \/ \E d : mem' = [mem EXCEPT ![p] = [mem[p] EXCEPT !.pod = d]]
      PROVE  \A q \in Pods : mem'[q].reconciled = mem[q].reconciled
  <2>1. \A d : [mem[p] EXCEPT !.pod = d].reconciled = mem[p].reconciled
    BY <1>0 DEF PodStatus
  <2> QED
    BY <1>0, <1>2, <2>1
<1>3. ASSUME Keep, AfterAnnotation,
             \A q \in Pods : mem'[q].reconciled = mem[q].reconciled
      PROVE  Underway'
  <2>1. CASE patch.key = "provenance"
    <3>1. NextAttest
      BY <1>3, <2>1 DEF AfterAnnotation
    <3> QED
      BY <3>1 DEF NextAttest, Set, Underway, OverPods, Final
  <2>2. CASE patch.key = "status" /\ patch.val # "In-Progress"
    <3>1. NextPod /\ OverPods /\ mem'[p].reconciled
      BY <1>0, <1>3, <2>2 DEF AfterAnnotation, OverPods, Underway
    <3> QED
      BY <1>0, <1>3, <3>1, WakeNextPod DEF Keep
  <2>3. CASE patch.key # "provenance" /\ ~ (patch.key = "status" /\ patch.val # "In-Progress")
    <3>1. pc' \in {"Artifacts", "Signing", "Sbom", "Final"} /\ i' = i
      BY <1>0, <1>3, <2>3 DEF AfterAnnotation, Goto, AnnKeys
    <3>2. OverPods /\ OverPods'
      BY <1>0, <2>3, <3>1 DEF OverPods
    <3> QED
      BY <1>0, <1>3, <3>1, <3>2, WakeSamePod DEF Keep
  <2> QED
    BY <2>1, <2>2, <2>3
<1>4. ASSUME Keep, Goto("AnnPatch"),
             \A q \in Pods : mem'[q].reconciled = mem[q].reconciled
      PROVE  Underway'
  <2>1. CASE patch.key = "provenance"
    BY <1>4, <2>1 DEF Goto, Underway, OverPods
  <2>2. CASE patch.key # "provenance"
    <3>1. OverPods /\ OverPods' /\ UNCHANGED <<order, snap, i, patch>>
      BY <1>0, <1>4, <2>2 DEF OverPods, Goto, Keep
    <3>2. patch.key = "status" /\ patch.val # "In-Progress" => mem'[p].reconciled
      BY <1>0, <1>4 DEF Underway
    <3> QED
      BY <1>0, <1>4, <3>1, <3>2, WakeSamePod
  <2> QED
    BY <2>1, <2>2
<1> QED
  BY <1>1, <1>2, <1>3, <1>4 DEF AnnotationGet, AnnotationPatch, AnnotationPatchFails

LEMMA WakePodHandlers ==
  ASSUME TypeInv, WakeInv, Owed,
         \/ HandleArtifactInfo \/ HandleArtifactSigning \/ HandleSBOMgeneration
         \/ UpdateFinalStatus
  PROVE  Underway'
<1> DEFINE p == order[i]
<1>0. /\ pc \in {"Artifacts", "Signing", "Sbom", "Final"} /\ p \in Pods
      /\ mem \in [Pods -> PodStatus] /\ mem[p] \in PodStatus
      /\ Underway /\ OverPods
  <2>1. pc \in {"Artifacts", "Signing", "Sbom", "Final"}
    BY DEF HandleArtifactInfo, HandleArtifactSigning, HandleSBOMgeneration,
       UpdateFinalStatus
  <2> QED
    BY <2>1, LoopPod DEF InLoop, Labels, TypeInv, MemoryOK, WakeInv, OverPods
<1>1. /\ UNCHANGED <<order, snap, i>> /\ OverPods'
      /\ UpdateFinalStatus \/ pc' # "AnnGet" \/ patch'.key # "status"
  <2>1. \A key \in {"artifacts", "signed", "sbom", "status"} : \A val :
          Set(key, val) => i' = i /\ OverPods' /\ patch'.key = key
    BY DEF Set, OverPods
  <2>2. \A l \in {"Signing", "Sbom", "Final"} :
          Goto(l) => i' = i /\ OverPods' /\ pc' # "AnnGet"
    BY DEF Goto, OverPods
  <2>3. CASE HandleArtifactInfo
    BY <2>1, <2>2, <2>3 DEF HandleArtifactInfo, Keep
  <2>4. CASE HandleArtifactSigning
    BY <2>1, <2>2, <2>4 DEF HandleArtifactSigning, AfterSigning, Keep
  <2>5. CASE HandleSBOMgeneration \/ UpdateFinalStatus
    BY <2>1, <2>2, <2>5 DEF HandleSBOMgeneration, UpdateFinalStatus, Keep
  <2> QED
    BY <2>3, <2>4, <2>5
<1>2. PICK m : /\ mem' = [mem EXCEPT ![p] = m]
               /\ m.reconciled = IF UpdateFinalStatus THEN TRUE ELSE mem[p].reconciled
  <2>1. CASE HandleArtifactInfo
    <3>1. \/ mem' = [mem EXCEPT ![p] = [[mem[p] EXCEPT !.found = Extract(p) # "NotFound"]
                                              EXCEPT !.info = Extract(p)]]
          \/ \E b : mem' = [mem EXCEPT ![p] = [mem[p] EXCEPT !.found = b]]
      BY <1>0, <2>1 DEF HandleArtifactInfo
    <3>2. /\ \A b : [mem[p] EXCEPT !.found = b].reconciled = mem[p].reconciled
          /\ \A b, ref : [[mem[p] EXCEPT !.found = b] EXCEPT !.info = ref].reconciled
                           = mem[p].reconciled
      BY <1>0 DEF PodStatus
    <3>3. ~ UpdateFinalStatus
      BY <2>1 DEF HandleArtifactInfo, UpdateFinalStatus
    <3>4. \E m : m.reconciled = mem[p].reconciled /\ mem' = [mem EXCEPT ![p] = m]
      BY <3>1, <3>2, Zenon
    <3> QED
      BY <3>3, <3>4
  <2>2. CASE HandleArtifactSigning
    <3>1. mem' = [mem EXCEPT ![p] = mem[p]]
          \/ \E b : mem' = [mem EXCEPT ![p] = [mem[p] EXCEPT !.signed = b]]
      BY <1>0, <2>2 DEF HandleArtifactSigning
    <3>2. \A b : [mem[p] EXCEPT !.signed = b].reconciled = mem[p].reconciled
      BY <1>0 DEF PodStatus
    <3>3. ~ UpdateFinalStatus
      BY <2>2 DEF HandleArtifactSigning, UpdateFinalStatus
    <3> QED
      BY <3>1, <3>2, <3>3
  <2>3. CASE HandleSBOMgeneration
    <3>1. mem' = [mem EXCEPT ![p] = mem[p]] /\ ~ UpdateFinalStatus
      BY <1>0, <2>3 DEF HandleSBOMgeneration, UpdateFinalStatus
    <3> QED
      BY <3>1
  <2>4. CASE UpdateFinalStatus
    <3>1. mem' = [mem EXCEPT ![p] = [mem[p] EXCEPT !.reconciled = TRUE]]
          /\ [mem[p] EXCEPT !.reconciled = TRUE].reconciled = TRUE
      BY <1>0, <2>4 DEF UpdateFinalStatus, PodStatus
    <3> QED
      BY <2>4, <3>1
  <2> QED
    BY <2>1, <2>2, <2>3, <2>4
<1>3. /\ \A q \in Pods : mem[q].reconciled => mem'[q].reconciled
      /\ UpdateFinalStatus => mem'[p].reconciled
  BY <1>0, <1>2
<1>4. pc' # "AnnPatch"
  BY DEF HandleArtifactInfo, HandleArtifactSigning, HandleSBOMgeneration,
     UpdateFinalStatus, AfterSigning, Set, Goto
<1> QED
  BY <1>0, <1>1, <1>3, <1>4, WakeSamePod

(* validateAllPodsReconciled finds no pod to wait for.                        *)
LEMMA WakeValidateAttest ==
  ASSUME TypeInv, WakeInv, Owed, Owed',
         ValidateAllPodsReconciled \/ HandleProvenanceAttachment
  PROVE  Underway'
<1>0. /\ \A val \in Final : Set("label", val) => Underway'
      /\ \A val : Set("provenance", val) => Underway'
      /\ Goto("Attest") \/ NextAttest => Underway'
  <2>1. /\ \A val \in Final : Set("label", val) => Underway'
        /\ \A val : Set("provenance", val) => Underway'
    BY DEF Set, Underway, OverPods
  <2>2. pc' = "Attest" => Underway'
    BY DEF Underway, OverPods
  <2> QED
    BY <2>1, <2>2 DEF Goto, NextAttest, Final
<1>1. CASE ValidateAllPodsReconciled
  <2> DEFINE bad == {n \in 1 .. Len(order) : Problem(mem[order[n]]) # "none"}
             least == CHOOSE n \in bad : \A k \in bad : n <= k
  <2>1. \A n \in 1 .. Len(order) : Problem(mem[order[n]]) # "pending"
    BY <1>1 DEF ValidateAllPodsReconciled, WakeInv, Underway, ReconciledUpTo, Problem
  <2>2. FirstProblem(mem) # "pending"
    <3>1. CASE bad = {}
      BY <3>1 DEF FirstProblem
    <3>2. CASE bad # {}
      <4>1. bad \in SUBSET Nat
        BY DEF TypeInv, MemoryOK
      <4>2. least \in bad
        BY <3>2, <4>1, LeastPosition
      <4>3. FirstProblem(mem) = Problem(mem[order[least]])
        BY <3>2 DEF FirstProblem
      <4> QED
        BY <2>1, <4>2, <4>3
    <3> QED
      BY <3>1, <3>2
  <2> QED
    BY <1>0, <1>1, <2>2 DEF ValidateAllPodsReconciled, Final
<1>2. CASE HandleProvenanceAttachment
  BY <1>0, <1>2, NoRequeue DEF HandleProvenanceAttachment, NoPodPanics, Final
<1> QED
  BY <1>1, <1>2

LEMMA WakeNext ==
  ASSUME TypeInv, WakeInv, [Next]_vars
  PROVE  WakeInv'
<1>1. faults["conflict"]' = 0
  <2>1. faults' = faults \/ \E kind \in FaultKinds : Spend(kind)
    <3>1. CASE Worker
      BY <3>1
      DEF Worker, BeginFails, BeginIgnores, BeginSecures, LabelGet, LabelPatch,
          LabelConflict, LabelFails, GetPodInfo, ReconcilePod, AnnotationGet,
          AnnotationPatch, AnnotationPatchFails, HandleArtifactInfo,
          HandleArtifactSigning, HandleSBOMgeneration, UpdateFinalStatus,
          ValidateAllPodsReconciled, HandleProvenanceAttachment, FaultKinds
    <3>2. CASE Environment \/ Informers \/ Crash \/ UNCHANGED vars
      BY <3>2
      DEF Environment, StartNode, LeaveUnknown, FinishPod, FinishNode, DeletePod,
          DeleteWorkflow, Enable, Informers, SyncWorkflow, SyncPod, Resync, Crash, vars,
          FaultKinds
    <3> QED
      BY <3>1, <3>2 DEF Next
  <2> QED
    BY <2>1 DEF Spend, WakeInv, TypeInv, StoreOK, FaultKinds
<1>2. ASSUME Owed'
      PROVE  Underway'
  <2>1. CASE BeginSecures
    BY <2>1 DEF BeginSecures, Set, Underway, OverPods
  <2>2. CASE ~ BeginSecures
    <3>1. Owed /\ ~ BeginIgnores /\ ~ Crash /\ UNCHANGED <<wfStore, queued>>
      BY <1>2, <2>2, OwedSteps
    <3>2. CASE BeginFails \/ Environment \/ Informers \/ UNCHANGED vars
      <4>1. worker' = worker
        BY <3>2 DEF BeginFails, Environment, StartNode, LeaveUnknown, FinishPod,
           FinishNode, DeletePod, DeleteWorkflow, Enable, Quiet, Informers,
           SyncWorkflow, SyncPod, Resync, vars
      <4>2. Underway
        BY <3>1 DEF WakeInv
      <4> QED
        BY <4>1, <4>2 DEF worker, Underway, OverPods, ReconciledUpTo
    <3> QED
      BY <1>2, <2>2, <3>1, <3>2, WakeLabel, WakeGetPodInfo, WakeReconcilePod,
         WakeAnnotation, WakePodHandlers, WakeValidateAttest DEF Next, Worker
  <2> QED
    BY <2>1, <2>2
<1> QED
  BY <1>1, <1>2 DEF WakeInv

(* "not all workflow pods have been reconciled" waits for an event, and that  *)
(* event comes: without conflicts, no finished, enabled workflow is left      *)
(* without a final label when the controller goes to sleep, however late the  *)
(* caches are and whatever fails, crashes or is deleted.                      *)
THEOREM SleepsDecided ==
  ASSUME NoConflicts
  PROVE  Spec => []QuiescentIsDecided
<1>1. Init => WakeInv
  BY DEF Init, NoConflicts, WakeInv, Owed
<1>2. TypeInv /\ WakeInv /\ [Next]_vars => WakeInv'
  BY WakeNext
<1>3. WakeInv => QuiescentIsDecided
  BY DEF WakeInv, Underway, Owed, QuiescentIsDecided, Quiescent
<1> QED
  BY <1>1, <1>2, <1>3, TypeInvariant, PTL DEF Spec
------------------------------------------------------------------------------
(* What the annotations of the pods record.                                   *)

(* What the worker may read of a pod, and what it remembers of it.            *)
Copies(p) == Versions(podStore[p]) \cup {mem[p].pod}
Unborn(p) == Stored(podStore[p]).phase = "None"

(* The Argo controller makes a pod together with the node's Running phase,    *)
(* never a second time, and nobody has seen a pod before.                     *)
PodsAfterNodes ==
  \A p \in Pods :
    Stored(wfStore).nodes[p] \in {"Absent", "Unknown"} => Unborn(p)
UnbornIsUnseen == \A p \in Pods : Unborn(p) => \A c \in Copies(p) : c = NoPod

(* An annotation that any copy shows is never taken off the stored pod.       *)
Kept(p, k) == Stored(podStore[p]).live => Stored(podStore[p]).ann[k] # "none"
NothingLost ==
  \A p \in Pods : \A k \in AnnKeys :
    (\E c \in Copies(p) : c.ann[k] # "none") => Kept(p, k)
PatchesSet == pc \in {"AnnGet", "AnnPatch"} => patch.val # "none"

KeepInv == PodsAfterNodes /\ UnbornIsUnseen /\ NothingLost /\ PatchesSet

(* The worker handles the artifact of a pod only after it has read the pod.   *)
InPod == {"AnnGet", "AnnPatch", "Artifacts", "Signing", "Sbom", "Final"}
ReadInv ==
  /\ \A p \in Pods : mem[p].found => mem[p].pod.live
  /\ pc \in InPod => mem[order[i]].pod.live

(* The artifacts annotation of a pod has one value it may ever take.          *)
OneReference ==
  /\ \A p \in Pods : \A c \in Copies(p) : c.ann["artifacts"] \in {"none", Extract(p)}
  /\ pc \in {"AnnGet", "AnnPatch"} /\ patch.key = "artifacts"
       => patch.val = Extract(order[i])

(* The reference in memory is recorded, unless the worker is about to.        *)
Recorded(p) ==
  Stored(podStore[p]).live => Stored(podStore[p]).ann["artifacts"] = "Ref"
Recording(p) ==
  pc \in {"AnnGet", "AnnPatch"} /\ patch.key = "artifacts" /\ order[i] = p
MemoryRecorded ==
  \A p \in Pods : mem[p].info = "Ref"
    => p \in WithArtifact /\ ~ Unborn(p) /\ (Recorded(p) \/ Recording(p))

(* What is published has been born and recorded.                              *)
PublishedInv == \A p \in published : Recorded(p) /\ ~ Unborn(p)

RecordInv == OneReference /\ MemoryRecorded /\ PublishedInv

(* An attestation is there before any copy of the pod says so.                *)
Attested(p) == \E a \in attestations : a[1] = p /\ p \in a[2]
AttestedInv ==
  /\ \A p \in Pods : \A c \in Versions(podStore[p]) :
       c.ann["provenance"] = "Attached" => Attested(p)
  /\ pc \in {"AnnGet", "AnnPatch"} /\ patch = [key |-> "provenance", val |-> "Attached"]
       => Attested(order[i])

(* The places of AttestArtifacts, and the pods it is through with.            *)
Attesting ==
  \/ pc = "Attest"
  \/ pc \in {"AnnGet", "AnnPatch"} /\ patch.key = "provenance"
Completing == pc \in {"LabelGet", "LabelPatch"} /\ patch.val = "Completed"
Passed(n) == mem[order[n]].pod.live /\ Kept(order[n], "provenance")
CoverInv ==
  /\ pc = "Validate" => i = 1
  /\ Attesting \/ Completing
       => \A n \in 1 .. Len(order) : Problem(mem[order[n]]) = "none"
  /\ Attesting => \A n \in 1 .. i - 1 : Passed(n)
  /\ Completing => \A n \in 1 .. Len(order) : Passed(n)
------------------------------------------------------------------------------
(* What one step of the whole system does to one pod: nothing but deliver     *)
(* versions, or write one, which is a new pod, the kubelet's, a deletion or   *)
(* the pending patch.                                                         *)
NewVersion(p) == Stored(podStore[p])'
PodCreated(p) == /\ NodeIs(p, "Absent") \/ NodeIs(p, "Unknown")
                 /\ Stored(wfStore').nodes[p] = "Running"
                 /\ NewVersion(p) = NewPod
PodFinished(p) ==
  LET c == Stored(podStore[p]) IN
  /\ c.live /\ c.phase = "Running" /\ wfStore' = wfStore
  /\ \E phase \in {"Succeeded", "Failed"} : NewVersion(p) = [c EXCEPT !.phase = phase]
PodDeleted(p) ==
  /\ Stored(podStore[p]).live /\ Spend("gone") /\ wfStore' = wfStore
  /\ NewVersion(p) = [Stored(podStore[p]) EXCEPT !.live = FALSE]
PodPatched(p) ==
  /\ AnnotationPatch \/ AnnotationPatchFails
  /\ pc = "AnnPatch" /\ order[i] = p /\ Stored(podStore[p]).live
  /\ NewVersion(p) = AnnotationPatched(p)

PodStep(p) ==
  /\ Versions(podStore'[p]) \subseteq Versions(podStore[p]) \cup {NewVersion(p)}
  /\ \/ NewVersion(p) = Stored(podStore[p])
     \/ PodCreated(p) \/ PodFinished(p) \/ PodDeleted(p) \/ PodPatched(p)

(* A write to one pod, as its history and the others see it.                  *)
LEMMA OneWrite ==
  ASSUME TypeInv, NEW p \in Pods, NEW c \in Pod, WritePod(p, c)
  PROVE  /\ Versions(podStore'[p]) \subseteq Versions(podStore[p]) \cup {c}
         /\ NewVersion(p) = c
         /\ \A q \in Pods \ {p} : podStore'[q] = podStore[q]
<1>1. podStore[p] \in Histories(Pod) /\ podStore \in [Pods -> Histories(Pod)]
  BY DEF TypeInv, StoreOK
<1>2. podStore'[p] = Write(podStore[p], c) /\ \A q \in Pods \ {p} : podStore'[q] = podStore[q]
  BY <1>1 DEF WritePod
<1>3. Versions(Write(podStore[p], c)) = Versions(podStore[p]) \cup {c}
      /\ Stored(Write(podStore[p], c)) = c
  BY <1>1, WriteAddsVersion
<1>4. NewVersion(p) = Stored(podStore'[p])
  BY DEF NewVersion, Stored
<1> QED BY <1>2, <1>3, <1>4

(* The environment, the informers and the worker make these steps and no      *)
(* others.                                                                    *)
LEMMA PodSteps ==
  ASSUME TypeInv, [Next]_vars, NEW p \in Pods
  PROVE  PodStep(p)
<1>0. NewVersion(p) = Stored(podStore'[p])
  BY DEF NewVersion, Stored
<1>1. CASE podStore' = podStore
  BY <1>0, <1>1 DEF PodStep
<1>2. ASSUME NEW q \in Pods, NEW c \in Pod, WritePod(q, c),
             q = p => \/ c = Stored(podStore[p])
                      \/ NewVersion(p) = c =>
                           PodCreated(p) \/ PodFinished(p) \/ PodDeleted(p) \/ PodPatched(p)
      PROVE  PodStep(p)
  <2>1. /\ Versions(podStore'[q]) \subseteq Versions(podStore[q]) \cup {c}
        /\ NewVersion(q) = c
        /\ \A r \in Pods \ {q} : podStore'[r] = podStore[r]
    BY <1>2, OneWrite
  <2>2. CASE q = p
    BY <1>2, <2>1, <2>2 DEF PodStep
  <2>3. CASE q # p
    BY <1>0, <2>1, <2>3 DEF PodStep
  <2> QED BY <2>2, <2>3
<1>3. CASE Worker
  <2>1. \/ podStore' = podStore
        \/ /\ AnnotationPatch \/ AnnotationPatchFails
           /\ pc = "AnnPatch" /\ Stored(podStore[order[i]]).live
           /\ WritePod(order[i], AnnotationPatched(order[i]))
    BY <1>3 DEF Worker, BeginFails, BeginIgnores, BeginSecures, LabelGet, LabelPatch,
       LabelConflict, LabelFails, GetPodInfo, ReconcilePod, AnnotationGet,
       AnnotationPatch, AnnotationPatchFails, HandleArtifactInfo,
       HandleArtifactSigning, HandleSBOMgeneration, UpdateFinalStatus,
       ValidateAllPodsReconciled, HandleProvenanceAttachment, stores
  <2>2. CASE /\ AnnotationPatch \/ AnnotationPatchFails
             /\ pc = "AnnPatch" /\ Stored(podStore[order[i]]).live
             /\ WritePod(order[i], AnnotationPatched(order[i]))
    <3>1. order[i] \in Pods /\ patch.key \in AnnKeys /\ patch.val \in AnnValues
      BY <2>2, LoopPod DEF InLoop, Labels, TypeInv, ControlOK, Patch
    <3>2. AnnotationPatched(order[i]) \in Pod
      BY <3>1, ReadsOK, OperatorTypes DEF AnnotationPatched
    <3> QED BY <1>2, <2>2, <3>1, <3>2 DEF PodPatched
  <2> QED BY <1>1, <2>1, <2>2
<1>4. CASE Environment
  <2>1. ASSUME NEW q \in Pods
        PROVE  LET c == Stored(podStore[q]) IN
               /\ NewPod \in Pod /\ c \in Pod
               /\ [c EXCEPT !.phase = "Succeeded"] \in Pod
               /\ [c EXCEPT !.phase = "Failed"] \in Pod
               /\ [c EXCEPT !.live = FALSE] \in Pod
    BY InitialObjects, ReadsOK DEF Pod
  <2>2. ASSUME NEW q \in Pods, StartNode(q) \/ LeaveUnknown(q)
        PROVE  PodStep(p)
    <3>1. CASE SetNode(q, "Running") /\ WritePod(q, NewPod)
      <4>1. Stored(wfStore').nodes[q] = "Running"
        <5>1. Stored(wfStore) \in Workflow
          BY ReadsOK
        <5>2. [Stored(wfStore) EXCEPT !.nodes[q] = "Running"] \in Workflow
          BY <5>1 DEF Workflow, NodePhases
        <5>3. wfStore \in Histories(Workflow)
          BY DEF TypeInv, StoreOK
        <5>4. Stored(wfStore') = [Stored(wfStore) EXCEPT !.nodes[q] = "Running"]
          BY <3>1, <5>2, <5>3, WriteAddsVersion DEF SetNode, WriteWf
        <5> QED BY <5>1, <5>4 DEF Workflow
      <4> QED BY <1>2, <2>1, <2>2, <3>1, <4>1
              DEF StartNode, LeaveUnknown, PodCreated
    <3>2. CASE podStore' = podStore
      BY <1>1, <3>2
    <3> QED BY <2>2, <3>1, <3>2 DEF StartNode, LeaveUnknown
  <2>3. ASSUME NEW q \in Pods, FinishPod(q)
        PROVE  PodStep(p)
    <3>1. PICK phase \in {"Succeeded", "Failed"} :
            WritePod(q, [Stored(podStore[q]) EXCEPT !.phase = phase])
      BY <2>3 DEF FinishPod
    <3> QED BY <1>2, <2>1, <2>3, <3>1 DEF FinishPod, PodFinished
  <2>4. ASSUME NEW q \in Pods, DeletePod(q)
        PROVE  PodStep(p)
    BY <1>2, <2>1, <2>4 DEF DeletePod, PodDeleted
  <2> QED BY <1>1, <1>4, <2>2, <2>3, <2>4
          DEF Environment, FinishNode, DeleteWorkflow, Enable
<1>5. CASE Informers \/ Crash
  <2>1. podStore[p] \in Histories(Pod) /\ podStore \in [Pods -> Histories(Pod)]
    BY DEF TypeInv, StoreOK
  <2>2. \/ podStore'[p] = podStore[p]
        \/ ~ Synced(podStore[p]) /\ podStore'[p] = Deliver(podStore[p])
        \/ podStore'[p] = Relist(podStore[p])
    BY <1>5, <2>1 DEF Informers, SyncWorkflow, SyncPod, Resync, Crash, stores
  <2> QED BY <1>0, <2>1, <2>2, DeliveryKeepsVersions DEF PodStep
<1>6. CASE UNCHANGED vars
  BY <1>1, <1>6 DEF vars, stores
<1> QED BY <1>3, <1>4, <1>5, <1>6 DEF Next

(* What one step does to the Workflow: a node goes forward, as its pod does,  *)
(* and the status changes by the pending label patch only.                    *)
NodeStep(p) ==
  LET old == Stored(wfStore).nodes[p]
      new == Stored(wfStore').nodes[p]
      c == Stored(podStore[p])
  IN
  \/ new = old
  \/ old \in {"Absent", "Unknown"} /\ new = "Running" /\ NewVersion(p) = NewPod
  \/ old = "Absent" /\ new \in OddPhases
  \/ old = "Absent" /\ new = "Error" /\ Spend("gone")
  \/ old = "Running" /\ c.live /\ c.phase = "Succeeded" /\ new = "Succeeded"
  \/ old = "Running" /\ c.live /\ c.phase = "Failed" /\ new \in {"Failed", "Error"}
  \/ old = "Running" /\ ~ c.live /\ new = "Error"
WorkflowStep ==
  /\ \A p \in Pods : NodeStep(p)
  /\ \/ Stored(wfStore').status = Stored(wfStore).status
     \/ /\ LabelPatch \/ LabelFails
        /\ pc = "LabelPatch" /\ Stored(wfStore').status = patch.val

LEMMA WorkflowSteps ==
  ASSUME TypeInv, [Next]_vars
  PROVE  WorkflowStep
<1> DEFINE w == Stored(wfStore)
<1>0. wfStore \in Histories(Workflow) /\ w \in Workflow
  BY ReadsOK DEF TypeInv, StoreOK
<1>1. ASSUME Stored(wfStore') = w
      PROVE  WorkflowStep
  BY <1>1 DEF WorkflowStep, NodeStep
<1>2. CASE wfStore' = wfStore
  BY <1>1, <1>2
<1>3. \A v \in Workflow : WriteWf(v) => Stored(wfStore') = v
  BY <1>0, WriteAddsVersion DEF WriteWf
<1>4. CASE Worker
  <2>1. \/ wfStore' = wfStore
        \/ (LabelPatch \/ LabelFails) /\ pc = "LabelPatch" /\ WriteWf(LabelPatched)
    BY <1>4 DEF Worker, BeginFails, BeginIgnores, BeginSecures, LabelGet, LabelPatch,
       LabelConflict, LabelFails, GetPodInfo, ReconcilePod, AnnotationGet,
       AnnotationPatch, AnnotationPatchFails, HandleArtifactInfo,
       HandleArtifactSigning, HandleSBOMgeneration, UpdateFinalStatus,
       ValidateAllPodsReconciled, HandleProvenanceAttachment, stores
  <2>2. CASE (LabelPatch \/ LabelFails) /\ pc = "LabelPatch" /\ WriteWf(LabelPatched)
    <3>1. /\ LabelPatched \in Workflow
          /\ LabelPatched.status = patch.val /\ LabelPatched.nodes = w.nodes
      BY <1>0, <2>2 DEF LabelPatched, Workflow, TypeInv, ControlOK
    <3> QED BY <1>3, <2>2, <3>1 DEF WorkflowStep, NodeStep
  <2> QED BY <1>2, <2>1, <2>2
<1>5. CASE Environment
  <2>1. ASSUME NEW q \in Pods, NEW phase \in NodePhases, SetNode(q, phase),
               \/ /\ w.nodes[q] \in {"Absent", "Unknown"} /\ phase = "Running"
                  /\ NewVersion(q) = NewPod
               \/ w.nodes[q] = "Absent" /\ phase \in OddPhases
               \/ w.nodes[q] = "Absent" /\ phase = "Error" /\ Spend("gone")
               \/ /\ w.nodes[q] = "Running"
                  /\ LET c == Stored(podStore[q]) IN
                     \/ c.live /\ c.phase = "Succeeded" /\ phase = "Succeeded"
                     \/ c.live /\ c.phase = "Failed" /\ phase \in {"Failed", "Error"}
                     \/ ~ c.live /\ phase = "Error"
        PROVE  WorkflowStep
    <3> DEFINE v == [w EXCEPT !.nodes[q] = phase]
    <3>1. v \in Workflow /\ v.status = w.status
      BY <1>0 DEF Workflow
    <3>2. v.nodes[q] = phase /\ \A p \in Pods \ {q} : v.nodes[p] = w.nodes[p]
      BY <1>0 DEF Workflow
    <3>3. Stored(wfStore') = v
      BY <1>3, <2>1, <3>1 DEF SetNode
    <3>4. NodeStep(q)
      BY <2>1, <3>2, <3>3 DEF NodeStep
    <3>5. \A p \in Pods \ {q} : NodeStep(p)
      BY <3>2, <3>3 DEF NodeStep
    <3> QED BY <3>1, <3>3, <3>4, <3>5 DEF WorkflowStep
  <2>2. OddPhases \subseteq NodePhases
        /\ {"Running", "Succeeded", "Failed", "Error"} \subseteq NodePhases
    BY ReconcilerAssumption DEF NodePhases
  <2>0. \A q \in Pods : WritePod(q, NewPod) => NewVersion(q) = NewPod
    BY OneWrite, InitialObjects
  <2>3. ASSUME NEW q \in Pods, StartNode(q)
        PROVE  WorkflowStep
    BY <2>0, <2>1, <2>2, <2>3 DEF StartNode, NodeIs
  <2>4. ASSUME NEW q \in Pods, LeaveUnknown(q)
        PROVE  WorkflowStep
    BY <2>0, <2>1, <2>2, <2>4 DEF LeaveUnknown, NodeIs
  <2>5. ASSUME NEW q \in Pods, FinishNode(q)
        PROVE  WorkflowStep
    BY <2>1, <2>2, <2>5 DEF FinishNode, NodeIs
  <2>6. ASSUME NEW q \in Pods, FinishPod(q) \/ DeletePod(q)
        PROVE  WorkflowStep
    BY <1>2, <2>6 DEF FinishPod, DeletePod
  <2>7. CASE DeleteWorkflow \/ Enable
    <3>1. \A v \in {[w EXCEPT !.live = FALSE], [w EXCEPT !.enabled = TRUE]} :
            v \in Workflow /\ v.status = w.status /\ v.nodes = w.nodes
      BY <1>0 DEF Workflow
    <3>2. \E v \in {[w EXCEPT !.live = FALSE], [w EXCEPT !.enabled = TRUE]} : WriteWf(v)
      BY <2>7 DEF DeleteWorkflow, Enable
    <3> QED BY <1>3, <3>1, <3>2 DEF WorkflowStep, NodeStep
  <2> QED BY <1>5, <2>3, <2>4, <2>5, <2>6, <2>7 DEF Environment
<1>6. CASE Informers \/ Crash
  <2>1. \/ wfStore' = wfStore
        \/ ~ Synced(wfStore) /\ wfStore' = Deliver(wfStore)
        \/ wfStore' = Relist(wfStore)
    BY <1>6 DEF Informers, SyncWorkflow, SyncPod, Resync, Crash, stores
  <2> QED BY <1>0, <1>1, <2>1, DeliveryKeepsVersions
<1>7. CASE UNCHANGED vars
  BY <1>2, <1>7 DEF vars, stores
<1> QED BY <1>4, <1>5, <1>6, <1>7 DEF Next

(* The worker remembers only what it has read or written.                     *)
MemoryStep(p) ==
  \/ mem'[p].pod \in {mem[p].pod, NoPod}
  \/ mem'[p].pod = NewVersion(p) /\ AnnotationPatch /\ p = order[i]
  \/ mem'[p].pod = Cached(podStore[p]) /\ Readable(podStore[p])

LEMMA MemorySteps ==
  ASSUME TypeInv, [Next]_vars, NEW p \in Pods
  PROVE  MemoryStep(p)
<1> DEFINE q == order[i]
           c == Cached(podStore[q])
<1>0. mem \in [Pods -> PodStatus]
  BY DEF TypeInv, MemoryOK
<1>1. CASE mem' = mem \/ worker' = worker \/ Reset
  BY <1>1 DEF worker, Reset, NewStatus, MemoryStep
<1>2. CASE ReconcilePod
  <2>1. q \in Pods /\ mem[q] \in PodStatus
    BY <1>2, LoopPod DEF ReconcilePod, InLoop, Labels
  <2>2. Load(mem[q], c).pod = c /\ [Load(mem[q], c) EXCEPT !.reconciled = TRUE].pod = c
    BY DEF Load
  <2>3. [mem[q] EXCEPT !.reconciled = TRUE].pod = mem[q].pod
    BY <2>1 DEF PodStatus
  <2>4. \/ mem' = mem \/ Reset
        \/ mem' = [mem EXCEPT ![q].reconciled = TRUE]
        \/ /\ Readable(podStore[q])
           /\ \/ mem' = [mem EXCEPT ![q] = Load(mem[q], c)]
              \/ mem' = [mem EXCEPT ![q] = [Load(mem[q], c) EXCEPT !.reconciled = TRUE]]
    BY <1>2 DEF ReconcilePod, PodMissing, End
  <2>5. CASE mem' = [mem EXCEPT ![q].reconciled = TRUE]
    BY <1>0, <2>1, <2>3, <2>5 DEF MemoryStep
  <2>6. CASE /\ Readable(podStore[q])
             /\ \/ mem' = [mem EXCEPT ![q] = Load(mem[q], c)]
                \/ mem' = [mem EXCEPT ![q] = [Load(mem[q], c) EXCEPT !.reconciled = TRUE]]
    BY <1>0, <2>1, <2>2, <2>6 DEF MemoryStep
  <2> QED BY <1>1, <2>4, <2>5, <2>6
<1>3. CASE AnnotationGet \/ AnnotationPatch \/ AnnotationPatchFails
  <2>1. q \in Pods /\ mem[q] \in PodStatus
    BY <1>3, LoopPod DEF AnnotationGet, AnnotationPatch, AnnotationPatchFails, InLoop,
                         Labels
  <2>2. CASE AnnotationPatch
    <3>1. NewVersion(q) = AnnotationPatched(q)
      <4>1. patch.key \in AnnKeys /\ patch.val \in AnnValues
        BY <2>2 DEF AnnotationPatch, TypeInv, ControlOK, Patch
      <4>2. AnnotationPatched(q) \in Pod
        BY <2>1, <4>1, ReadsOK, OperatorTypes DEF AnnotationPatched
      <4> QED BY <2>1, <2>2, <4>2, OneWrite DEF AnnotationPatch
    <3>2. mem' = [mem EXCEPT ![q] = [mem[q] EXCEPT !.pod = AnnotationPatched(q)]]
      BY <2>2 DEF AnnotationPatch
    <3>3. [mem[q] EXCEPT !.pod = AnnotationPatched(q)].pod = AnnotationPatched(q)
      BY <2>1 DEF PodStatus
    <3> QED BY <1>0, <2>1, <2>2, <3>1, <3>2, <3>3 DEF MemoryStep
  <2>3. CASE mem' = [mem EXCEPT ![q].pod = c] /\ Readable(podStore[q])
    <3>1. [mem[q] EXCEPT !.pod = c].pod = c
      BY <2>1 DEF PodStatus
    <3> QED BY <1>0, <2>1, <2>3, <3>1 DEF MemoryStep
  <2>4. CASE AnnotationFails
    BY <1>1, <2>4 DEF AnnotationFails, End
  <2> QED BY <1>3, <2>2, <2>3, <2>4 DEF AnnotationGet, AnnotationPatchFails
<1>4. CASE HandleArtifactInfo \/ HandleArtifactSigning \/ UpdateFinalStatus
  <2>1. q \in Pods /\ mem[q] \in PodStatus
    BY <1>4, LoopPod DEF HandleArtifactInfo, HandleArtifactSigning, UpdateFinalStatus,
                         InLoop, Labels
  <2>2. ASSUME NEW m, m.pod = mem[q].pod, mem' = [mem EXCEPT ![q] = m]
        PROVE  MemoryStep(p)
    BY <1>0, <2>1, <2>2 DEF MemoryStep
  <2>3. CASE HandleArtifactInfo
    <3>1. \/ mem' = [mem EXCEPT ![q] = [[mem[q] EXCEPT !.found = Extract(q) # "NotFound"]
                                              EXCEPT !.info = Extract(q)]]
          \/ \E b : mem' = [mem EXCEPT ![q] = [mem[q] EXCEPT !.found = b]]
      BY <1>0, <2>1, <2>3 DEF HandleArtifactInfo
    <3>2. /\ \A b : [mem[q] EXCEPT !.found = b].pod = mem[q].pod
          /\ \A b, ref : [[mem[q] EXCEPT !.found = b] EXCEPT !.info = ref].pod = mem[q].pod
      BY <2>1 DEF PodStatus
    <3>3. \E m : m.pod = mem[q].pod /\ mem' = [mem EXCEPT ![q] = m]
      BY <3>1, <3>2, Zenon
    <3> QED BY <2>2, <3>3
  <2>4. CASE HandleArtifactSigning
    <3>1. mem' = mem \/ \E b : mem' = [mem EXCEPT ![q] = [mem[q] EXCEPT !.signed = b]]
      BY <2>4 DEF HandleArtifactSigning
    <3>2. \A b : [mem[q] EXCEPT !.signed = b].pod = mem[q].pod
      BY <2>1 DEF PodStatus
    <3> QED BY <1>1, <2>2, <3>1, <3>2
  <2>5. CASE UpdateFinalStatus
    BY <2>1, <2>2, <2>5 DEF UpdateFinalStatus, PodStatus
  <2> QED BY <1>4, <2>3, <2>4, <2>5
<1>5. CASE BeginFails \/ BeginIgnores \/ BeginSecures \/ LabelGet \/ LabelPatch
             \/ LabelConflict \/ LabelFails \/ GetPodInfo \/ HandleSBOMgeneration
             \/ ValidateAllPodsReconciled \/ HandleProvenanceAttachment
  <2>1. mem' = mem \/ Reset \/ mem' = [r \in Pods |-> NewStatus]
    BY <1>5 DEF BeginFails, BeginIgnores, BeginSecures, LabelGet, LabelPatch,
       LabelConflict, LabelFails, GetPodInfo, HandleSBOMgeneration, AfterLabel, End,
       ValidateAllPodsReconciled, HandleProvenanceAttachment, NoPodPanics, worker
  <2> QED BY <1>1, <2>1 DEF NewStatus, MemoryStep
<1>6. CASE Environment \/ Informers \/ Crash \/ UNCHANGED vars
  <2>1. worker' = worker \/ Reset
    BY <1>6 DEF Environment, StartNode, LeaveUnknown, FinishPod, FinishNode, DeletePod,
       DeleteWorkflow, Enable, Quiet, Informers, SyncWorkflow, SyncPod, Resync, Crash,
       vars
  <2> QED BY <1>1, <2>1
<1> QED BY <1>2, <1>3, <1>4, <1>5, <1>6 DEF Next, Worker
------------------------------------------------------------------------------
(* Annotations are kept.                                                      *)
LEMMA StoredIsCopy ==
  ASSUME TypeInv, NEW p \in Pods
  PROVE  /\ Stored(podStore[p]) \in Copies(p) /\ Cached(podStore[p]) \in Copies(p)
         /\ Stored(podStore[p]) \in Pod /\ Copies(p) \subseteq Pod
<1>1. podStore[p] \in Histories(Pod) /\ mem[p].pod \in Pod
  BY DEF TypeInv, StoreOK, MemoryOK, PodStatus
<1> QED BY <1>1, ReadIsVersion DEF Copies

(* A step brings no copy but those there were, and the version it writes.     *)
LEMMA CopiesStep ==
  ASSUME TypeInv, [Next]_vars, NEW p \in Pods
  PROVE  /\ \A c \in Copies(p)' : c \in Copies(p) \cup {NoPod, NewVersion(p)}
         /\ NewVersion(p) = Stored(podStore'[p])
<1>1. mem'[p].pod \in Copies(p) \cup {NoPod, NewVersion(p)}
  BY MemorySteps, StoredIsCopy DEF MemoryStep, Copies
<1> QED BY <1>1, PodSteps DEF PodStep, Copies, Versions, NewVersion, Stored

(* Only a patch changes the annotations of a stored pod that is there.        *)
LEMMA PatchedAnnotations ==
  ASSUME TypeInv, NEW p \in Pods, PodPatched(p)
  PROVE  /\ patch.key \in AnnKeys /\ patch.val \in AnnValues
         /\ NewVersion(p) = [Stored(podStore[p]) EXCEPT !.ann =
                               [Stored(podStore[p]).ann EXCEPT ![patch.key] = patch.val]]
         /\ NewVersion(p).live /\ NewVersion(p).phase = Stored(podStore[p]).phase
         /\ NewVersion(p).ann[patch.key] = patch.val
         /\ \A k \in AnnKeys \ {patch.key} :
              NewVersion(p).ann[k] = Stored(podStore[p]).ann[k]
<1>1. patch.key \in AnnKeys /\ patch.val \in AnnValues
  BY DEF PodPatched, TypeInv, ControlOK, Patch
<1>2. NewVersion(p) = [Stored(podStore[p]) EXCEPT !.ann =
                         [Stored(podStore[p]).ann EXCEPT ![patch.key] = patch.val]]
  BY DEF PodPatched, AnnotationPatched, Annotate
<1>3. Stored(podStore[p]) \in Pod /\ Stored(podStore[p]).live
  BY StoredIsCopy DEF PodPatched
<1> QED BY <1>1, <1>2, <1>3 DEF Pod

LEMMA OtherStepsKeepAnnotations ==
  ASSUME TypeInv, NEW p \in Pods, PodFinished(p) \/ PodDeleted(p)
  PROVE  /\ NewVersion(p).ann = Stored(podStore[p]).ann
         /\ Stored(podStore[p]).live
         /\ NewVersion(p).phase = "None" => Unborn(p)
         /\ PodDeleted(p) => ~ NewVersion(p).live
         /\ NewVersion(p).live => PodFinished(p)
BY StoredIsCopy DEF PodFinished, PodDeleted, Unborn, Pod

LEMMA PatchesSetStep ==
  ASSUME TypeInv, PatchesSet, [Next]_vars
  PROVE  PatchesSet'
<1>1. CASE worker' = worker \/ Reset
  BY <1>1 DEF worker, Reset, PatchesSet
<1>2. ASSUME NEW key, NEW val, Set(key, val), val # "none"
      PROVE  PatchesSet'
  BY <1>2 DEF Set, PatchesSet
<1>3. CASE patch' = patch /\ (pc' \in {"AnnGet", "AnnPatch"} => pc \in {"AnnGet", "AnnPatch"})
  BY <1>3 DEF PatchesSet
<1>4. CASE BeginFails \/ BeginIgnores \/ BeginSecures
  BY <1>1, <1>2, <1>4 DEF BeginFails, BeginIgnores, BeginSecures
<1>5. CASE LabelGet \/ LabelPatch \/ LabelConflict \/ LabelFails \/ GetPodInfo
  BY <1>1, <1>3, <1>5 DEF LabelGet, LabelPatch, LabelConflict, LabelFails, GetPodInfo,
     AfterLabel, Goto, End
<1>6. CASE NextPod \/ NextAttest
  BY <1>2, <1>3, <1>6 DEF NextPod, NextAttest
<1>7. CASE ReconcilePod
  BY <1>1, <1>2, <1>3, <1>6, <1>7 DEF ReconcilePod, PodMissing, End
<1>8. CASE AfterAnnotation /\ pc \in {"AnnGet", "AnnPatch"}
  BY <1>3, <1>6, <1>8 DEF AfterAnnotation, Goto
<1>9. CASE AnnotationFails /\ pc \in {"AnnGet", "AnnPatch"}
  BY <1>1, <1>2, <1>3, <1>9 DEF AnnotationFails, Goto, End
<1>10. CASE AnnotationGet \/ AnnotationPatch \/ AnnotationPatchFails
  BY <1>3, <1>8, <1>9, <1>10 DEF AnnotationGet, AnnotationPatch, AnnotationPatchFails, Goto
<1>11. CASE HandleArtifactInfo
  BY <1>2, <1>3, <1>11 DEF HandleArtifactInfo, Extract, Goto
<1>12. CASE HandleArtifactSigning
  BY <1>2, <1>3, <1>12 DEF HandleArtifactSigning, AfterSigning, Goto
<1>13. CASE HandleSBOMgeneration \/ UpdateFinalStatus
  BY <1>2, <1>3, <1>13 DEF HandleSBOMgeneration, UpdateFinalStatus, FinalStatus, Goto
<1>14. CASE ValidateAllPodsReconciled
  BY <1>1, <1>2, <1>3, <1>14 DEF ValidateAllPodsReconciled, Goto, End
<1>15. CASE HandleProvenanceAttachment
  BY <1>1, <1>2, <1>6, <1>15
     DEF HandleProvenanceAttachment, NoPodPanics, ProvenanceState, End
<1>16. CASE Environment \/ Informers \/ Crash \/ UNCHANGED vars
  BY <1>1, <1>16 DEF Environment, StartNode, LeaveUnknown, FinishPod, FinishNode,
     DeletePod, DeleteWorkflow, Enable, Quiet, Informers, SyncWorkflow, SyncPod, Resync,
     Crash, vars
<1> QED BY <1>4, <1>5, <1>7, <1>10, <1>11, <1>12, <1>13, <1>14, <1>15, <1>16
        DEF Next, Worker

LEMMA InitCopies ==
  Init => \A p \in Pods : Copies(p) = {NoPod} /\ Stored(podStore[p]) = NoPod
BY DEF Init, Copies, Versions, Stored, NewStatus

LEMMA KeepInit == Init => KeepInv
<1> SUFFICES ASSUME Init PROVE KeepInv
  OBVIOUS
<1>1. \A p \in Pods : Copies(p) = {NoPod} /\ Stored(podStore[p]) = NoPod
  BY InitCopies
<1>2. NoPod.phase = "None" /\ \A k \in AnnKeys : NoPod.ann[k] = "none"
  BY DEF NoPod
<1> QED BY <1>1, <1>2 DEF Init, KeepInv, PodsAfterNodes, UnbornIsUnseen, NothingLost,
                          PatchesSet, Unborn

LEMMA KeepNext == TypeInv /\ KeepInv /\ [Next]_vars => KeepInv'
<1> SUFFICES ASSUME TypeInv, KeepInv, [Next]_vars PROVE KeepInv'
  OBVIOUS
<1>0. /\ ~ NoPod.live /\ NoPod.phase = "None" /\ NewPod.phase = "Running"
      /\ \A k \in AnnKeys : NoPod.ann[k] = "none"
  BY DEF NoPod, NewPod
<1>1. ASSUME NEW p \in Pods, Unborn(p)
      PROVE  /\ Stored(podStore[p]) = NoPod
             /\ NewVersion(p) = NoPod \/ PodCreated(p)
  <2>1. Stored(podStore[p]) = NoPod
    BY <1>1, StoredIsCopy DEF KeepInv, UnbornIsUnseen
  <2> QED BY <1>0, <2>1, PodSteps DEF PodStep, PodFinished, PodDeleted, PodPatched
<1>2. ASSUME NEW p \in Pods
      PROVE  PodStep(p) /\ NewVersion(p) = Stored(podStore'[p])
             /\ (Unborn(p)' <=> NewVersion(p).phase = "None")
  BY PodSteps, CopiesStep DEF Unborn, NewVersion
<1>3. PodsAfterNodes'
  <2> SUFFICES ASSUME NEW p \in Pods, Stored(wfStore').nodes[p] \in {"Absent", "Unknown"}
               PROVE  Unborn(p)'
    BY DEF PodsAfterNodes, Stored
  <2>1. Stored(wfStore).nodes[p] \in {"Absent", "Unknown"}
    BY WorkflowSteps, ReconcilerAssumption DEF WorkflowStep, NodeStep
  <2>2. Unborn(p) /\ ~ PodCreated(p)
    BY <2>1 DEF KeepInv, PodsAfterNodes, PodCreated
  <2> QED BY <1>0, <1>1, <1>2, <2>2
<1>4. UnbornIsUnseen'
  <2> SUFFICES ASSUME NEW p \in Pods, Unborn(p)', NEW c \in Copies(p)'
               PROVE  c = NoPod
    BY DEF UnbornIsUnseen
  <2>1. NewVersion(p).phase = "None"
    BY <1>2
  <2>2. Unborn(p)
    BY <1>0, <1>2, <2>1, OtherStepsKeepAnnotations, PatchedAnnotations
       DEF PodStep, PodCreated, Unborn
  <2>3. NewVersion(p) = NoPod
    BY <1>0, <1>1, <2>1, <2>2 DEF PodCreated
  <2> QED BY <2>2, <2>3, CopiesStep DEF KeepInv, UnbornIsUnseen
<1>5. NothingLost'
  <2> SUFFICES ASSUME NEW p \in Pods, NEW k \in AnnKeys, NEW c \in Copies(p)',
                      c.ann[k] # "none", NewVersion(p).live
               PROVE  NewVersion(p).ann[k] # "none"
    BY <1>2 DEF NothingLost, Kept, NewVersion
  <2>1. CASE c = NewVersion(p)
    BY <2>1
  <2>2. CASE c \in Copies(p)
    <3>1. Kept(p, k) /\ ~ Unborn(p)
      BY <1>0, <2>2 DEF KeepInv, NothingLost, UnbornIsUnseen
    <3>2. ~ PodCreated(p)
      BY <3>1 DEF KeepInv, PodsAfterNodes, PodCreated, NodeIs
    <3>3. CASE NewVersion(p) = Stored(podStore[p])
      BY <3>1, <3>3 DEF Kept
    <3>4. CASE PodFinished(p) \/ PodDeleted(p)
      BY <3>1, <3>4, OtherStepsKeepAnnotations DEF Kept
    <3>5. CASE PodPatched(p)
      <4>1. patch.val # "none" /\ Stored(podStore[p]).live
        BY <3>5 DEF PodPatched, KeepInv, PatchesSet
      <4> QED BY <3>1, <3>5, <4>1, PatchedAnnotations DEF Kept
    <3> QED BY <1>2, <3>2, <3>3, <3>4, <3>5 DEF PodStep
  <2> QED BY <1>0, <2>1, <2>2, CopiesStep
<1>6. PatchesSet'
  BY PatchesSetStep DEF KeepInv
<1> QED BY <1>3, <1>4, <1>5, <1>6 DEF KeepInv

(* An annotation of a pod, once any copy shows it, stays as long as the pod.  *)
LEMMA KeepInvariant == Spec => []KeepInv
<1> QED BY KeepInit, KeepNext, TypeInvariant, PTL DEF Spec
------------------------------------------------------------------------------
(* The pod the worker handles has been read.                                  *)
LEMMA ReadFrame ==
  ASSUME ReadInv, order' = order, i' = i, mem' = mem, pc' \in InPod => pc \in InPod
  PROVE  ReadInv'
BY DEF ReadInv

LEMMA ReadElsewhere ==
  ASSUME ReadInv, pc' \notin InPod, mem' = mem
  PROVE  ReadInv'
BY DEF ReadInv

LEMMA ReadReset ==
  ASSUME pc' \notin InPod, mem' = [p \in Pods |-> NewStatus]
  PROVE  ReadInv'
BY DEF ReadInv, NewStatus

(* The podStatus of the loop's pod is replaced by one whose pod is there.     *)
LEMMA ReadUpdate ==
  ASSUME TypeInv, ReadInv, pc \in InLoop, NEW m, mem' = [mem EXCEPT ![order[i]] = m],
         m.pod.live, order' = order, pc' \in InPod => i' = i
  PROVE  ReadInv'
<1>1. order[i] \in Pods /\ mem \in [Pods -> PodStatus]
  BY LoopPod DEF TypeInv, MemoryOK
<1> QED BY <1>1 DEF ReadInv

LEMMA ReadNextPod ==
  ASSUME NextPod \/ NextAttest
  PROVE  pc' \notin InPod
BY DEF NextPod, NextAttest, Set, InPod

LEMMA ReadReconcilePod ==
  ASSUME TypeInv, ReadInv, ReconcilePod
  PROVE  ReadInv'
<1> DEFINE p == order[i]
           c == Cached(podStore[p])
           m == Load(mem[p], c)
<1>1. pc \in InLoop /\ p \in Pods /\ mem \in [Pods -> PodStatus]
  BY LoopPod DEF ReconcilePod, InLoop, Labels, TypeInv, MemoryOK
<1>2. m.pod = c /\ [m EXCEPT !.reconciled = TRUE].pod = c
  BY DEF Load
<1>3. CASE End(TRUE)
  BY <1>3, ReadReset DEF End, Reset, InPod
<1>4. CASE NextPod /\ Keep /\ mem' = mem
  BY <1>4, ReadNextPod, ReadElsewhere
<1>5. CASE NextPod /\ Keep /\ mem' = [mem EXCEPT ![p].reconciled = TRUE]
  <2>1. [mem[p] EXCEPT !.reconciled = TRUE].pod = mem[p].pod
        /\ [mem[p] EXCEPT !.reconciled = TRUE].found = mem[p].found
    BY <1>1 DEF PodStatus
  <2> QED BY <1>1, <1>5, <2>1, ReadNextPod DEF ReadInv
<1>6. CASE /\ c.live /\ Keep
           /\ NextPod \/ \E val : Set("status", val)
           /\ \/ mem' = [mem EXCEPT ![p] = m]
              \/ mem' = [mem EXCEPT ![p] = [m EXCEPT !.reconciled = TRUE]]
  <2>1. pc' \in InPod => i' = i
    BY <1>6, ReadNextPod DEF Set
  <2> QED BY <1>1, <1>2, <1>6, <2>1, ReadUpdate DEF Keep
<1> QED BY <1>3, <1>4, <1>5, <1>6 DEF ReconcilePod, PodMissing

LEMMA ReadAnnotation ==
  ASSUME TypeInv, ReadInv, AnnotationGet \/ AnnotationPatch \/ AnnotationPatchFails
  PROVE  ReadInv'
<1> DEFINE p == order[i]
           c == Cached(podStore[p])
<1>1. pc \in InLoop /\ pc \in InPod /\ p \in Pods /\ mem[p] \in PodStatus
  BY LoopPod DEF AnnotationGet, AnnotationPatch, AnnotationPatchFails, InLoop, InPod,
                 Labels
<1>2. ASSUME AnnotationFails
      PROVE  ReadInv'
  <2>1. CASE Goto("Final") /\ Keep /\ UNCHANGED mem
    BY <1>1, <2>1, ReadFrame DEF Goto, Keep
  <2>2. CASE Set("label", "Error") /\ Keep /\ UNCHANGED mem
    BY <2>2, ReadElsewhere DEF Set, InPod
  <2>3. CASE End(TRUE)
    BY <2>3, ReadReset DEF End, Reset, InPod
  <2> QED BY <1>2, <2>1, <2>2, <2>3 DEF AnnotationFails
<1>3. AfterAnnotation \/ Goto("AnnPatch") => (pc' \in InPod => i' = i)
  BY ReadNextPod DEF AfterAnnotation, Goto
<1>4. ASSUME NEW d, d.live, mem' = [mem EXCEPT ![p].pod = d],
             AfterAnnotation \/ Goto("AnnPatch"), Keep
      PROVE  ReadInv'
  <2>1. [mem[p] EXCEPT !.pod = d].pod = d
    BY <1>1 DEF PodStatus
  <2> QED BY <1>1, <1>3, <1>4, <2>1, ReadUpdate DEF Keep
<1>5. CASE AnnotationGet
  BY <1>2, <1>4, <1>5 DEF AnnotationGet
<1>6. CASE AnnotationPatch
  <2>1. AnnotationPatched(p).live
    BY <1>1, <1>6, StoredIsCopy DEF AnnotationPatch, AnnotationPatched, Annotate, Pod
  <2> QED BY <1>4, <1>6, <2>1 DEF AnnotationPatch
<1> QED BY <1>2, <1>5, <1>6 DEF AnnotationPatchFails

LEMMA ReadPodHandlers ==
  ASSUME TypeInv, ReadInv,
         HandleArtifactInfo \/ HandleArtifactSigning \/ HandleSBOMgeneration
           \/ UpdateFinalStatus
  PROVE  ReadInv'
<1> DEFINE p == order[i]
<1>1. /\ pc \in InLoop /\ pc \in InPod /\ p \in Pods
      /\ mem \in [Pods -> PodStatus] /\ mem[p] \in PodStatus /\ mem[p].pod.live
  BY LoopPod DEF HandleArtifactInfo, HandleArtifactSigning, HandleSBOMgeneration,
                 UpdateFinalStatus, InLoop, InPod, Labels, ReadInv, TypeInv, MemoryOK
<1>2. order' = order /\ i' = i /\ pc' \in InPod
  BY DEF HandleArtifactInfo, HandleArtifactSigning, HandleSBOMgeneration,
         UpdateFinalStatus, Keep, Set, Goto, AfterSigning, InPod
<1>3. ASSUME NEW m, m.pod.live, mem' = [mem EXCEPT ![p] = m]
      PROVE  ReadInv'
  BY <1>1, <1>2, <1>3, ReadUpdate
<1>4. CASE mem' = mem
  BY <1>1, <1>2, <1>4, ReadFrame
<1>5. CASE HandleArtifactInfo
  <2>1. /\ \A b : [mem[p] EXCEPT !.found = b].pod = mem[p].pod
        /\ \A b, ref : [[mem[p] EXCEPT !.found = b] EXCEPT !.info = ref].pod = mem[p].pod
    BY <1>1 DEF PodStatus
  <2>2. \/ mem' = [mem EXCEPT ![p] = [[mem[p] EXCEPT !.found = Extract(p) # "NotFound"]
                                            EXCEPT !.info = Extract(p)]]
        \/ \E b : mem' = [mem EXCEPT ![p] = [mem[p] EXCEPT !.found = b]]
    BY <1>1, <1>5 DEF HandleArtifactInfo
  <2>3. \E m : m.pod = mem[p].pod /\ mem' = [mem EXCEPT ![p] = m]
    BY <2>1, <2>2, Zenon
  <2> QED BY <1>1, <1>3, <2>3
<1>6. CASE HandleArtifactSigning
  <2>1. \A b : [mem[p] EXCEPT !.signed = b].pod = mem[p].pod
    BY <1>1 DEF PodStatus
  <2>2. mem' = mem \/ \E b : mem' = [mem EXCEPT ![p] = [mem[p] EXCEPT !.signed = b]]
    BY <1>6 DEF HandleArtifactSigning
  <2> QED BY <1>1, <1>3, <1>4, <2>1, <2>2
<1>7. CASE UpdateFinalStatus
  <2>1. mem' = [mem EXCEPT ![p] = [mem[p] EXCEPT !.reconciled = TRUE]]
    BY <1>7 DEF UpdateFinalStatus
  <2>2. [mem[p] EXCEPT !.reconciled = TRUE].pod = mem[p].pod
    BY <1>1 DEF PodStatus
  <2> QED BY <1>1, <1>3, <2>1, <2>2
<1> QED BY <1>4, <1>5, <1>6, <1>7 DEF HandleSBOMgeneration

LEMMA ReadNext == TypeInv /\ ReadInv /\ [Next]_vars => ReadInv'
<1> SUFFICES ASSUME TypeInv, ReadInv, [Next]_vars PROVE ReadInv'
  OBVIOUS
<1>1. CASE worker' = worker \/ Reset
  BY <1>1, ReadFrame, ReadReset DEF worker, Reset, InPod
<1>2. CASE BeginFails \/ BeginIgnores \/ BeginSecures
  BY <1>1, <1>2, ReadElsewhere DEF BeginFails, BeginIgnores, BeginSecures, Set, InPod
<1>3. CASE LabelGet \/ LabelPatch \/ LabelConflict \/ LabelFails
  BY <1>1, <1>3, ReadElsewhere DEF LabelGet, LabelPatch, LabelConflict, LabelFails,
     AfterLabel, Goto, End, InPod
<1>4. CASE GetPodInfo
  BY <1>1, <1>4, ReadReset DEF GetPodInfo, End, InPod
<1>5. CASE ValidateAllPodsReconciled
  BY <1>1, <1>5, ReadElsewhere DEF ValidateAllPodsReconciled, Goto, Set, End, InPod
<1>6. CASE HandleProvenanceAttachment
  <2>1. pc \in InLoop
    BY <1>6 DEF HandleProvenanceAttachment, InLoop, Labels
  <2>2. CASE End(TRUE)
    BY <1>1, <2>2 DEF End
  <2>3. CASE NextAttest /\ mem' = mem
    BY <2>3, ReadNextPod, ReadElsewhere
  <2>4. CASE Set("label", "Error") /\ mem' = mem
    BY <2>4, ReadElsewhere DEF Set, InPod
  <2>5. CASE /\ mem[order[i]].pod.live /\ Keep /\ mem' = mem
             /\ \E val : Set("provenance", val)
    BY <2>5 DEF Set, Keep, ReadInv
  <2>6. mem[order[i]].found => mem[order[i]].pod.live
    BY <2>1, LoopPod DEF ReadInv
  <2> QED BY <1>6, <2>2, <2>3, <2>4, <2>5, <2>6
          DEF HandleProvenanceAttachment, NoPodPanics
<1>7. CASE Environment \/ Informers \/ Crash \/ UNCHANGED vars
  BY <1>1, <1>7 DEF Environment, StartNode, LeaveUnknown, FinishPod, FinishNode,
     DeletePod, DeleteWorkflow, Enable, Quiet, Informers, SyncWorkflow, SyncPod, Resync,
     Crash, vars
<1> QED BY <1>2, <1>3, <1>4, <1>5, <1>6, <1>7, ReadReconcilePod, ReadAnnotation,
           ReadPodHandlers DEF Next, Worker

LEMMA ReadInvariant == Spec => []ReadInv
<1>1. Init => ReadInv
  BY DEF Init, ReadInv, NewStatus, InPod
<1> QED BY <1>1, ReadNext, TypeInvariant, PTL DEF Spec
------------------------------------------------------------------------------
(* The patches the worker sets out to make, and what for.                     *)
Pending == pc \in {"AnnGet", "AnnPatch"}
PatchStep ==
  \/ ~ Pending'
  \/ Pending /\ UNCHANGED <<patch, order, i>>
  \/ /\ pc \in InLoop /\ UNCHANGED <<order, i>>
     /\ \/ patch'.key \in {"status", "signed", "sbom"}
        \/ /\ pc = "Artifacts" /\ mem[order[i]].pod.ann["artifacts"] = "none"
           /\ patch' = [key |-> "artifacts", val |-> Extract(order[i])]
        \/ /\ pc = "Attest" /\ patch'.key = "provenance" /\ mem' = mem
           /\ patch'.val = "Attached" => Attested(order[i])'

LEMMA PatchSteps ==
  ASSUME TypeInv, [Next]_vars
  PROVE  PatchStep
<1>1. CASE worker' = worker \/ Reset
  BY <1>1 DEF worker, Reset, PatchStep, Pending
<1>2. CASE ~ Pending'
  BY <1>2 DEF PatchStep
<1>3. CASE NextPod \/ NextAttest
  BY <1>3 DEF NextPod, NextAttest, Set, PatchStep, Pending
<1>4. ASSUME NEW key \in {"status", "signed", "sbom"}, NEW val, Set(key, val), Keep,
             pc \in InLoop
      PROVE  PatchStep
  BY <1>4 DEF Set, Keep, PatchStep
<1>5. CASE BeginFails \/ BeginIgnores \/ BeginSecures \/ LabelGet \/ LabelPatch
             \/ LabelConflict \/ LabelFails \/ GetPodInfo
             \/ ValidateAllPodsReconciled
  BY <1>1, <1>2, <1>5 DEF BeginFails, BeginIgnores, BeginSecures, LabelGet, LabelPatch,
     LabelConflict, LabelFails, GetPodInfo, ValidateAllPodsReconciled, AfterLabel, Goto,
     Set, End, Pending
<1>6. CASE ReconcilePod
  <2>1. pc \in InLoop
    BY <1>6 DEF ReconcilePod, InLoop, Labels
  <2> QED BY <1>1, <1>3, <1>4, <1>6, <2>1 DEF ReconcilePod, PodMissing, End
<1>7. CASE AnnotationGet \/ AnnotationPatch \/ AnnotationPatchFails
  <2>1. AfterAnnotation => ~ Pending'
    BY DEF AfterAnnotation, NextPod, NextAttest, Goto, Set, Pending
  <2>2. AnnotationFails => ~ Pending'
    BY DEF AnnotationFails, End, Reset, Goto, Set, Pending
  <2>3. CASE AnnotationGet /\ Goto("AnnPatch") /\ Keep
    BY <2>3 DEF AnnotationGet, Goto, Keep, PatchStep, Pending
  <2> QED BY <1>2, <1>7, <2>1, <2>2, <2>3
          DEF AnnotationGet, AnnotationPatch, AnnotationPatchFails
<1>8. CASE HandleArtifactInfo
  <2>1. pc \in InLoop
    BY <1>8 DEF HandleArtifactInfo, InLoop, Labels
  <2>2. CASE Goto("Signing")
    BY <1>2, <2>2 DEF Goto, Pending
  <2> QED BY <1>8, <2>1, <2>2 DEF HandleArtifactInfo, Set, Keep, PatchStep
<1>9. CASE HandleArtifactSigning \/ HandleSBOMgeneration \/ UpdateFinalStatus
  <2>1. pc \in InLoop
    BY <1>9 DEF HandleArtifactSigning, HandleSBOMgeneration, UpdateFinalStatus, InLoop,
                Labels
  <2>2. CASE AfterSigning \/ Goto("Final")
    BY <1>2, <2>2 DEF AfterSigning, Goto, Pending
  <2> QED BY <1>4, <1>9, <2>1, <2>2
          DEF HandleArtifactSigning, HandleSBOMgeneration, UpdateFinalStatus
<1>10. CASE HandleProvenanceAttachment
  <2> DEFINE p == order[i]
  <2>1. pc = "Attest" /\ pc \in InLoop /\ i \in 1 .. Len(order)
    BY <1>10 DEF HandleProvenanceAttachment, InLoop, Labels, TypeInv, ControlOK
  <2>2. ASSUME NEW val, Set("provenance", val), Keep, mem' = mem,
               val = "Attached" =>
                 /\ mem[p].found /\ mem[p].signed /\ mem[p].info = "Ref"
                 /\ attestations' = attestations \cup {<<p, Subjects(mem)>>}
        PROVE  PatchStep
    <3>1. val = "Attached" => p \in Subjects(mem)
      BY <2>1, <2>2 DEF Subjects, ToSet
    <3>2. p' = p
      BY <2>2 DEF Set, Keep
    <3>3. val = "Attached" => Attested(p)'
      <4>1. CASE val = "Attached"
        <5>1. <<p, Subjects(mem)>> \in attestations'
          BY <2>2, <4>1
        <5>2. \E a \in attestations' : a[1] = p /\ p \in a[2]
          BY <3>1, <4>1, <5>1
        <5> QED BY <3>2, <5>2 DEF Attested
      <4> QED BY <4>1
    <3> QED BY <2>1, <2>2, <3>2, <3>3 DEF Set, Keep, PatchStep
  <2>3. CASE Set("label", "Error")
    BY <1>2, <2>3 DEF Set, Pending
  <2>4. CASE Set("provenance", "Skipped") /\ Keep /\ mem' = mem
    BY <2>2, <2>4
  <2>5. CASE Set("provenance", "Error") /\ Keep /\ mem' = mem
    BY <2>2, <2>5
  <2>6. CASE /\ Set("provenance", "Attached") /\ Keep /\ mem' = mem
             /\ mem[p].found /\ mem[p].signed /\ mem[p].info = "Ref"
             /\ attestations' = attestations \cup {<<p, Subjects(mem)>>}
    BY <2>2, <2>6
  <2>7. CASE mem[p].found /\ mem[p].pod.ann["provenance"] = "none" /\ mem[p].signed
    BY <1>10, <2>3, <2>5, <2>6, <2>7 DEF HandleProvenanceAttachment, ProvenanceState
  <2> QED BY <1>1, <1>3, <1>10, <2>4, <2>7
          DEF HandleProvenanceAttachment, NoPodPanics, End
<1>11. CASE Environment \/ Informers \/ Crash \/ UNCHANGED vars
  BY <1>1, <1>11 DEF Environment, StartNode, LeaveUnknown, FinishPod, FinishNode,
     DeletePod, DeleteWorkflow, Enable, Quiet, Informers, SyncWorkflow, SyncPod, Resync,
     Crash, vars
<1> QED BY <1>5, <1>6, <1>7, <1>8, <1>9, <1>10, <1>11 DEF Next, Worker

(* Where the reference in memory comes from: an annotation, or the outputs.   *)
InfoStep(p) ==
  \/ mem'[p].info \in {mem[p].info, "none"}
  \/ \E c \in Copies(p) : c.ann["artifacts"] \notin {"none", "NotFound"}
  \/ /\ pc = "Artifacts" /\ p = order[i] /\ mem'[p].info = Extract(p)
     /\ Set("artifacts", Extract(p)) /\ order' = order

LEMMA InfoSteps ==
  ASSUME TypeInv, [Next]_vars, NEW p \in Pods
  PROVE  InfoStep(p)
<1> DEFINE q == order[i]
           c == Cached(podStore[q])
<1>0. mem \in [Pods -> PodStatus]
  BY DEF TypeInv, MemoryOK
<1>1. CASE mem' = mem \/ worker' = worker \/ mem' = [r \in Pods |-> NewStatus]
  BY <1>1 DEF worker, NewStatus, InfoStep
<1>2. CASE Reset
  BY <1>1, <1>2 DEF Reset
<1>3. ASSUME pc \in InLoop, NEW m, m.info = mem[q].info, mem' = [mem EXCEPT ![q] = m]
      PROVE  InfoStep(p)
  <2>1. mem'[p].info = mem[p].info
    BY <1>0, <1>3, LoopPod
  <2> QED BY <2>1 DEF InfoStep
<1>4. CASE ReconcilePod
  <2>1. pc \in InLoop /\ q \in Pods /\ mem[q] \in PodStatus /\ c \in Copies(q)
    BY <1>4, LoopPod, StoredIsCopy DEF ReconcilePod, InLoop, Labels
  <2>2. \/ mem' = mem \/ Reset
        \/ mem' = [mem EXCEPT ![q] = [mem[q] EXCEPT !.reconciled = TRUE]]
        \/ mem' = [mem EXCEPT ![q] = Load(mem[q], c)]
        \/ mem' = [mem EXCEPT ![q] = [Load(mem[q], c) EXCEPT !.reconciled = TRUE]]
    BY <1>4 DEF ReconcilePod, PodMissing, End
  <2>3. [mem[q] EXCEPT !.reconciled = TRUE].info = mem[q].info
    BY <2>1 DEF PodStatus
  <2>4. \/ c.ann["artifacts"] \notin {"none", "NotFound"}
        \/ /\ Load(mem[q], c).info = mem[q].info
           /\ [Load(mem[q], c) EXCEPT !.reconciled = TRUE].info = mem[q].info
    BY DEF Load
  <2>5. CASE \/ mem' = [mem EXCEPT ![q] = Load(mem[q], c)]
             \/ mem' = [mem EXCEPT ![q] = [Load(mem[q], c) EXCEPT !.reconciled = TRUE]]
    <3>1. CASE p # q
      BY <1>0, <2>5, <3>1 DEF InfoStep
    <3>2. CASE p = q /\ c.ann["artifacts"] \notin {"none", "NotFound"}
      BY <2>1, <3>2 DEF InfoStep
    <3> QED BY <1>3, <2>1, <2>4, <2>5, <3>1, <3>2
  <2> QED BY <1>1, <1>2, <1>3, <2>1, <2>2, <2>3, <2>5
<1>5. CASE AnnotationGet \/ AnnotationPatch \/ AnnotationPatchFails
  <2>1. pc \in InLoop /\ mem[q] \in PodStatus
    BY <1>5, LoopPod DEF AnnotationGet, AnnotationPatch, AnnotationPatchFails, InLoop,
                         Labels
  <2>2. \A d : [mem[q] EXCEPT !.pod = d].info = mem[q].info
    BY <2>1 DEF PodStatus
  <2>3. mem' = mem \/ Reset \/ \E d : mem' = [mem EXCEPT ![q] = [mem[q] EXCEPT !.pod = d]]
    BY <1>5 DEF AnnotationGet, AnnotationPatch, AnnotationPatchFails, AnnotationFails, End
  <2> QED BY <1>1, <1>2, <1>3, <2>1, <2>2, <2>3
<1>6. CASE HandleArtifactInfo
  <2>1. pc \in InLoop /\ q \in Pods /\ mem[q] \in PodStatus
    BY <1>6, LoopPod DEF HandleArtifactInfo, InLoop, Labels
  <2>2. CASE mem[q].pod.ann["artifacts"] = "none"
    <3>1. mem'[q].info = Extract(q) /\ \A r \in Pods \ {q} : mem'[r] = mem[r]
      BY <1>0, <1>6, <2>1, <2>2 DEF HandleArtifactInfo, PodStatus
    <3> QED BY <1>6, <2>2, <3>1 DEF HandleArtifactInfo, Keep, InfoStep
  <2>3. CASE mem[q].pod.ann["artifacts"] # "none"
    <3>1. \A b : [mem[q] EXCEPT !.found = b].info = mem[q].info
      BY <2>1 DEF PodStatus
    <3>2. \E b : mem' = [mem EXCEPT ![q] = [mem[q] EXCEPT !.found = b]]
      BY <1>6, <2>3 DEF HandleArtifactInfo
    <3> QED BY <1>3, <2>1, <3>1, <3>2
  <2> QED BY <2>2, <2>3
<1>7. CASE HandleArtifactSigning
  <2>1. pc \in InLoop /\ mem[q] \in PodStatus
    BY <1>7, LoopPod DEF HandleArtifactSigning, InLoop, Labels
  <2>2. \A b : [mem[q] EXCEPT !.signed = b].info = mem[q].info
    BY <2>1 DEF PodStatus
  <2>3. mem' = mem \/ \E b : mem' = [mem EXCEPT ![q] = [mem[q] EXCEPT !.signed = b]]
    BY <1>7 DEF HandleArtifactSigning
  <2> QED BY <1>1, <1>3, <2>1, <2>2, <2>3
<1>8. CASE UpdateFinalStatus
  <2>1. pc \in InLoop /\ mem[q] \in PodStatus
    BY <1>8, LoopPod DEF UpdateFinalStatus, InLoop, Labels
  <2>2. [mem[q] EXCEPT !.reconciled = TRUE].info = mem[q].info
    BY <2>1 DEF PodStatus
  <2> QED BY <1>3, <1>8, <2>1, <2>2 DEF UpdateFinalStatus
<1>9. CASE BeginFails \/ BeginIgnores \/ BeginSecures \/ LabelGet \/ LabelPatch
             \/ LabelConflict \/ LabelFails \/ GetPodInfo \/ HandleSBOMgeneration
             \/ ValidateAllPodsReconciled \/ HandleProvenanceAttachment
  <2>1. mem' = mem \/ Reset \/ mem' = [r \in Pods |-> NewStatus]
    BY <1>9 DEF BeginFails, BeginIgnores, BeginSecures, LabelGet, LabelPatch,
       LabelConflict, LabelFails, GetPodInfo, HandleSBOMgeneration, AfterLabel, End,
       ValidateAllPodsReconciled, HandleProvenanceAttachment, NoPodPanics, worker
  <2> QED BY <1>1, <1>2, <2>1
<1>10. CASE Environment \/ Informers \/ Crash \/ UNCHANGED vars
  <2>1. worker' = worker \/ Reset
    BY <1>10 DEF Environment, StartNode, LeaveUnknown, FinishPod, FinishNode, DeletePod,
       DeleteWorkflow, Enable, Quiet, Informers, SyncWorkflow, SyncPod, Resync, Crash,
       vars
  <2> QED BY <1>1, <1>2, <2>1
<1> QED BY <1>4, <1>5, <1>6, <1>7, <1>8, <1>9, <1>10 DEF Next, Worker
------------------------------------------------------------------------------
(* A pod that was born stays so, and what it has recorded stays recorded: the *)
(* reconciler has one value only for the artifacts annotation of a pod.       *)
LEMMA BornStays ==
  ASSUME TypeInv, KeepInv, [Next]_vars, NEW p \in Pods, ~ Unborn(p)
  PROVE  ~ Unborn(p)' /\ ~ PodCreated(p)
<1>1. ~ PodCreated(p)
  BY DEF KeepInv, PodsAfterNodes, PodCreated, NodeIs
<1>2. Unborn(p)' <=> NewVersion(p).phase = "None"
  BY CopiesStep DEF Unborn
<1> QED BY <1>1, <1>2, PodSteps, OtherStepsKeepAnnotations, PatchedAnnotations
        DEF PodStep, Unborn

LEMMA RecordedStays ==
  ASSUME TypeInv, KeepInv, OneReference, [Next]_vars,
         NEW p \in Pods, ~ Unborn(p), Recorded(p)
  PROVE  Recorded(p)'
<1>0. Recorded(p)' <=> (NewVersion(p).live => NewVersion(p).ann["artifacts"] = "Ref")
  BY CopiesStep DEF Recorded
<1>1. CASE NewVersion(p) = Stored(podStore[p])
  BY <1>0, <1>1 DEF Recorded
<1>2. CASE PodFinished(p) \/ PodDeleted(p)
  BY <1>0, <1>2, OtherStepsKeepAnnotations DEF Recorded
<1>3. CASE PodPatched(p)
  <2>1. Stored(podStore[p]).ann["artifacts"] = "Ref" /\ Stored(podStore[p]) \in Copies(p)
    BY <1>3, StoredIsCopy DEF PodPatched, Recorded
  <2>2. Extract(p) = "Ref"
    BY <2>1 DEF OneReference
  <2>3. patch.key = "artifacts" => patch.val = "Ref"
    BY <1>3, <2>2 DEF OneReference, PodPatched
  <2> QED BY <1>0, <1>3, <2>1, <2>3, PatchedAnnotations DEF AnnKeys
<1> QED BY <1>1, <1>2, <1>3, PodSteps, BornStays DEF PodStep

(* A copy that shows a reference is enough for the stored pod to have it.     *)
LEMMA SeenIsRecorded ==
  ASSUME TypeInv, KeepInv, OneReference, NEW p \in Pods, NEW c \in Copies(p),
         c.ann["artifacts"] \notin {"none", "NotFound"}
  PROVE  p \in WithArtifact /\ ~ Unborn(p) /\ Recorded(p)
<1>1. c.ann["artifacts"] = Extract(p) /\ Extract(p) = "Ref" /\ p \in WithArtifact
  BY DEF OneReference, Extract
<1>2. c # NoPod
  BY <1>1 DEF NoPod, AnnKeys
<1>3. Kept(p, "artifacts")
  BY <1>1 DEF KeepInv, NothingLost, AnnKeys
<1>4. Stored(podStore[p]).ann["artifacts"] \in {"none", Extract(p)}
  BY StoredIsCopy DEF OneReference
<1> QED BY <1>1, <1>2, <1>3, <1>4 DEF KeepInv, UnbornIsUnseen, Kept, Recorded

LEMMA OneReferenceStep ==
  ASSUME TypeInv, OneReference, [Next]_vars
  PROVE  OneReference'
<1>1. ASSUME NEW p \in Pods, NEW c \in Copies(p)'
      PROVE  c.ann["artifacts"] \in {"none", Extract(p)}
  <2>1. NoPod.ann["artifacts"] = "none" /\ NewPod.ann["artifacts"] = "none"
    BY DEF NoPod, NewPod, AnnKeys
  <2>2. Stored(podStore[p]).ann["artifacts"] \in {"none", Extract(p)}
    BY StoredIsCopy DEF OneReference
  <2>3. ASSUME PodPatched(p)
        PROVE  NewVersion(p).ann["artifacts"] \in {"none", Extract(p)}
    <3>1. patch.key = "artifacts" => patch.val = Extract(p)
      BY <2>3 DEF OneReference, PodPatched
    <3> QED BY <2>2, <2>3, <3>1, PatchedAnnotations DEF AnnKeys
  <2>4. NewVersion(p).ann["artifacts"] \in {"none", Extract(p)}
    BY <2>1, <2>2, <2>3, PodSteps, OtherStepsKeepAnnotations DEF PodStep, PodCreated
  <2> QED BY <1>1, <2>1, <2>4, CopiesStep DEF OneReference
<1>2. ASSUME Pending', patch'.key = "artifacts"
      PROVE  patch'.val = Extract(order[i])'
  BY <1>2, PatchSteps DEF PatchStep, Pending, OneReference, Extract
<1> QED BY <1>1, <1>2 DEF OneReference, Pending, Extract

(* Between HandleArtifactInfo and its annotation nothing but the loss of the  *)
(* memory, or the annotation, ends the recording.                             *)
LEMMA RecordingStep ==
  ASSUME TypeInv, KeepInv, OneReference, [Next]_vars,
         NEW p \in Pods, Recording(p), Extract(p) = "Ref"
  PROVE  Recording(p)' \/ mem'[p].info = "none" \/ Recorded(p) \/ Recorded(p)'
<1> DEFINE c == Cached(podStore[p])
<1>1. patch.val = "Ref" /\ p = order[i]
  BY DEF Recording, OneReference
<1>2. CASE worker' = worker
  BY <1>2 DEF worker, Recording
<1>3. CASE Reset
  BY <1>3 DEF Reset, NewStatus
<1>4. CASE AnnotationFails
  BY <1>3, <1>4 DEF AnnotationFails, End, Recording
<1>5. CASE AnnotationGet
  <2>1. CASE c.live /\ c.ann["artifacts"] = patch.val
    BY <1>1, <2>1, StoredIsCopy, SeenIsRecorded
  <2>2. CASE Goto("AnnPatch") /\ Keep
    BY <2>2 DEF Goto, Keep, Recording
  <2> QED BY <1>1, <1>4, <1>5, <2>1, <2>2 DEF AnnotationGet, Recording
<1>6. CASE AnnotationPatch
  <2>1. PodPatched(p)
    <3>1. AnnotationPatched(p) \in Pod
      BY StoredIsCopy, OperatorTypes DEF AnnotationPatched, Recording, TypeInv, ControlOK,
                                         Patch
    <3> QED BY <1>1, <1>6, <3>1, OneWrite DEF AnnotationPatch, PodPatched
  <2>2. NewVersion(p).ann["artifacts"] = "Ref"
    BY <1>1, <2>1, PatchedAnnotations DEF Recording
  <2> QED BY <2>2, CopiesStep DEF Recorded
<1>7. CASE AnnotationPatchFails
  BY <1>4, <1>7 DEF AnnotationPatchFails
<1>8. CASE Worker
  BY <1>5, <1>6, <1>7, <1>8 DEF Recording, Worker, BeginFails, BeginIgnores, BeginSecures,
     LabelGet, LabelPatch, LabelConflict, LabelFails, GetPodInfo, ReconcilePod,
     HandleArtifactInfo, HandleArtifactSigning, HandleSBOMgeneration, UpdateFinalStatus,
     ValidateAllPodsReconciled, HandleProvenanceAttachment
<1>9. CASE Environment \/ Informers \/ Crash \/ UNCHANGED vars
  BY <1>2, <1>3, <1>9 DEF Environment, StartNode, LeaveUnknown, FinishPod, FinishNode,
     DeletePod, DeleteWorkflow, Enable, Quiet, Informers, SyncWorkflow, SyncPod, Resync,
     Crash, vars
<1> QED BY <1>8, <1>9 DEF Next

(* Only handleArtifactSigning publishes, and only a reference it holds.       *)
LEMMA PublishedSteps ==
  ASSUME [Next]_vars, NEW p \in published' \ published
  PROVE  pc = "Signing" /\ p = order[i] /\ mem[p].info = "Ref"
<1>1. CASE published' = published
  BY <1>1
<1>2. CASE HandleArtifactSigning
  BY <1>2 DEF HandleArtifactSigning
<1> QED BY <1>1, <1>2 DEF Next, Worker, Environment, StartNode, LeaveUnknown, FinishPod,
     FinishNode, DeletePod, DeleteWorkflow, Enable, Quiet, Informers, SyncWorkflow,
     SyncPod, Resync, Crash, vars, registry, BeginFails, BeginIgnores, BeginSecures,
     LabelGet, LabelPatch, LabelConflict, LabelFails, GetPodInfo, ReconcilePod,
     AnnotationGet, AnnotationPatch, AnnotationPatchFails, HandleArtifactInfo,
     HandleSBOMgeneration, UpdateFinalStatus, ValidateAllPodsReconciled,
     HandleProvenanceAttachment

LEMMA RecordNext ==
  TypeInv /\ KeepInv /\ ReadInv /\ RecordInv /\ [Next]_vars => RecordInv'
<1> SUFFICES ASSUME TypeInv, KeepInv, ReadInv, RecordInv, [Next]_vars
             PROVE  RecordInv'
  OBVIOUS
<1>1. OneReference /\ OneReference'
  BY OneReferenceStep DEF RecordInv
<1>2. MemoryRecorded'
  <2> SUFFICES ASSUME NEW p \in Pods, mem'[p].info = "Ref"
               PROVE  p \in WithArtifact /\ ~ Unborn(p)' /\ (Recorded(p)' \/ Recording(p)')
    BY DEF MemoryRecorded
  <2>1. CASE mem[p].info = "Ref"
    <3>1. p \in WithArtifact /\ ~ Unborn(p) /\ (Recorded(p) \/ Recording(p))
      BY <2>1 DEF RecordInv, MemoryRecorded
    <3> QED BY <1>1, <3>1, BornStays, RecordedStays, RecordingStep DEF Extract
  <2>2. CASE \E c \in Copies(p) : c.ann["artifacts"] \notin {"none", "NotFound"}
    BY <1>1, <2>2, SeenIsRecorded, BornStays, RecordedStays
  <2>3. CASE /\ pc = "Artifacts" /\ p = order[i] /\ mem'[p].info = Extract(p)
             /\ Set("artifacts", Extract(p)) /\ order' = order
    <3>1. mem[p].pod.live
      BY <2>3 DEF ReadInv, InPod
    <3>2. mem[p].pod \in Copies(p) /\ mem[p].pod # NoPod
      BY <3>1 DEF Copies, NoPod
    <3>3. ~ Unborn(p)
      BY <3>2 DEF KeepInv, UnbornIsUnseen
    <3> QED BY <2>3, <3>3, BornStays DEF Set, Recording, Extract
  <2> QED BY <2>1, <2>2, <2>3, InfoSteps DEF InfoStep
<1>3. PublishedInv'
  <2> SUFFICES ASSUME NEW p \in published'
               PROVE  Recorded(p)' /\ ~ Unborn(p)'
    BY DEF PublishedInv
  <2>1. p \in Pods /\ Recorded(p) /\ ~ Unborn(p)
    <3>1. CASE p \in published
      BY <3>1 DEF RecordInv, PublishedInv, TypeInv, StoreOK
    <3>2. CASE p \notin published
      <4>1. pc = "Signing" /\ p = order[i] /\ mem[p].info = "Ref"
        BY <3>2, PublishedSteps
      <4>2. p \in Pods
        BY <4>1, LoopPod DEF InLoop, Labels
      <4> QED BY <4>1, <4>2 DEF RecordInv, MemoryRecorded, Recording
    <3> QED BY <3>1, <3>2
  <2> QED BY <1>1, <2>1, RecordedStays, BornStays
<1> QED BY <1>1, <1>2, <1>3 DEF RecordInv

LEMMA RecordInvariant == Spec => []RecordInv
<1>1. Init => RecordInv
  <2> SUFFICES ASSUME Init PROVE RecordInv
    OBVIOUS
  <2>1. \A p \in Pods : Copies(p) = {NoPod}
    BY InitCopies
  <2>2. NoPod.ann["artifacts"] = "none"
    BY DEF NoPod, AnnKeys
  <2> QED BY <2>1, <2>2 DEF Init, RecordInv, OneReference, MemoryRecorded, PublishedInv,
                      NewStatus
<1> QED BY <1>1, RecordNext, TypeInvariant, KeepInvariant, ReadInvariant, PTL DEF Spec

(* Whatever is stale, fails or crashes between the signature and its record,  *)
(* the pod names the image that was signed for as long as it exists: the      *)
(* reference is stored before the signing starts and no later reconcile puts  *)
(* another in its place.                                                      *)
THEOREM PublishedStaysRecorded == Spec => []PublishedIsRecorded
<1>1. RecordInv => PublishedIsRecorded
  BY DEF RecordInv, PublishedInv, Recorded, PublishedIsRecorded
<1> QED BY <1>1, RecordInvariant, PTL
------------------------------------------------------------------------------
(* The registry keeps what was attested.                                      *)
LEMMA AttestedStays ==
  ASSUME [Next]_vars, NEW p \in Pods, Attested(p)
  PROVE  Attested(p)'
<1>1. attestations \subseteq attestations'
  <2>1. CASE attestations' = attestations
    BY <2>1
  <2>2. CASE HandleProvenanceAttachment
    BY <2>2 DEF HandleProvenanceAttachment
  <2> QED BY <2>1, <2>2 DEF Next, Worker, Environment, StartNode, LeaveUnknown, FinishPod,
     FinishNode, DeletePod, DeleteWorkflow, Enable, Quiet, Informers, SyncWorkflow,
     SyncPod, Resync, Crash, vars, registry, BeginFails, BeginIgnores, BeginSecures,
     LabelGet, LabelPatch, LabelConflict, LabelFails, GetPodInfo, ReconcilePod,
     AnnotationGet, AnnotationPatch, AnnotationPatchFails, HandleArtifactInfo,
     HandleArtifactSigning, HandleSBOMgeneration, UpdateFinalStatus,
     ValidateAllPodsReconciled
<1> QED BY <1>1 DEF Attested

LEMMA AttestedNext == TypeInv /\ AttestedInv /\ [Next]_vars => AttestedInv'
<1> SUFFICES ASSUME TypeInv, AttestedInv, [Next]_vars PROVE AttestedInv'
  OBVIOUS
<1>1. ASSUME NEW p \in Pods, NEW c \in Versions(podStore'[p]),
             c.ann["provenance"] = "Attached"
      PROVE  Attested(p)'
  <2>1. /\ NewPod.ann["provenance"] = "none"
        /\ Stored(podStore[p]) \in Versions(podStore[p])
    <3>1. podStore[p] \in Histories(Pod)
      BY DEF TypeInv, StoreOK
    <3> QED BY <3>1, ReadIsVersion DEF NewPod, NoPod, AnnKeys
  <2>2. CASE c \in Versions(podStore[p])
    BY <1>1, <2>2, AttestedStays DEF AttestedInv
  <2>3. CASE c = NewVersion(p)
    <3>1. CASE Stored(podStore[p]).ann["provenance"] = "Attached"
      BY <2>1, <3>1, AttestedStays DEF AttestedInv
    <3>2. CASE PodPatched(p) /\ patch.key = "provenance" /\ patch.val = "Attached"
      <4>1. patch = [key |-> "provenance", val |-> "Attached"]
        BY <3>2 DEF TypeInv, ControlOK, Patch
      <4> QED BY <3>2, <4>1, AttestedStays DEF AttestedInv, PodPatched
    <3>3. \/ Stored(podStore[p]).ann["provenance"] = "Attached"
          \/ PodPatched(p) /\ patch.key = "provenance" /\ patch.val = "Attached"
      BY <1>1, <2>1, <2>3, PodSteps, OtherStepsKeepAnnotations, PatchedAnnotations
         DEF PodStep, PodCreated, AnnKeys
    <3> QED BY <3>1, <3>2, <3>3
  <2>4. c \in Versions(podStore[p]) \cup {NewVersion(p)}
    BY <1>1, PodSteps DEF PodStep
  <2> QED BY <2>2, <2>3, <2>4
<1>2. ASSUME Pending', patch' = [key |-> "provenance", val |-> "Attached"]
      PROVE  Attested(order[i])'
  <2>1. CASE Pending /\ UNCHANGED <<patch, order, i>>
    <3>1. order[i] \in Pods /\ Attested(order[i])
      BY <1>2, <2>1, LoopPod DEF Pending, AttestedInv, InLoop, Labels
    <3>2. Attested(order[i])' <=> \E a \in attestations' : a[1] = order[i] /\ order[i] \in a[2]
      BY <2>1 DEF Attested
    <3>3. \E a \in attestations' : a[1] = order[i] /\ order[i] \in a[2]
      BY <3>1, AttestedStays DEF Attested
    <3> QED BY <3>2, <3>3
  <2>2. CASE ~ (Pending /\ UNCHANGED <<patch, order, i>>)
    BY <1>2, <2>2, PatchSteps DEF PatchStep
  <2> QED BY <2>1, <2>2
<1> QED BY <1>1, <1>2 DEF AttestedInv, Pending

(* No stale read, crash or failed call makes a pod say Attached for an        *)
(* attestation that is not in the registry, or that names other artifacts.    *)
THEOREM AttachedStaysAttested == Spec => []AttachedIsAttested
<1>1. Init => AttestedInv
  <2>1. NoPod.ann["provenance"] = "none"
    BY DEF NoPod, AnnKeys
  <2> QED BY <2>1, InitCopies DEF Init, AttestedInv, Copies
<1>2. TypeInv /\ AttestedInv => AttachedIsAttested
  <2> SUFFICES ASSUME TypeInv, AttestedInv, NEW p \in Pods,
                      Stored(podStore[p]).ann["provenance"] = "Attached"
               PROVE  Attested(p)
    BY DEF AttachedIsAttested, Attested
  <2>1. podStore[p] \in Histories(Pod)
    BY DEF TypeInv, StoreOK
  <2> QED BY <2>1, ReadIsVersion DEF AttestedInv
<1> QED BY <1>1, <1>2, AttestedNext, TypeInvariant, PTL DEF Spec
------------------------------------------------------------------------------
(* validateAllPodsReconciled finds a problem when there is one.               *)
LEMMA NoProblemAnywhere ==
  ASSUME order \in Seq(Pods), FirstProblem(mem) = "none"
  PROVE  \A n \in 1 .. Len(order) : Problem(mem[order[n]]) = "none"
<1> DEFINE bad == {n \in 1 .. Len(order) : Problem(mem[order[n]]) # "none"}
           least == CHOOSE n \in bad : \A k \in bad : n <= k
<1>1. CASE bad = {}
  BY <1>1
<1>2. CASE bad # {}
  <2>1. bad \in SUBSET Nat
    OBVIOUS
  <2>2. least \in bad
    BY <1>2, <2>1, LeastPosition
  <2>3. FirstProblem(mem) = Problem(mem[order[least]])
    BY <1>2 DEF FirstProblem
  <2> QED BY <2>2, <2>3
<1> QED BY <1>1, <1>2

(* What is kept stays kept.                                                   *)
LEMMA KeptStays ==
  ASSUME TypeInv, KeepInv, [Next]_vars, NEW p \in Pods, NEW k \in AnnKeys,
         ~ Unborn(p), Kept(p, k)
  PROVE  Kept(p, k)'
<1>0. Kept(p, k)' <=> (NewVersion(p).live => NewVersion(p).ann[k] # "none")
  BY CopiesStep DEF Kept
<1>1. CASE NewVersion(p) = Stored(podStore[p])
  BY <1>0, <1>1 DEF Kept
<1>2. CASE PodFinished(p) \/ PodDeleted(p)
  BY <1>0, <1>2, OtherStepsKeepAnnotations DEF Kept
<1>3. CASE PodPatched(p)
  <2>1. patch.val # "none" /\ Stored(podStore[p]).live
    BY <1>3 DEF PodPatched, KeepInv, PatchesSet
  <2> QED BY <1>0, <1>3, <2>1, PatchedAnnotations DEF Kept
<1> QED BY <1>1, <1>2, <1>3, PodSteps, BornStays DEF PodStep
------------------------------------------------------------------------------
(* The steps of AttestArtifacts and of the final label: how the worker gets   *)
(* there, and how it goes on.                                                 *)
SameMemory ==
  \/ mem' = mem
  \/ \E d : d.live /\ mem' = [mem EXCEPT ![order[i]] = [@ EXCEPT !.pod = d]]
Seen == LET d == mem'[order[i]].pod IN
        d.live /\ d.ann["provenance"] # "none"
AttestStep ==
  \/ ~ Attesting' /\ ~ Completing'
  \/ /\ pc = "Validate" /\ FirstProblem(mem) = "none" /\ Attesting' /\ ~ Completing'
     /\ UNCHANGED <<mem, order, i>>
  \/ /\ Completing /\ Completing' /\ ~ Attesting' /\ UNCHANGED <<mem, order, i>>
  \/ /\ Attesting /\ Attesting' /\ ~ Completing' /\ SameMemory /\ UNCHANGED <<order, i>>
  \/ /\ Attesting /\ NextAttest /\ SameMemory /\ Seen /\ order' = order

LEMMA SeenInMemory ==
  ASSUME TypeInv, pc \in InLoop, order' = order
  PROVE  \A d : mem' = [mem EXCEPT ![order[i]] = [mem[order[i]] EXCEPT !.pod = d]]
                  => mem'[order[i]].pod = d
<1>1. order[i] \in Pods /\ mem[order[i]] \in PodStatus /\ mem \in [Pods -> PodStatus]
  BY LoopPod DEF TypeInv, MemoryOK
<1>2. \A d : [mem[order[i]] EXCEPT !.pod = d].pod = d
  BY <1>1 DEF PodStatus
<1> QED BY <1>1, <1>2

LEMMA AttestAnnotation ==
  ASSUME TypeInv, PatchesSet, AnnotationGet \/ AnnotationPatch \/ AnnotationPatchFails
  PROVE  AttestStep
<1> DEFINE p == order[i]
           c == Cached(podStore[p])
<1>1. /\ pc \in InLoop /\ Pending /\ p \in Pods /\ patch.val # "none"
      /\ patch.key \in AnnKeys /\ patch.val \in AnnValues
  BY LoopPod DEF AnnotationGet, AnnotationPatch, AnnotationPatchFails, InLoop, Pending,
                 Labels, PatchesSet, TypeInv, ControlOK, Patch
<1>2. CASE AnnotationFails
  BY <1>2 DEF AnnotationFails, AttestStep, Attesting, Completing, End, Reset, Goto, Set
<1>3. CASE patch.key # "provenance" /\ AfterAnnotation
  BY <1>1, <1>3 DEF AfterAnnotation, AttestStep, Attesting, Completing, NextPod, Goto,
                    AnnKeys
<1>4. ASSUME NEW d, d.live, d.ann[patch.key] = patch.val,
             mem' = [mem EXCEPT ![p] = [mem[p] EXCEPT !.pod = d]],
             AfterAnnotation, Keep, patch.key = "provenance"
      PROVE  AttestStep
  <2>1. SameMemory /\ order' = order /\ Attesting
    BY <1>1, <1>4 DEF SameMemory, Keep, Attesting, Pending
  <2>2. Seen
    BY <1>1, <1>4, SeenInMemory DEF Seen, Keep
  <2>3. NextAttest
    BY <1>4 DEF AfterAnnotation
  <2> QED BY <2>1, <2>2, <2>3 DEF AttestStep
<1>5. CASE AnnotationGet
  <2>1. CASE Goto("AnnPatch") /\ Keep /\ c.live
             /\ mem' = [mem EXCEPT ![p] = [mem[p] EXCEPT !.pod = c]]
    BY <1>1, <2>1 DEF AttestStep, Attesting, Completing, Goto, Keep, SameMemory, Pending
  <2> QED BY <1>2, <1>3, <1>4, <1>5, <2>1 DEF AnnotationGet
<1>6. CASE AnnotationPatch
  <2> DEFINE d == AnnotationPatched(p)
  <2>1. mem' = [mem EXCEPT ![p] = [mem[p] EXCEPT !.pod = d]]
    BY <1>6 DEF AnnotationPatch
  <2>2. d.live /\ d.ann[patch.key] = patch.val
    BY <1>1, <1>6, StoredIsCopy DEF AnnotationPatch, AnnotationPatched, Annotate, Pod
  <2> QED BY <1>3, <1>4, <1>6, <2>1, <2>2 DEF AnnotationPatch
<1> QED BY <1>2, <1>5, <1>6 DEF AnnotationPatchFails

LEMMA AttestHandler ==
  ASSUME TypeInv, ReadInv, CoverInv, HandleProvenanceAttachment
  PROVE  AttestStep
<1> DEFINE p == order[i]
           m == mem[p]
<1>1. /\ pc = "Attest" /\ Attesting /\ p \in Pods /\ Problem(m) = "none"
      /\ m.found => m.pod.live
  <2>1. pc = "Attest" /\ Attesting /\ pc \in InLoop
    BY DEF HandleProvenanceAttachment, Attesting, InLoop, Labels
  <2>2. i \in 1 .. Len(order) /\ p \in Pods
    BY <2>1, LoopPod DEF TypeInv, ControlOK
  <2> QED BY <2>1, <2>2 DEF CoverInv, ReadInv
<1>2. CASE End(TRUE) \/ Set("label", "Error")
  BY <1>2 DEF AttestStep, Attesting, Completing, End, Reset, Set
<1>3. ASSUME NEW val, Set("provenance", val), Keep, mem' = mem
      PROVE  AttestStep
  BY <1>1, <1>3 DEF AttestStep, Attesting, Completing, Set, Keep, SameMemory
<1>4. CASE m.found /\ ~ (m.pod.ann["provenance"] = "none" /\ m.signed)
  <2>1. NextAttest /\ Keep /\ mem' = mem
    BY <1>4 DEF HandleProvenanceAttachment
  <2>2. m.signed
    BY <1>1, <1>4 DEF Problem
  <2>3. Seen
    BY <1>1, <1>4, <2>1, <2>2 DEF Seen
  <2> QED BY <1>1, <2>1, <2>3 DEF AttestStep, SameMemory, Keep
<1>5. CASE m.found /\ m.pod.ann["provenance"] = "none" /\ m.signed
  BY <1>2, <1>3, <1>5 DEF HandleProvenanceAttachment
<1>6. CASE ~ m.found
  BY <1>2, <1>3, <1>6 DEF HandleProvenanceAttachment, NoPodPanics
<1> QED BY <1>4, <1>5, <1>6

LEMMA AttestSteps ==
  ASSUME TypeInv, KeepInv, ReadInv, CoverInv, [Next]_vars
  PROVE  AttestStep
<1>1. CASE worker' = worker
  <2>1. /\ Attesting' <=> Attesting
        /\ Completing' <=> Completing
        /\ ~ (Attesting /\ Completing)
        /\ SameMemory
        /\ UNCHANGED <<mem, order, i>>
    BY <1>1 DEF worker, Attesting, Completing, SameMemory
  <2> QED BY <2>1 DEF AttestStep
<1>2. CASE ~ Attesting' /\ ~ Completing'
  BY <1>2 DEF AttestStep
<1>3. CASE Reset \/ NextPod
  BY <1>2, <1>3 DEF Reset, NextPod, Attesting, Completing
<1>4. ASSUME NEW key, NEW val, Set(key, val),
             key # "provenance", key = "label" => val # "Completed"
      PROVE  AttestStep
  BY <1>2, <1>4 DEF Set, Attesting, Completing
<1>5. ASSUME NEW l \in {"PodInfo", "Signing", "Sbom", "Final"}, Goto(l)
      PROVE  AttestStep
  BY <1>2, <1>5 DEF Goto, Attesting, Completing
<1>6. CASE BeginFails \/ BeginIgnores \/ BeginSecures
  BY <1>1, <1>4, <1>6 DEF BeginFails, BeginIgnores, BeginSecures
<1>7. CASE LabelGet \/ LabelPatch \/ LabelConflict \/ LabelFails
  <2>1. CASE AfterLabel(snap) \/ AfterLabel(Cached(wfStore)) \/ AfterLabel(LabelPatched)
    BY <1>3, <1>5, <2>1 DEF AfterLabel, End
  <2>2. CASE pc = "LabelGet" /\ Goto("LabelPatch") /\ UNCHANGED <<order, mem>>
    BY <1>2, <2>2 DEF Goto, Attesting, Completing, AttestStep
  <2> QED BY <1>3, <1>7, <2>1, <2>2 DEF LabelGet, LabelPatch, LabelConflict, LabelFails, End
<1>8. CASE GetPodInfo
  BY <1>2, <1>3, <1>8 DEF GetPodInfo, End, Attesting, Completing
<1>9. CASE ReconcilePod
  BY <1>3, <1>4, <1>9 DEF ReconcilePod, PodMissing, End
<1>10. CASE HandleArtifactInfo \/ HandleArtifactSigning \/ HandleSBOMgeneration
             \/ UpdateFinalStatus
  BY <1>4, <1>5, <1>10 DEF HandleArtifactInfo, HandleArtifactSigning, AfterSigning,
     HandleSBOMgeneration, UpdateFinalStatus
<1>11. CASE ValidateAllPodsReconciled
  <2>1. CASE FirstProblem(mem) = "none" /\ Goto("Attest") /\ Keep /\ UNCHANGED mem
    BY <1>11, <2>1 DEF ValidateAllPodsReconciled, Goto, Keep, AttestStep, Attesting,
                       Completing
  <2> QED BY <1>3, <1>4, <1>11, <2>1 DEF ValidateAllPodsReconciled, End
<1>12. CASE Environment \/ Informers \/ Crash \/ UNCHANGED vars
  BY <1>1, <1>3, <1>12 DEF Environment, StartNode, LeaveUnknown, FinishPod, FinishNode,
     DeletePod, DeleteWorkflow, Enable, Quiet, Informers, SyncWorkflow, SyncPod, Resync,
     Crash, vars
<1> QED BY <1>6, <1>7, <1>8, <1>9, <1>10, <1>11, <1>12, AttestHandler, AttestAnnotation
        DEF Next, Worker, KeepInv
LEMMA CoverNext ==
  TypeInv /\ KeepInv /\ ReadInv /\ CoverInv /\ [Next]_vars => CoverInv'
<1> SUFFICES ASSUME TypeInv, KeepInv, ReadInv, CoverInv, [Next]_vars
             PROVE  CoverInv'
  OBVIOUS
<1>1. pc' = "Validate" => i' = 1
  <2>1. CASE worker' = worker
    BY <2>1 DEF worker, CoverInv
  <2>2. CASE pc' # "Validate" \/ NextPod
    BY <2>2 DEF NextPod
  <2>3. CASE Worker
    BY <2>2, <2>3 DEF Worker, BeginFails, BeginIgnores, BeginSecures, LabelGet, LabelPatch,
       LabelConflict, LabelFails, AfterLabel, GetPodInfo, ReconcilePod, PodMissing,
       AnnotationGet, AnnotationPatch, AnnotationPatchFails, AfterAnnotation,
       AnnotationFails, HandleArtifactInfo, HandleArtifactSigning, AfterSigning,
       HandleSBOMgeneration, UpdateFinalStatus, ValidateAllPodsReconciled,
       HandleProvenanceAttachment, NoPodPanics, NextAttest, Goto, Set, End, Reset, worker
  <2>4. CASE Environment \/ Informers \/ Crash \/ UNCHANGED vars
    BY <2>1, <2>4 DEF Environment, StartNode, LeaveUnknown, FinishPod, FinishNode,
       DeletePod, DeleteWorkflow, Enable, Quiet, Informers, SyncWorkflow, SyncPod, Resync,
       Crash, Reset, vars
  <2> QED BY <2>3, <2>4 DEF Next
<1>2. /\ order \in Seq(Pods) /\ Len(order) \in Nat /\ mem \in [Pods -> PodStatus]
      /\ \A n \in 1 .. Len(order) : order[n] \in Pods
  BY DEF TypeInv, MemoryOK
<1>3. ASSUME NEW n \in 1 .. Len(order), mem' = mem \/ SameMemory
      PROVE  /\ Problem(mem[order[n]]) = "none" => Problem(mem'[order[n]]) = "none"
             /\ mem[order[n]].pod.live => mem'[order[n]].pod.live
  <2>1. CASE mem' = mem
    BY <2>1
  <2>2. ASSUME NEW d, d.live, mem' = [mem EXCEPT ![order[i]] = [mem[order[i]] EXCEPT !.pod = d]]
        PROVE  /\ Problem(mem[order[n]]) = "none" => Problem(mem'[order[n]]) = "none"
               /\ mem[order[n]].pod.live => mem'[order[n]].pod.live
    <3>1. CASE order[n] = order[i]
      <4>1. mem'[order[n]] = [mem[order[n]] EXCEPT !.pod = d] /\ mem[order[n]] \in PodStatus
        BY <1>2, <2>2, <3>1
      <4>2. /\ mem'[order[n]].pod = d
            /\ mem'[order[n]].reconciled = mem[order[n]].reconciled
            /\ mem'[order[n]].found = mem[order[n]].found
            /\ mem'[order[n]].signed = mem[order[n]].signed
        BY <4>1 DEF PodStatus
      <4> QED BY <2>2, <4>2 DEF Problem
    <3>2. CASE order[n] # order[i]
      <4>1. mem'[order[n]] = mem[order[n]]
        BY <1>2, <2>2, <3>2
      <4> QED BY <4>1
    <3> QED BY <3>1, <3>2
  <2> QED BY <1>3, <2>1, <2>2 DEF SameMemory
<1>4. ASSUME NEW n \in 1 .. Len(order), Passed(n), order' = order,
             mem' = mem \/ SameMemory
      PROVE  Passed(n)'
  <2>1. PICK p \in Pods : p = order[n]
    BY <1>2
  <2>2. mem[p].pod.live /\ Kept(p, "provenance") /\ mem[p].pod # NoPod
    BY <1>4, <2>1 DEF Passed, NoPod
  <2>3. ~ Unborn(p)
    BY <2>2 DEF KeepInv, UnbornIsUnseen, Copies
  <2>4. Kept(p, "provenance")'
    BY <2>2, <2>3, KeptStays DEF AnnKeys
  <2>5. mem'[p].pod.live
    BY <1>3, <1>4, <2>1, <2>2
  <2> QED BY <1>4, <2>1, <2>4, <2>5 DEF Passed, Kept
<1>5. ASSUME NEW n \in 1 .. Len(order), n = i, Seen, order' = order
      PROVE  Passed(n)'
  <2>1. PICK p \in Pods : p = order[n]
    BY <1>2
  <2>2. mem'[p].pod.live /\ mem'[p].pod.ann["provenance"] # "none"
    BY <1>5, <2>1 DEF Seen
  <2>3. mem'[p].pod \in Copies(p)'
    BY DEF Copies
  <2>4. Kept(p, "provenance")'
    BY <2>2, <2>3, KeepNext DEF KeepInv, NothingLost, AnnKeys
  <2> QED BY <1>5, <2>1, <2>2, <2>4 DEF Passed, Kept
<1>6. CASE ~ Attesting' /\ ~ Completing'
  BY <1>1, <1>6 DEF CoverInv
<1>7. CASE /\ pc = "Validate" /\ FirstProblem(mem) = "none" /\ Attesting' /\ ~ Completing'
           /\ UNCHANGED <<mem, order, i>>
  <2>1. \A n \in 1 .. Len(order) : Problem(mem[order[n]]) = "none"
    BY <1>2, <1>7, NoProblemAnywhere
  <2>2. i = 1 /\ pc' # "Validate"
    BY <1>7 DEF CoverInv, Attesting
  <2> QED BY <1>7, <2>1, <2>2 DEF CoverInv
<1>8. CASE Completing /\ Completing' /\ ~ Attesting' /\ UNCHANGED <<mem, order, i>>
  <2>1. \A n \in 1 .. Len(order) : Problem(mem[order[n]]) = "none" /\ Passed(n)
    BY <1>8 DEF CoverInv
  <2>2. \A n \in 1 .. Len(order) : Passed(n)'
    BY <1>4, <1>8, <2>1
  <2> QED BY <1>1, <1>8, <2>1, <2>2 DEF CoverInv
<1>9. CASE /\ Attesting /\ Attesting' /\ ~ Completing' /\ SameMemory
           /\ UNCHANGED <<order, i>>
  <2>1. i \in 1 .. Len(order)
    BY <1>9 DEF Attesting, InLoop, Labels, TypeInv, ControlOK
  <2>2. \A n \in 1 .. Len(order) : Problem(mem'[order[n]]) = "none"
    BY <1>3, <1>9 DEF CoverInv
  <2>3. \A n \in 1 .. i - 1 : n \in 1 .. Len(order) /\ Passed(n)
    BY <1>2, <1>9, <2>1 DEF CoverInv
  <2>4. \A n \in 1 .. i - 1 : Passed(n)'
    BY <1>4, <1>9, <2>3
  <2> QED BY <1>1, <1>9, <2>2, <2>4 DEF CoverInv
<1>10. CASE Attesting /\ NextAttest /\ SameMemory /\ Seen /\ order' = order
  <2>1. i \in 1 .. Len(order)
    BY <1>10 DEF Attesting, InLoop, Labels, TypeInv, ControlOK
  <2>2. \A n \in 1 .. Len(order) : Problem(mem'[order[n]]) = "none"
    BY <1>3, <1>10 DEF CoverInv
  <2>3. \A n \in 1 .. i - 1 : n \in 1 .. Len(order) /\ Passed(n)
    BY <1>2, <1>10, <2>1 DEF CoverInv
  <2>4. \A n \in 1 .. i : Passed(n)'
    <3>1. \A n \in 1 .. i - 1 : Passed(n)'
      BY <1>4, <1>10, <2>3
    <3>2. \A n \in 1 .. Len(order) : n = i => Passed(n)'
      BY <1>5, <1>10
    <3>3. \A n \in 1 .. i : n \in 1 .. i - 1 \/ n = i
      BY <2>1
    <3> QED BY <2>1, <3>1, <3>2, <3>3
  <2>5. CASE i < Len(order)
    <3>1. pc' = "Attest" /\ i' = i + 1
      BY <1>10, <2>5 DEF NextAttest
    <3>2. \A n \in 1 .. i' - 1 : Passed(n)'
      BY <2>1, <2>4, <3>1
    <3> QED BY <1>10, <2>2, <3>1, <3>2 DEF CoverInv, Completing
  <2>6. CASE ~ i < Len(order)
    <3>1. ~ Attesting' /\ i = Len(order) /\ pc' = "LabelGet"
      BY <1>2, <1>10, <2>1, <2>6 DEF NextAttest, Set, Attesting
    <3> QED BY <1>10, <2>2, <2>4, <3>1 DEF CoverInv
  <2> QED BY <2>5, <2>6
<1> QED BY <1>6, <1>7, <1>8, <1>9, <1>10, AttestSteps DEF AttestStep

LEMMA CoverInvariant == Spec => []CoverInv
<1>1. Init => CoverInv
  BY DEF Init, CoverInv, Attesting, Completing
<1> QED BY <1>1, CoverNext, TypeInvariant, KeepInvariant, ReadInvariant, PTL DEF Spec

(* Where the workflow turns Completed.                                        *)
LEMMA CompletesByPatch ==
  ASSUME TypeInv, CoverInv, [Next]_vars,
         Stored(wfStore').status = "Completed", Stored(wfStore).status # "Completed"
  PROVE  \A p \in ToSet(order) :
           mem[p].pod.live /\ mem[p].reconciled /\ Kept(p, "provenance")
<1>1. Completing
  BY WorkflowSteps DEF WorkflowStep, Completing
<1>2. \A p \in ToSet(order) : \E n \in 1 .. Len(order) : p = order[n]
  BY DEF ToSet
<1>3. \A n \in 1 .. Len(order) : Passed(n) /\ mem[order[n]].reconciled
  BY <1>1 DEF CoverInv, Problem
<1> QED BY <1>2, <1>3 DEF Passed

(* AttestArtifacts leaves no pod out: at the write that marks the workflow    *)
(* Completed every pod that still exists says what became of its provenance.  *)
THEOREM CompletionCovers == Spec => CompletionCoversPods
<1>1. TypeInv /\ CoverInv /\ [Next]_vars =>
        [ (Stored(wfStore').status = "Completed" /\ Stored(wfStore).status # "Completed")
            => \A p \in ToSet(order) :
                 Stored(podStore[p]).live
                   => Stored(podStore[p]).ann["provenance"] # "none" ]_vars
  BY CompletesByPatch DEF Kept
<1> QED BY <1>1, TypeInvariant, CoverInvariant, PTL DEF Spec, CompletionCoversPods

(* The workflow is marked Completed only by a reconcile that holds the pod of *)
(* every node it found and has closed it.                                     *)
THEOREM CompletedSaw == Spec => CompletedSawEveryPod
<1>1. TypeInv /\ CoverInv /\ [Next]_vars =>
        [ (Stored(wfStore').status = "Completed" /\ Stored(wfStore).status # "Completed")
            => \A p \in ToSet(order) : mem[p].pod.live /\ mem[p].reconciled ]_vars
  BY CompletesByPatch
<1> QED BY <1>1, TypeInvariant, CoverInvariant, PTL DEF Spec, CompletedSawEveryPod
==============================================================================
