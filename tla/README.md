# A verification development of argo-supply-chain-security

The repository is a Kubernetes controller. For every Argo workflow labelled
`argo.slsa.io/enable: "true"` it looks for the OCI images the workflow's pods
have built, signs them, attaches SBOMs and provenance, and keeps its progress
in annotations of the pods (`argo.slsa.io/status`, `artifacts`, `signed`,
`sbom`, `provenance`) and in one label of the workflow (`argo.slsa.io/status`).
It stores nothing else: after a crash, a stale read or a failed call, those
strings are all it has.

## The system

| component | state | operations | interacts with |
|---|---|---|---|
| workflow controller (`internal/controller`) | none of its own; workqueue and caches of controller-runtime | `Reconcile`, `updateWorkflowStatus`, `getConfigMap`, `SetupWithManager` | is called for every Workflow event; calls the pod reconciler and the status updater |
| workflow pod reconciler (`internal/workflow-pod-reconciler`) | `PodsStatus`, rebuilt at every reconcile | `GetPodInfo`, `Reconcile`, `validateAllPodsReconciled`, `AttestArtifacts`, and per pod `reconcilePod`, `handleArtifactInfo`, `handleArtifactSigning`, `handleSBOMgeneration`, `updateFinalStatus`, `handleProveneceAttachment` | Pods through the cached client, signer, SBOM, provenance, status updater |
| status updater (`pkg/statusupdater`) | none | `PatchAnnotations`, `PatchLabels` | cached Get, Patch of the API server |
| signing (`pkg/signer`, and `internal/pkg/cosign/{payload,fulcio,rekor}` under it) | layers behind the tags of an image; entries of a transparency log | `SignWithConfigOpts`, `AttestWithConfigOpts` | secrets, Fulcio, Rekor, registry |
| SBOM (`pkg/sbom`) | none | `GenerateSBOMWithConfigOpts` | registry, syft, `AttestOci` per platform |
| provenance (`pkg/provenance`) | deletes labels from the in-memory Workflow it describes | `GenerateSlsaV1Provenance` | called once per signed pod by `AttestArtifacts` |
| configuration (`pkg/config`) | the config map, read at every reconcile | `New` | |
| registry authentication (`pkg/auth`, `cosignauth`, `crane`) | none; secrets are listed at every reconcile | `GetAuthnKeychain` | secrets of the controller's and the workflow's namespace; every call to a registry |
| process start (`cmd/main.go`, `config/manager`) | the lease `ea2e965f.argo.slsa.io` | flags, set-up, `mgr.Start` | kubelet, Deployment, leader election |
| Fulcio roots (`fulcio/fulcioroots`) | two pools and an error, initialised once | `Get`, `GetIntermediates`, `ReInit` | tests only |
| timestamp authority, DSSE attestor, ephemeral signer, size check (`pkg/signer/internal/...`) | none | | nothing in the program calls them |

What makes it hard:

* **Stale reads.** The manager's client reads informer caches and writes to the
  API server. Workflow and Pods have separate caches, each behind by its own
  amount, and the "fresh copy" of `patchMetadata` comes from them as well.
* **Crashes and failing calls** between any two of the calls: published but not
  annotated, logged but not published, annotated but not labelled.
* **Waiting.** Only Workflow events wake the controller up (pods are not
  watched), and `RequeueAfter: 0` is no requeue.
* **Other writers**: the Argo controller adds nodes and finishes them while a
  reconcile runs, pods are collected, other people sign the same image.

## Modules

| module | models |
|---|---|
| `KubeStore` | one object as the controller sees it: the versions from the cached to the stored one. Operators only, with their lemmas. |
| `Reconciler` | the controller and the pod reconciler for one workflow, beside the Argo controller, the kubelet, the user, the informers and faults |
| `SigningLedger` | what the controller promises, abstractly: pods are signed while open, closed once, `Completed` only when signed, and one verdict is given at the end |
| `MCReconciler` | fault budgets for the instances of `Reconciler` |
| `ReconcilerProofs` | theorems about `Reconciler`: types, signatures, no workflow forgotten, and what the annotations of the pods record, whatever the caches show |
| `VerdictProofs` | what the Error label of a workflow tells about its pods, whatever the caches show and whatever fails |
| `StatusUpdater` | `patchMetadata` attempt by attempt, beside other writers of the object |
| `StatusUpdaterProofs` | theorems about `StatusUpdater` |
| `MetadataCall` | what a caller of `patchMetadata` is promised: one instant at which it takes effect, or none |
| `ArtifactSigner` | what a call of the signer, the SBOM generator or the attestor does to the log and the registry, step by step, with the credentials it finds |
| `ArtifactSignerProofs` | theorems about `ArtifactSigner` |
| `Provenance`, `MCProvenance` | which image a pod's outputs name, and what the statements say of the Workflow they are made from, across stale copies and repeated reconciles; its small inputs |
| `ProvenanceProofs` | theorems about `Provenance`, for parameter lists of any length |
| `Manager` | the processes of the controller: set-up, readiness, lease, rolling update, exit |
| `ManagerProofs` | one process is active, for any number of them |
| `TrustRoots`, `MCTrustRoots` | the package variables of `fulcioroots` between goroutines; its certificates |
| `TrustRootsProofs` | answers come from one reading, for any number of goroutines |

`Reconciler` uses the other two components through what a caller sees of them.
One call of `patchMetadata` is there one Get and one outcome of Patch: nil,
"conflict or not found" with nothing changed, or another error with the patch
applied or not. `MetadataCall` states that abstractly and `StatusUpdater`
implements it (`ImplementsCall`, with `ConflictChangedNothing` and
`SuccessWasStored` as its two most used consequences). A call of the signer succeeds
with a publication or fails with or without one, which `ArtifactSigner` shows
in detail (`SuccessIsPublished`, and the lost answers of `Upload` and
`WriteTag`). What `Reconciler` has as a constant, `WithArtifact`, and as a set
of subjects is computed in `Provenance`. That it has a single worker, which
only a crash replaces, is `Manager`'s `OneActive`.

### Reconciler

`wfStore` and `podStore[p]` are the versions of the Workflow and of each Pod;
`Cached` is what `Get` returns and `Stored` what `Patch` applies to. `published`
and `attestations` are the registry. `queued` is the workqueue with its one key.
The worker is `pc`, `snap` (the in-memory Workflow), `order` and `i` (the loop
over `PodsStatus`), `mem[p]` (the podStatus) and `patch` (the arguments of the
pending `patchMetadata`). An action runs from one remote call of the handler to
the next, so anything may happen between them:

    BeginFails/Ignores/Secures -> LabelGet -> LabelPatch|Conflict|Fails -> GetPodInfo
      -> per pod: ReconcilePod -> Annotation* -> HandleArtifactInfo -> Annotation*
           -> HandleArtifactSigning -> Annotation* -> [HandleSBOMgeneration -> Annotation*]
           -> UpdateFinalStatus -> Annotation*
      -> ValidateAllPodsReconciled -> per pod: HandleProvenanceAttachment -> Annotation*
      -> LabelGet -> ... -> End

`End(requeue)` is the return of `Reconcile`. A panic is recovered by
controller-runtime and requeued. A returned error requeues with a backoff,
which is left out: the queue has no clock.

Abstractions, all named in the modules:

* `Pending` and `Running` nodes are one phase, and so are `Skipped` and
  `Omitted`: the code never tells them apart.
* Whether a pod's output parameters name an image with a digest is the constant
  `WithArtifact` (`Provenance` reads the parameters); outputs are there when the
  node is `Succeeded`.
* One `Absent` node is a key that `status.nodes` does not have yet.
* An artifact and its pod have one name. Two pods building the same digest
  would share a tag, which is `ArtifactSigner`'s subject.
* One controller process is active (`Manager`), and `MaxConcurrentReconciles` is
  left at 1.
* A patch that sets the value already stored makes no version, as at the API
  server (`KubeStore!Write`).
* `FreshReads = TRUE` makes every read wait for its informer. The cached client
  does not do that; only the run `ledger` assumes it, to say which of the
  promises of `SigningLedger` rest on it, and no theorem does.

### ArtifactSigner

`registry` holds the layers behind the tags `<<image, "sig">>` and
`<<image, "att">>`; `log` is the transparency log. A call picks its operation
and the configuration of that reconcile, then takes for each image in `todo` the
steps Syft (SBOM only), Signer, Upload (with transparency), Read and Write. A
layer records the key, the certificate (its own id when keyless) and the index
of its bundle. Reading the tag and writing it are two steps, because cosign
appends to what it read; the other signer may write in between.

Before that, `Begin` chooses what listing the secrets of the two namespaces
returned (nothing, an error, a secret that cannot be parsed, or one that lets
the call pull or push), what the environment holds for the registry, and whether
the image is there. `Keychain` is what `getAuthFromSecrets` makes of the secrets,
and `Resolve` puts the keychains of Docker, Google, ECR, ACR and Alibaba before
it, as `GetAuthnKeychain` does: the first that knows the registry answers,
whatever its credentials may do. Every step that reaches the registry asks `Can`.

`SignOci` looks the image up before it signs, but only an error other than "not
found" stops it (`EntityReachable`): an image that is not there is signed as an
unknown entity, whose tag is read with cosign's default credentials
(`TagReadable`) and written with the call's own. `AttestOci` looks nothing up. The dupe detector finds an
earlier signature of the same payload and key; an attestation is a freshly
signed envelope whose layer has no signature of its own, so it never has a
duplicate (`IsDuplicate`) and every retry adds one.

### StatusUpdater

`store` has the object's versions; the call is `pc`, `attempt`, the caller's
object and the copy the patch is computed from. `GetInternalParams` is the one
other thing the program does to the caller's object: it deletes the
controller's own keys from its map, between two calls.

### Provenance

`outputs` and `arguments` are what the nodes and the specification hold, `store`
the versions of the Workflow's labels, end and outputs, `podStore` those of the
annotations of each pod. `wf` is the in-memory Workflow, `read` the same as it
was before statements were made from it, and `mem[p]` the podStatus with the
copy of the pod it holds. The worker goes

    Begin -> per pod: ReconcilePod -> MarkInProgress -> HandleArtifactInfo
                        -> HandleArtifactSigning -> AnnotateSigned -> UpdateFinalStatus
      -> ValidateAllPodsReconciled -> per pod: HandleProvenanceAttachment -> AnnotateProvenance
      -> Complete -> UpdateWorkflowStatus

Each read may return an older version of the pod or of the Workflow. Every patch
may fail, applied or not, and then ends the reconcile as the code does, with the
caches kept; the patch of the final label may be lost, after which the next
reconcile starts over. A crash does the same and has the caches listed anew.
`HandleArtifactInfo` takes only `found` from an annotation that `getPod` had not
seen (pod_status.go:172), so `info` can stay empty for a pod that has a
reference. The pods are done from the start and no SBOM is made; how pods come
and go is `Reconciler`'s subject. As nobody else writes the annotations named
here, Get and Patch of an annotation are one step.

### Manager

`pc[m]` is the process in a pod: waiting for the kubelet, in `SetupWithManager`,
started without the lease, leading, or stopping after a SIGTERM. `holder`, `age`
and `changed` are client-go's leader election, whose identity is new in every
process and whose clocks are ticks: a leader renews or ends within
`RenewDeadline`, a candidate takes a lease it has seen unchanged for
`LeaseDuration`. The answer to a renewal is taken to arrive within a tick; where
it may take as long as the difference of the two durations, client-go itself
promises no exclusion. A process that is stopping no longer ends at a lost
lease, so `OneActive` leaves out one that was told to stop *and* lost its
connection. The model has `--leader-elect`, as shipped; the flag's default is
off, and then the two processes of a rolling update both reconcile.

### TrustRoots

`once`, `globals` and the goroutines' `pc`, `todo`, `got`: the three variables
are assigned and read one by one, in any order, since the return statements read
them outside the once. `ReInit` has no guard in the code and none here: a
goroutine may call it while others are anywhere, also before the first `Get`.
`raced` records that this happened. The program does not do it, and `OneReading`
is stated of behaviours where it did not: there a `ReInit` starts with the roots
initialised and nobody in a call, as its comment asks, and no `Get` starts while
it runs.

## Runs

Every bound is a constant: the pods, `MaxLag` (versions an informer may be
behind), `MaxFaults` (crashes, failing calls, conflicts, deletions), `MaxCalls`,
`MaxOthers`, `MaxReInits`. Two pods are enough for everything that
relates pods, since the handlers treat them one at a time and only the loop and
the verdict combine them. A cache one version behind already separates a read
from the write it misses; `deep_lag` adds a second version. One crash and one
failing call between any two steps reach every combination of annotations the
next reconcile can find. The two parameter lists of `provenance` hold a match that
a tag overwrites, and a tag overwritten by two digests of which the last counts,
with an unmatched name at the end; the two pods take them in every combination.
Its one fault is a crash or a failing call between any two steps, and the lag adds
what the next reconcile does not see. Two processes are all a Deployment with one
replica makes, two goroutines all a once tells apart.

| run | instance | shows |
|---|---|---|
| `lagging` | 2 pods, 1 artifact, lag 1, 1 crash | `CompletedPodIsSigned`, `PublishedIsRecorded`, `CompletionCoversPods` |
| `onepod` | 1 pod, SBOM on, odd phases, every fault once | `TypeOK`, `PublishedIsRecorded`, `AttachedIsAttested`, `CompletedSawEveryPod`, `ErrorHasFailedPod` |
| `deep_lag` | 1 pod, lag 2, 1 crash and 1 failing call, fair | `QuiescentIsDecided`, `EventuallyDecided` |
| `ledger` | 2 artifacts, reads wait for the informer, 1 crash, fair | refinement of `SigningLedger`, `EventuallySettled`, both on that assumption |
| `updater` | 2 keys, 2 values, lag 2, any number of conflicts, fair | refinement of `MetadataCall`, `OnlyOwnKeyChanges`, `ConflictChangedNothing`, `SuccessWasStored`, `CallReturns` |
| `signer` | 2 platforms, 4 signers, 4 kinds of secrets, credentials of the environment or none, an image that is there or not, 2 calls, 2 faults, 1 other layer | `LoggedBeforePublished`, `SuccessIsPublished`, `RetriesAreNotDuplicated`, `OnlyFaultsFail`, `DeniedIsNotLogged`, `TypeOK` |
| `provenance` | 2 pods, 2 parameter lists, lag 1 of pods and Workflow, 1 fault | `SignsNamedReference`, `DescribesWhatWasRead`, `RepeatsAreExplained` |
| `manager` | 2 processes, any number of updates, 2 faults, fair | `OneActive`, `UpdatesComplete`, `AlwaysActiveAgain` |
| `roots` | 2 goroutines, 5 sources, 1 `ReInit` at any time | `OneReading` |

`onepod` does not check deadlock because its workflow may be deleted, after
which there is nothing to do, `signer` because its calls are bounded, and
`provenance` because a completed reconcile is its end. The other runs check it,
and the fair ones are fair only in what the next section names.

Three runs show that `Reconciler` breaks what a comment of the code says;
`PROJECT.json` quotes the lines.

| run | what TLC finds |
|---|---|
| `signing_error` | a pod whose signing failed counts as signed at the next reconcile, so its workflow becomes `Completed` |
| `late_node` | a node that starts after the others were reconciled is never processed |
| `stale_pod` | the cached pod is still running when the cached workflow says its node succeeded: skipped for good |

The models show more disagreements, which have no run of their own:

* A conflict on the final label ends the reconcile without a requeue:
  `updateWorkflowStatus` answers it with `Requeue: true` and a nil error, and its
  callers return that result only with an error. With one conflict in the
  budget `QuiescentIsDecided` fails; only a resync, hours later, would repair it
  (`Resync` is in the model, without fairness).
* An `artifacts` annotation seen first by `patchMetadata`'s Get, after a lost patch or
  by lag alone, sets `artifactsFound` without `artifactInfo` (`HandleArtifactInfo`).
  An unsigned pod is then signed under an empty reference, whose error is recorded; of
  a signed one the image is missing from the subjects of the other pods' statements
  (`Subjects`), and its own statement is not made, because the attestor refuses the
  empty reference (`Attest`). `SignsNamedReference` holds all the same.
* A patch is not sent, and nil returned, when the cached copy still has the value,
  which another patch of the controller may have replaced since: the copy that
  updater.go:25 calls fresh comes from the informer. `SuccessWasStored` therefore
  speaks of the version the cache returned.
* A statement is made again from a stale copy of its pod, or when the patch of its
  annotation and the final label fail (`RepeatsAreExplained` counts the second kind;
  the first has no bound but the lag).
* Credentials of the environment come before the secrets: a node that may only pull
  hides a secret that may push, and the call fails (`Resolve`).
* An image the registry does not have is signed and logged all the same
  (`EntityReachable`).
* The KMS signer is never asked for: `SignOci` and `AttestOci` pass
  `getKmsSigner = false`, so a KMS reference is looked up as a secret and every
  call fails (`SigningKey`).
* One secret that cannot be parsed loses the secrets of both namespaces, without
  a word (`Keychain`).
* `strings.HasPrefix("OCI", param.Name)` has its arguments the other way round:
  `OCI-image` is no match and the empty name is one (`Matches`).
* A reconcile started before the cache has the final label of the workflow sets
  it back to `In-Progress` (`ToSecure` and `LabelGet` both read the cache); the
  controller does not leave it so (`QuiescentIsDecided`), but with a cache that
  is always behind and resyncs without end the label may go back and forth. Only if reads
  waited for the informer would it stay (`EventuallySettled`).
* A node of type Pod in phase Skipped or Omitted has no pod, and the
  attestation dereferences it: a panic at every reconcile. Argo gives such nodes
  another type in most cases. `OddPhases` puts them into `onepod`.
* With the `kms` signer and no `kms.kmsref` the key reference is empty, which
  the code takes for keyless signing (`KeyRef`).
* Only a Docker manifest list counts as multi-platform. With
  `Layout = "oci index"`, `SuccessIsPublished` fails: the call succeeds
  with an SBOM of the index and none of any platform.

## Fairness

`Reconciler!Fairness` is weak fairness of the worker goroutine, which blocks
only in calls that return, and of each watch. Nothing is assumed of the Argo
controller, the kubelet, the user, the resync or the faults; `EventuallyDecided` and
`EventuallySettled` therefore speak of workflows whose nodes do finish. `StatusUpdater!FairSpec` is
weak fairness of the call and of the watch; conflicts may go on for ever, and
the call returns because of its three attempts. `Manager!Fairness` lets every
process, the kubelet, the Deployment and time go on and connections come back;
that a ConfigMap stays and that updates stop are hypotheses of its properties.

## Proofs

The prover establishes the following for every value of the constants that the
named assumptions allow: any finite set of pods, any lag of at least one, any
budget of faults. Two theorems have a hypothesis of their own, given with them:
`SleepsDecided` (no refused patch) and `SuccessPublishesAll` (no OCI index). Each
rests on an inductive invariant that TLC checked on the runs' instances before.

### KubeStore, StatusUpdater

* `ReadIsVersion`, `WriteAddsVersion`, `DeliveryKeepsVersions`: an invariant of
  every version of an object survives reads, deliveries and the relisting after
  a crash, and a write only adds its own version. The other proofs rest on them,
  and on `LeastPosition`, which stands in for induction wherever a loop or a list
  has no bound.
* `OwnKeyOnly`, `SuccessMeansStored`: from `UpdaterInv`, by which the object to
  be patched differs from its copy in its own key and nowhere else.
* `RefusedMeansUnchanged`: from `AppliedIsReported`, by which an attempt that was
  applied is the last one and decides the result.
* `Refinement`: every step of `StatusUpdater` is a step of `MetadataCall` or
  leaves its variables alone. `ApplyIsPut` is the heart of it: applying the patch
  computed from an old copy sets the one key in whatever is stored now. Keys the
  caller has deleted from its object do not show, because the copy is taken
  after the Get.

### Reconciler, with any lag and any faults

* `TypeCorrect`: `TypeInv` splits `TypeOK` into stores, memory and control; it is
  inductive with the conjunct that bounds `i` in the labels of the two loops.
* `CompletedIsSigned`: a pod stored as `Completed` is signed. The code decides
  from copies, so `SignedInv` says it of every version a read can return, of
  the copy in memory, of a pending patch (`PatchHonest`) and of the flag
  (`FlagHonest`). The last is the interesting part: `Load` makes the flag true
  too early, and the proof goes through only because `HandleArtifactSigning`
  always stands between `Load` and `UpdateFinalStatus`.
* `PublishedStaysRecorded`: the record of a published signature stays. `KeepInv`
  says that no annotation any copy shows was ever taken off the stored pod: a
  patch is computed between a copy and the same copy with one key set, so
  however stale it is, it cannot unset another key. It needs that a pod is never made twice
  (`PodsAfterNodes`), for then nobody can have seen another pod of that name
  (`UnbornIsUnseen`). `RecordInv` adds that the artifacts annotation has one
  value it may ever take, because the outputs of a node that succeeded do not
  change, and that a reference in memory is stored already or is the pending
  patch.
* `AttachedStaysAttested`: `AttestedInv` says it of every version and of the
  pending patch; attestations are never deleted.
* `CompletionCovers`, `CompletedSaw`: while `AttestArtifacts` runs or the final label
  is pending, no pod in the loop has a problem, and those already passed carry
  their annotation for as long as they exist (`CoverInv`). `Kept` is
  what makes this stable: it needs `KeepInv` again.
* `SleepsDecided`: a workflow whose nodes have finished is not left asleep
  without a verdict. `WakeInv` says where the wake-up is while the queue is empty
  and the cache up to date: a reconcile is under way that has seen all nodes
  finished and every pod behind it reconciled, so that it cannot end without
  either a label or a requeue. Hypothesis `NoConflicts` (a budget of zero for
  refused patches), which is needed: a refused final label is not retried (see
  the disagreements above). Crashes, failing calls, deletions and any lag are
  allowed.

* `ErrorNamesPod` (`VerdictProofs`): a reconcile that labels the workflow as Error
  holds a copy of a pod marked Error, or something failed while it attached the
  provenance of artifacts that are all signed. It is the converse of
  `CompletedIsSigned`, and stale copies are what makes it hard: a pod whose
  signing failed is found, unsigned and in some copy not yet closed. The
  invariant has these parts:
  - `LifeInv`: along the versions of a pod, what one shows of its phase and of the
    reconciler's beginning, the later ones show too (`Ascending`), so that an older
    copy cannot say more than a newer one;
  - `SnapInv`: a last phase of a node in any copy of the Workflow is the stored one;
  - `VersionsOK`: a pod with an artifact that the reconciler has begun with is one
    that no later copy makes it skip (`Ready`), a version closed as `Completed` has
    its signed annotation, and one closed as `Skipped` has no reference;
  - `MemInv`: the pod the worker is at carries flags that say which steps it has
    passed (`WorkOK`), every other pod in memory that has a reference is reconciled
    and either signed or marked Error in the copy held (`RestOK`), and those still to come
    are unread;
  - `ErrorInv`: a pending Error label has the pod, or the fault, that excuses it.

### ArtifactSigner

* `SignerIsTyped`: the loop, the layer in the making and the counters.
* `PublishedIsLogged`: with transparency a layer reaches the registry only with
  its entry (`LogInv`); entries are never taken out.
* `SuccessPublishesAll`: as long as no image has failed, each is published or
  still in `todo` (`DoneInv`). Hypothesis `Layout # "oci index"`, which is where
  the code itself breaks the property (see the disagreements above).
* `RetriesDoNotDuplicate`: what was read of a tag is still behind it when it is
  written (`BaseInv`), because other signers only add; only signatures are behind
  a signature tag (`SigInv`); the layer is added to the stored ones only if none
  of those is equal to it. Attestations are left out, and rightly so.
* `OnlyFaultsMakeErrors` (`FaultInv`, `KeychainRights`, `ChainRights`): where the
  secrets that could be listed all may push and the environment has nothing lesser
  before them, the multi-keychain may push, whichever namespace could not be listed;
  then no step fails by itself.
* `DeniedStaysUnlogged` (`ReachInv`): rights are settled at `Begin`, and the lookup
  of an image that is there stands before the signature and the log. An image that
  is not there passes the lookup, which is why the property leaves it out.

### Provenance

* `ExtractIsLastMatch`, `CollectsLast`: what the two loops of the code compute for
  a list of any length. The library's induction theorems take an operator,
  which the provers cannot instantiate, so the proof goes another way: a closed form
  (the last match; the last value of every name) satisfies the equation that
  defines the fold, hence the equation has a solution; and a solution cannot differ
  from it at a least position, because the equation carries agreement from each
  position to the next (`AgreeToTheEnd`).
* `SignedIsNamed`: every version of a pod's annotations names the pod's own
  reference or none (`GoodAnn`), and so does what a reconcile holds in memory,
  loaded, computed or half loaded (`GoodMem`). `PodsStep` shows that no read, patch,
  lost patch or crash leaves these sets. A published digest is then the named one,
  because the signer refuses the empty reference.
* `StatementsDescribe`: `CopyInv` says that the Workflow in memory differs from the
  one that was read in the controller's own labels only, which `StatementDescribes`
  shows to be enough.
* `RepeatsCostFaults`: every statement that was not made from a stale copy belongs to
  a pod whose annotation is stored, is the one whose annotation is pending, or has
  cost a crash or a failing call (`CountInv`). It rests on the provenance annotation
  never being taken back (`KeepsProvenance`), and on a copy that shows it not being
  followed by another statement (`CountMade`).

### Manager, TrustRoots

* `OneManagerActive`: for any number of processes and any durations in the order
  client-go asks for. `LeaderInv`: a leader is at most `RenewDeadline` old and
  holds the lease. `CandidateInv`: what a candidate saw of the lease is no older
  than its last renewal, so its clock is behind the leader's, which gives up
  first.
* `AnswersAgree`: for any number of goroutines and calls of `ReInit`, as long as none
  of these ran before or beside a `Get`. `OnceInv`: one goroutine fills the three
  variables and nobody reads meanwhile. `CopyInv`: what is assigned, and what each
  reader has copied so far, is of one reading. `RaceStays` makes the condition usable
  in an induction: a race is not taken back.

### Only model-checked

Liveness and everything with `ENABLED` is outside the prover's reach:
`EventuallyDecided`, `EventuallySettled`, `CallReturns`, `UpdatesComplete`,
`AlwaysActiveAgain`. `ImplementsLedger` is a refinement that holds only where
reads wait for the informer; as the program's client does not make them wait, it
is checked and not proved.

## Not modelled

The timestamp authority client and signer, the DSSE attestor, the ephemeral
signer and the size check: stateless library code that no part of the program
and no configuration reaches. Certificates as such, constant texts of the
provenance, the text of SBOMs, logging, backoff times, metrics and TLS options
are left out.

## Plan

Every safety property the passing runs check is proved but `ImplementsLedger`.
What is left:

1. `SigningLedger` without `FreshReads`: which of its steps survive a lag, so that
   the refinement can be stated of the client the program uses, and proved.
2. The composition of `Reconciler` with `ArtifactSigner` and `Provenance`, each of
   which it now takes as a constant or an outcome.
3. `Reconciler`: two workflows and one queue; configuration that changes between
   reconciles; two pods with one digest, composed with `ArtifactSigner`.
