---------------------------- MODULE ArtifactSigner ---------------------------
(* What the controller does to one image of a pod: SignWithConfigOpts,        *)
(* GenerateSBOMWithConfigOpts and AttestWithConfigOpts, down to the           *)
(* transparency log and the registry. A signature or attestation is a layer   *)
(* behind a tag of the image; cosign publishes by reading the tag's layers    *)
(* and writing them back with one more. Other signers use the same tags, a    *)
(* call may fail at any remote step, and the process may crash.               *)
EXTENDS Naturals, FiniteSets, SequencesExt

CONSTANTS
  Platforms,   \* the images of a multi-platform image
  Layout,      \* the manifest: of one image, a Docker list or an OCI index
  SignerTypes, \* values of artifacts.signer in the config map, or "absent"
  KmsRefs,     \* values of kms.kmsref: "none" or "url"
  Secrets,     \* what a namespace may hold for the registry
  Ambient,     \* what credentials of the environment allow, or "absent"
  Anonymous,   \* what the registry lets anybody do
  MaxCalls,    \* bound: calls of the three operations
  MaxFaults,   \* bound: failing remote steps and crashes
  MaxOthers    \* bound: layers other signers write

Known == {"cosign", "kms", "fulcio"}
Operations == {"sign", "sbom", "provenance"}
Images == {"image"} \cup Platforms
Kinds == {"sig", "att"}
Rights == {"none", "pull", "push"}
Namespaces == <<"controller", "workflow">>

ASSUME SignerAssumption ==
  /\ IsFiniteSet(Platforms) /\ Platforms # {} /\ "image" \notin Platforms
  /\ Layout \in {"one image", "docker list", "oci index"}
  /\ SignerTypes \subseteq Known \cup {"absent", "other"}
  /\ KmsRefs \subseteq {"none", "url"}
  /\ Secrets \subseteq {"absent", "broken"} \cup Rights
  /\ Ambient \subseteq {"absent"} \cup Rights
  /\ Anonymous \in Rights
  /\ MaxCalls \in Nat /\ MaxFaults \in Nat /\ MaxOthers \in Nat

VARIABLES
  registry,  \* the layers behind every tag
  log,       \* the entries of the transparency log
  pc,        \* where the current call is
  call,      \* its operation and configuration
  todo,      \* the images it still has to sign or attest
  failed,    \* whether one of them failed
  layer,     \* the signature or attestation being made
  base,      \* the layers of the tag when they were read
  result,    \* what the last call returned
  disturbed, \* whether a fault hit it
  made, calls, faults, others \* counters: layers, calls, faults, other writes

service == <<registry, log>>
work == <<pc, call, todo, failed, layer, base, result, disturbed>>
counters == <<made, calls, faults, others>>
vars == <<service, work, counters>>
------------------------------------------------------------------------------
(* Configuration, keys and targets.                                           *)

\* config.New: an absent signer is the cosign key.
Configure(signer, kms, tlog) ==
  [type |-> IF signer = "absent" THEN "cosign" ELSE signer,
   kms |-> kms, tlog |-> tlog]
Configs == {Configure(s, k, t) : s \in SignerTypes, k \in KmsRefs, t \in BOOLEAN}

\* The key reference; "none" is the empty string.
KeyRef(cfg) == CASE cfg.type = "cosign" -> "secret"
                 [] cfg.type = "kms" -> cfg.kms
                 [] OTHER -> "none"

\* Mutant: SignerFromKeyOpts asks for the other kind of signer.
GetKmsSignerAlways == TRUE
\* SignOci and AttestOci both pass getKmsSigner = false.
GetKmsSigner == FALSE

\* SignerFromKeyOpts: the key a reference leads to, "bad" when to none. A
\* secret is looked up as k8s://namespace/name, a KMS key by its provider.
SigningKey(ref) ==
  CASE ref = "none" -> "keyless"
    [] ref = "secret" /\ ~ GetKmsSigner -> "secret"
    [] ref = "url" /\ GetKmsSigner -> "kms"
    [] OTHER -> "bad"

\* Which namespaces could be listed and hold a labelled secret.
Listed(found) ==
  {n \in DOMAIN Namespaces :
     Namespaces[n] \in DOMAIN found /\ found[Namespaces[n]] # "absent"}
Unreadable(found) == \E ns \in DOMAIN found : found[ns] = "broken"
\* The keychain answers with the first secret that names the registry.
FirstOf(found) ==
  IF Listed(found) = {} THEN Anonymous ELSE found[Namespaces[Min(Listed(found))]]

\* Mutant: a namespace whose secrets cannot be listed loses the others too.
KeychainStrict(found) ==
  IF Unreadable(found) \/ Cardinality(DOMAIN found) < Len(Namespaces)
  THEN Anonymous ELSE FirstOf(found)
\* getAuthFromSecrets: a namespace that cannot be listed is passed over, while
\* a secret that cannot be parsed loses the secrets of both.
Keychain(found) == IF Unreadable(found) THEN Anonymous ELSE FirstOf(found)
\* GetAuthnKeychain: the first keychain that knows the registry answers, and
\* those of the environment (Docker, Google, ECR, ACR, Alibaba) come before the
\* secrets, whatever their credentials may do.
Resolve(ambient, found) == IF ambient = "absent" THEN Keychain(found) ELSE ambient
\* The secrets that were listed name the registry and all may push, and so may
\* what the environment puts before them.
Usable(ambient, found) ==
  /\ {found[ns] : ns \in DOMAIN found} \ {"absent"} = {"push"}
  /\ ambient \in {"absent", "push"}
Listings == UNION {[listed -> Secrets] : listed \in SUBSET ToSet(Namespaces)}
\* Cosign's own default is the Docker keychain alone.
Defaults(ambient) == {ambient, Anonymous} \ {"absent"}
Credentials(ambient, found) ==
  {[rights |-> Resolve(ambient, found), usable |-> Usable(ambient, found),
    default |-> rights] : rights \in Defaults(ambient)}
Keychains == UNION {UNION {Credentials(a, found) : found \in Listings} : a \in Ambient}
Allows(rights, right) == rights = "push" \/ rights = right
Can(right) == Allows(call.rights, right)

\* Mutant: the image is not looked up, as in AttestOci.
EntityReachableAlways == TRUE
\* SignOci looks the image up with its keychain before it signs. Only an answer
\* other than "not found" stops it: an image that is not there is signed as an
\* unknown entity.
EntityReachable == call.there => Can("pull")
\* The layers behind a tag are read with the same keychain, but those of an
\* unknown entity, which SignOci makes without options, with cosign's default.
TagReadable == IF call.op = "sign" /\ ~ call.there THEN Allows(call.default, "pull")
                                                  ELSE Can("pull")

\* GenerateSBOMforOCI: only a Docker manifest list is multi-platform.
IsMultiPlatform == Layout = "docker list"
Targets(op) == IF op = "sbom" /\ IsMultiPlatform THEN SetToSeq(Platforms)
                                                 ELSE <<"image">>

Tag(op, image) == <<image, IF op = "sign" THEN "sig" ELSE "att">>
Tags == Images \X Kinds
Here == Tag(call.op, Head(todo))

NoCall == [op |-> "none", cfg |-> Configure("absent", "none", FALSE),
           rights |-> "none", usable |-> FALSE, default |-> "none",
           there |-> FALSE, entries |-> 0]
NewLayer(id, key, payload) ==
  [id |-> id, key |-> key, payload |-> payload, cert |-> 0, bundle |-> 0]
NoLayer == NewLayer(0, "none", "none")
Own(l) == l.key # "other"

\* The fulcio wrapper: a keyless signature carries the certificate of its key.
WithCert(l) == IF l.key = "keyless" THEN [l EXCEPT !.cert = l.id] ELSE l

\* Mutant: rekor wraps the payload signer and fulcio wraps rekor.
LogEntryUncertified(l) == [id |-> l.id, cert |-> 0, key |-> l.key]
\* The rekor wrapper uploads the certificate, or else the public key.
LogEntry(l) == [id |-> l.id, cert |-> l.cert,
                key |-> IF l.cert = 0 THEN l.key ELSE "none"]

\* Mutant: without the dupe detector.
IsDuplicateNever(l, new) == FALSE
\* The dupe detector: a signature of the same payload that the key verifies and
\* that carries every annotation of the new one. An attestation is an envelope
\* signed anew, without a signature of its own: it never has a duplicate.
IsDuplicate(l, new) == /\ new.payload = "sign"
                       /\ l.payload = new.payload /\ l.key = new.key
                       /\ new.cert \in {0, l.cert} /\ new.bundle \in {0, l.bundle}
------------------------------------------------------------------------------
(* The steps of a call.                                                       *)
Fault == /\ faults < MaxFaults /\ faults' = faults + 1 /\ disturbed' = TRUE
NoFault == UNCHANGED <<faults, disturbed>>

Return(ok) ==
  /\ pc' = "Idle" /\ todo' = <<>> /\ failed' = FALSE
  /\ result' = IF ok THEN "ok" ELSE "error"

NextLabel == IF call.op = "sbom" THEN "Syft" ELSE "Signer"

\* Mutant: a platform that fails is only logged.
NextImageLenient(ok) ==
  IF Len(todo) = 1 THEN Return(~ failed)
  ELSE /\ pc' = NextLabel /\ todo' = Tail(todo)
       /\ UNCHANGED <<failed, result>>
\* Mutant: one image too many.
NextImageTooFar(ok) ==
  IF todo = <<>> THEN Return(ok /\ ~ failed)
  ELSE /\ pc' = NextLabel /\ todo' = Tail(todo)
       /\ failed' = (failed \/ ~ ok) /\ UNCHANGED result
\* The end of one SignOci or AttestOci: the error of one platform is kept
\* until the others are done.
NextImage(ok) ==
  IF Len(todo) = 1 THEN Return(ok /\ ~ failed)
  ELSE /\ pc' = NextLabel /\ todo' = Tail(todo)
       /\ failed' = (failed \/ ~ ok) /\ UNCHANGED result

Continue(label) == pc' = label /\ UNCHANGED <<todo, failed, result>>
Drop == layer' = NoLayer /\ base' = {}

Begin ==
  /\ pc = "Idle" /\ calls < MaxCalls
  /\ calls' = calls + 1
  /\ disturbed' = FALSE
  /\ \E op \in Operations, cfg \in Configs, chain \in Keychains, there \in BOOLEAN :
       /\ call' = [op |-> op, cfg |-> cfg, rights |-> chain.rights,
                   usable |-> chain.usable, default |-> chain.default,
                   there |-> there, entries |-> Len(log)]
       /\ IF cfg.type \notin Known THEN Return(FALSE)
          ELSE /\ pc' = IF op = "sbom" THEN "Manifest" ELSE "Signer"
               /\ todo' = Targets(op) /\ failed' = FALSE /\ result' = "none"
  /\ UNCHANGED <<service, layer, base, made, faults, others>>

GetManifest ==
  /\ pc = "Manifest"
  /\ \/ Can("pull") /\ call.there /\ Continue("Syft") /\ NoFault
     \/ ~ (Can("pull") /\ call.there) /\ Return(FALSE) /\ NoFault
     \/ Return(FALSE) /\ Fault
  /\ UNCHANGED <<service, call, layer, base, made, calls, others>>

GenerateSBOMwithSyft ==
  /\ pc = "Syft"
  /\ \/ Can("pull") /\ Continue("Signer") /\ NoFault
     \/ ~ Can("pull") /\ NextImage(FALSE) /\ NoFault
     \/ NextImage(FALSE) /\ Fault
  /\ UNCHANGED <<service, call, layer, base, made, calls, others>>

(* The key, and the signature over the payload with its certificate.          *)
MakeLayer ==
  /\ LET key == SigningKey(KeyRef(call.cfg)) IN
     \/ /\ key # "bad"
        /\ made' = made + 1
        /\ layer' = WithCert(NewLayer(made + 1, key, call.op))
        /\ Continue(IF call.cfg.tlog THEN "Upload" ELSE "Read") /\ NoFault
     \/ key = "bad" /\ NextImage(FALSE) /\ NoFault /\ UNCHANGED <<made, layer>>
     \/ NextImage(FALSE) /\ Fault /\ UNCHANGED <<made, layer>>
  /\ UNCHANGED <<service, call, base, calls, others>>

NoLayerMade == /\ NextImage(FALSE) /\ NoFault
               /\ UNCHANGED <<service, call, layer, base, made, calls, others>>

SignOci == /\ pc = "Signer" /\ call.op = "sign"
           /\ IF EntityReachable THEN MakeLayer ELSE NoLayerMade
AttestOci == pc = "Signer" /\ call.op # "sign" /\ MakeLayer

(* An upload whose answer is lost leaves its entry in the log.                *)
Logged == Append(log, LogEntry(layer))
Upload ==
  /\ pc = "Upload"
  /\ \/ /\ log' = Logged
        /\ layer' = [layer EXCEPT !.bundle = Len(log) + 1]
        /\ Continue("Read") /\ NoFault /\ UNCHANGED base
     \/ /\ log' = Logged \/ UNCHANGED log
        /\ NextImage(FALSE) /\ Fault /\ Drop
  /\ UNCHANGED <<registry, call, made, calls, others>>

ReadTag ==
  /\ pc = "Read"
  /\ \/ /\ TagReadable /\ base' = registry[Here]
        /\ Continue("Write") /\ NoFault /\ UNCHANGED layer
     \/ ~ TagReadable /\ NextImage(FALSE) /\ NoFault /\ Drop
     \/ NextImage(FALSE) /\ Fault /\ Drop
  /\ UNCHANGED <<service, call, made, calls, others>>

Published ==
  [registry EXCEPT ![Here] =
     base \cup (IF \E l \in base : IsDuplicate(l, layer) THEN {} ELSE {layer})]

WriteTag ==
  /\ pc = "Write"
  /\ \/ Can("push") /\ registry' = Published /\ NextImage(TRUE) /\ NoFault
     \/ ~ Can("push") /\ UNCHANGED registry /\ NextImage(FALSE) /\ NoFault
     \/ /\ \/ Can("push") /\ registry' = Published
           \/ UNCHANGED registry
        /\ NextImage(FALSE) /\ Fault
  /\ Drop
  /\ UNCHANGED <<log, call, made, calls, others>>

Crash ==
  /\ pc # "Idle" /\ Fault
  /\ pc' = "Idle" /\ todo' = <<>> /\ failed' = FALSE /\ result' = "none" /\ Drop
  /\ UNCHANGED <<service, call, made, calls, others>>

OtherSigner ==
  /\ others < MaxOthers /\ others' = others + 1
  /\ made' = made + 1
  /\ \E t \in Tags :
       registry' = [registry EXCEPT ![t] =
                      @ \cup {NewLayer(made + 1, "other", "other")}]
  /\ UNCHANGED <<log, work, calls, faults>>

Init ==
  /\ registry = [t \in Tags |-> {}] /\ log = <<>>
  /\ pc = "Idle" /\ call = NoCall /\ todo = <<>> /\ failed = FALSE
  /\ layer = NoLayer /\ base = {} /\ result = "none" /\ disturbed = FALSE
  /\ made = 0 /\ calls = 0 /\ faults = 0 /\ others = 0

Next == \/ Begin \/ GetManifest \/ GenerateSBOMwithSyft
        \/ SignOci \/ AttestOci \/ Upload \/ ReadTag \/ WriteTag
        \/ Crash \/ OtherSigner

Spec == Init /\ [][Next]_vars
------------------------------------------------------------------------------
(* Own layers carry keys, certificates and log entries that exist; a call     *)
(* that runs has an image left to work on.                                    *)
Layers == [id : 0 .. made, key : {"none", "secret", "kms", "keyless", "other"},
           payload : Operations \cup {"none", "other"},
           cert : 0 .. made, bundle : 0 .. Len(log)]
TypeOK ==
  /\ registry \in [Tags -> SUBSET Layers] /\ layer \in Layers
  /\ base \subseteq Layers
  /\ log \in Seq([id : 1 .. made, cert : 0 .. made,
                  key : {"none", "secret", "kms", "keyless"}])
  /\ pc \in {"Idle", "Manifest", "Syft", "Signer", "Upload", "Read", "Write"}
  /\ call \in [op : Operations \cup {"none"}, cfg : Configs \cup {NoCall.cfg},
               rights : Rights, usable : BOOLEAN, default : Rights,
               there : BOOLEAN, entries : 0 .. Len(log)]
  /\ todo \in Seq(Images) /\ (pc = "Idle" <=> todo = <<>>)
  /\ failed \in BOOLEAN /\ disturbed \in BOOLEAN
  /\ result \in {"none", "ok", "error"}

(* rekor.signerWrapper, uploadToTlog: what is published under a configuration *)
(* with a transparency log carries a bundle whose entry is in the log for the *)
(* same signature and names the certificate, or the key if there is none, a   *)
(* verifier will use.                                                         *)
LoggedBeforePublished ==
  [][ \A t \in Tags : \A l \in registry'[t] \ registry[t] :
        Own(l) /\ call.cfg.tlog
          => /\ l.bundle \in 1 .. Len(log)
             /\ log[l.bundle].id = l.id
             /\ log[l.bundle].cert = l.cert
             /\ l.cert = 0 => log[l.bundle].key = l.key ]_vars

(* GenerateSBOMforOCI, "failed to generate SBOM for all platforms": a call    *)
(* that returns no error has published for every image it is about, with the  *)
(* configured key and log, whatever failed before it or ran beside it.        *)
Wanted(op) == IF op = "sbom" /\ Layout # "one image" THEN Platforms
                                                      ELSE {"image"}
SuccessIsPublished ==
  [][ pc # "Idle" /\ result' = "ok"
        => \A image \in Wanted(call.op) :
             \E l \in registry'[Tag(call.op, image)] :
               /\ l.payload = call.op
               /\ l.key = SigningKey(KeyRef(call.cfg))
               /\ call.cfg.tlog => l.bundle # 0 ]_vars

(* NewDupeDetector: signing again after a crash or a lost answer leaves a     *)
(* second layer behind the signature tag only where it also made a second log *)
(* entry or certificate. Attestations have no such protection.                *)
RetriesAreNotDuplicated ==
  \A image \in Images : \A l1, l2 \in {l \in registry[<<image, "sig">>] : Own(l)} :
    l1 # l2 /\ l1.key = l2.key => l1.bundle # l2.bundle \/ l1.cert # l2.cert

(* getAuthFromSecrets, SignerFromKeyOpts: with the cluster key or keyless,    *)
(* push secrets in a namespace that could be listed, no lesser credentials in *)
(* the environment and an image that is there, only a fault makes a call      *)
(* fail: no listing that failed in the other namespace, and no state an       *)
(* earlier call, a crash or another signer left behind stands in its way.     *)
OnlyFaultsFail ==
  result = "error" /\ call.cfg.type \in {"cosign", "fulcio"} /\ call.usable /\ call.there
    => disturbed

(* SignOci: the public log gets no entry for an image the registry denies the *)
(* keychain, because the image is looked up before it is signed. One that it  *)
(* reports as not found is logged, and AttestOci makes its entry first.       *)
DeniedIsNotLogged ==
  call.op = "sign" /\ call.there /\ ~ Can("pull") => Len(log) = call.entries
==============================================================================
