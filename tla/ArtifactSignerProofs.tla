------------------------- MODULE ArtifactSignerProofs -------------------------
(* What signing one image guarantees, for every number of calls, faults and   *)
(* other signers, every set of platforms and every content of the secrets.    *)
EXTENDS ArtifactSigner, FiniteSetTheorems, TLAPS

Making == {"Upload", "Read", "Write"}
LogKeys == {"none", "secret", "kms", "keyless"}
Entries == [id : 1 .. made, cert : 0 .. made, key : LogKeys]
Calls == [op : Operations \cup {"none"}, cfg : Configs \cup {NoCall.cfg},
          rights : Rights, usable : BOOLEAN, default : Rights,
          there : BOOLEAN, entries : 0 .. Len(log)]

(* The types, in the parts a step changes together.                           *)
LayersOK == registry \in [Tags -> SUBSET Layers] /\ layer \in Layers /\ base \subseteq Layers
LogOK == log \in Seq(Entries) /\ call \in Calls
LoopOK ==
  /\ pc \in {"Idle", "Manifest", "Syft", "Signer"} \cup Making
  /\ todo \in Seq(Images) /\ (pc = "Idle" <=> todo = <<>>)
  /\ failed \in BOOLEAN /\ disturbed \in BOOLEAN
  /\ result \in {"none", "ok", "error"}
CountersOK == made \in Nat /\ calls \in Nat /\ faults \in Nat /\ others \in Nat

(* A layer in the making is signed with the configured key, for this call.    *)
MakingOK ==
  pc \in Making =>
    /\ layer.id \in 1 .. made
    /\ layer.payload = call.op
    /\ layer.key = SigningKey(KeyRef(call.cfg)) /\ layer.key # "bad"

TypeInv == LayersOK /\ LogOK /\ LoopOK /\ CountersOK /\ MakingOK

\* A call that runs is one of the three.
OpInv == pc # "Idle" => call.op \in Operations

(* Between the read of a tag and its write only other signers change it, and  *)
(* they remove nothing.                                                       *)
BaseInv == base # {} => pc = "Write" /\ base \subseteq registry[Here]

(* A layer that goes to the registry has been logged, if it had to be.        *)
LogsLayer(l) ==
  /\ l.bundle \in 1 .. Len(log)
  /\ log[l.bundle].id = l.id
  /\ log[l.bundle].cert = l.cert
  /\ l.cert = 0 => log[l.bundle].key = l.key
LogInv == pc \in {"Read", "Write"} /\ call.cfg.tlog => LogsLayer(layer)

(* While no image has failed, every wanted one is published or still to do.   *)
Right(l) == /\ l.payload = call.op
            /\ l.key = SigningKey(KeyRef(call.cfg))
            /\ call.cfg.tlog => l.bundle # 0
DoneInv ==
  pc # "Idle" =>
    /\ result = "none"
    /\ ~ failed => \A image \in Wanted(call.op) :
                    \/ image \in ToSet(todo)
                    \/ \E l \in registry[Tag(call.op, image)] : Right(l)

(* With a usable keychain and a key that can be found, nothing fails by       *)
(* itself.                                                                    *)
Equipped == call.cfg.type \in {"cosign", "fulcio"} /\ call.usable /\ call.there
FaultInv ==
  /\ call.usable => call.rights = "push"
  /\ Equipped /\ ~ disturbed => result # "error" /\ ~ failed

(* Signatures, and nothing else of the controller, are behind the sig tags.   *)
SigInv ==
  \A image \in Images : \A l \in registry[<<image, "sig">>] :
    Own(l) => l.payload = "sign"

(* An image that the registry denies is not signed.                           *)
ReachInv ==
  call.op = "sign" /\ call.there /\ ~ Can("pull") =>
    pc \notin Making /\ Len(log) = call.entries
------------------------------------------------------------------------------
(* The operators a call is made of.                                           *)

\* Nothing is left in an empty sequence.
LEMMA EmptyHasNone ==
  ASSUME NEW S, NEW s \in Seq(S), s = <<>>
  PROVE  ToSet(s) = {}
<1>1. DOMAIN s = 1 .. 0
  BY DOMAIN s = 1 .. Len(s), Len(s) = 0
<1> QED
  BY <1>1 DEF ToSet

(* SetToSeq lists every element of a finite set.                              *)
LEMMA SequenceOfSet ==
  ASSUME NEW S, IsFiniteSet(S), S # {}
  PROVE  SetToSeq(S) \in Seq(S) /\ SetToSeq(S) # <<>> /\ ToSet(SetToSeq(S)) = S
<1> DEFINE n == Cardinality(S)
           s == SetToSeq(S)
<1>1. n \in Nat /\ n # 0 /\ ExistsBijection(1 .. n, S)
  BY FS_CardinalityType, FS_EmptySet
<1>2. \E f \in [1 .. n -> S] : IsInjective(f)
  BY <1>1 DEF ExistsBijection, Bijection, Injection
<1>3. s \in [1 .. n -> S] /\ IsInjective(s)
  BY <1>2 DEF SetToSeq
<1>4. s \in Injection(1 .. n, S)
  BY <1>3 DEF Injection
<1>5. Cardinality(1 .. n) = n
  BY <1>1, FS_Interval
<1>6. s \in Surjection(1 .. n, S)
  BY <1>1, <1>4, <1>5, FS_Injection
<1>7. \A x \in S : \E k \in 1 .. n : s[k] = x
  BY <1>6 DEF Surjection
<1>8. s \in Seq(S) /\ Len(s) = n /\ DOMAIN s = 1 .. n
  BY <1>1, <1>3
<1> QED
  BY <1>1, <1>3, <1>7, <1>8 DEF ToSet

(* GenerateSBOMforOCI lists all the images of a Docker manifest list.         *)
LEMMA TargetImages ==
  ASSUME NEW op \in Operations
  PROVE  /\ Targets(op) \in Seq(Images) /\ Targets(op) # <<>>
         /\ Layout # "oci index" => Wanted(op) \subseteq ToSet(Targets(op))
<1>1. /\ SetToSeq(Platforms) \in Seq(Images) /\ SetToSeq(Platforms) # <<>>
      /\ ToSet(SetToSeq(Platforms)) = Platforms
  <2>1. /\ SetToSeq(Platforms) \in Seq(Platforms) /\ SetToSeq(Platforms) # <<>>
        /\ ToSet(SetToSeq(Platforms)) = Platforms
    BY SignerAssumption, SequenceOfSet
  <2>2. Seq(Platforms) \subseteq Seq(Images)
    BY DEF Images
  <2>3. QED
    BY <2>1, <2>2
<1>2. <<"image">> \in Seq(Images) /\ <<"image">> # <<>> /\ ToSet(<<"image">>) = {"image"}
  BY DEF Images, ToSet
<1> QED
  BY <1>1, <1>2, SignerAssumption DEF Targets, IsMultiPlatform, Wanted

(* getAuthFromSecrets: the keychain answers with the right of the first of    *)
(* the listed secrets, and may push when all of them may.                     *)
LEMMA KeychainRights ==
  ASSUME NEW found \in Listings, NEW ambient \in Ambient
  PROVE  /\ Keychain(found) \in Rights /\ Usable(ambient, found) \in BOOLEAN
         /\ Usable(ambient, found) => Keychain(found) = "push"
<1>1. PICK listed \in SUBSET {"controller", "workflow"} : found \in [listed -> Secrets]
  BY DEF Listings, ToSet, Namespaces
<1>2. Listed(found) \subseteq {1, 2}
  BY DEF Listed, Namespaces
<1>3. Listed(found) # {} => Min(Listed(found)) \in Listed(found)
  <2>1. ASSUME Listed(found) # {}
        PROVE  \E n \in Listed(found) : \A k \in Listed(found) : n =< k
    BY <1>2, <2>1
  <2>2. QED
    BY <2>1 DEF Min
<1>4. ASSUME NEW n \in Listed(found)
      PROVE  /\ Namespaces[n] \in DOMAIN found /\ found[Namespaces[n]] # "absent"
             /\ found[Namespaces[n]] \in Secrets
  BY <1>1, <1>4 DEF Listed
<1>5. Usable(ambient, found) => ~ Unreadable(found) /\ Listed(found) # {}
  <2> SUFFICES ASSUME Usable(ambient, found)
               PROVE  ~ Unreadable(found) /\ Listed(found) # {}
    OBVIOUS
  <2>1. {found[ns] : ns \in DOMAIN found} \ {"absent"} = {"push"}
    BY DEF Usable
  <2>2. PICK ns \in DOMAIN found : found[ns] = "push"
    BY <2>1
  <2>3. ns = Namespaces[1] \/ ns = Namespaces[2]
    BY <1>1, <2>2 DEF Namespaces
  <2>4. Listed(found) # {}
    BY <2>2, <2>3 DEF Listed, Namespaces
  <2>5. QED
    BY <2>1, <2>4 DEF Unreadable
<1>6. ~ Unreadable(found) => Keychain(found) \in Rights
  BY <1>3, <1>4, SignerAssumption DEF Keychain, FirstOf, Unreadable, Rights
<1>7. Usable(ambient, found) => Keychain(found) = "push"
  BY <1>3, <1>4, <1>5 DEF Keychain, FirstOf, Usable
<1> QED
  BY <1>6, <1>7, SignerAssumption DEF Keychain, Usable

(* GetAuthnKeychain: what a call may do, also with credentials of the         *)
(* environment, is a right, and is to push when all it could find may.        *)
LEMMA ChainRights ==
  ASSUME NEW chain \in Keychains
  PROVE  /\ chain.rights \in Rights /\ chain.usable \in BOOLEAN
         /\ chain.default \in Rights
         /\ chain.usable => chain.rights = "push"
<1>1. PICK ambient \in Ambient, found \in Listings : chain \in Credentials(ambient, found)
  BY DEF Keychains
<1>2. /\ chain.rights = Resolve(ambient, found) /\ chain.usable = Usable(ambient, found)
      /\ chain.default \in Defaults(ambient)
  BY <1>1 DEF Credentials
<1>3. chain.default \in Rights
  BY <1>2, SignerAssumption DEF Defaults
<1>4. Resolve(ambient, found) \in Rights
  BY KeychainRights, SignerAssumption DEF Resolve
<1>5. Usable(ambient, found) => Resolve(ambient, found) = "push"
  BY KeychainRights DEF Resolve, Usable
<1> QED
  BY <1>2, <1>3, <1>4, <1>5, KeychainRights

(* SignerFromKeyOpts finds the cluster key, and needs none for keyless.       *)
LEMMA SigningKeys ==
  ASSUME NEW cfg \in Configs \cup {NoCall.cfg}
  PROVE  /\ cfg.type \in Known \cup {"other"} /\ cfg.tlog \in BOOLEAN
         /\ SigningKey(KeyRef(cfg)) \in {"keyless", "secret", "bad"}
         /\ cfg.type \in {"cosign", "fulcio"} => SigningKey(KeyRef(cfg)) # "bad"
<1>1. /\ cfg.type \in Known \cup {"other"} /\ cfg.tlog \in BOOLEAN
      /\ cfg.kms \in {"none", "url"}
  <2>1. NoCall.cfg = [type |-> "cosign", kms |-> "none", tlog |-> FALSE]
    BY DEF NoCall, Configure
  <2>2. CASE cfg = NoCall.cfg
    BY <2>1, <2>2 DEF Known
  <2>3. CASE cfg \in Configs
    <3>1. PICK s \in SignerTypes, k \in KmsRefs, t \in BOOLEAN :
            cfg = [type |-> IF s = "absent" THEN "cosign" ELSE s, kms |-> k, tlog |-> t]
      BY <2>3 DEF Configs, Configure
    <3>2. QED
      BY <3>1, SignerAssumption DEF Known
  <2>4. QED
    BY <2>2, <2>3
<1> QED
  BY <1>1 DEF SigningKey, KeyRef, GetKmsSigner

(* One more signature or log entry takes none of the earlier ones away.       *)
LEMMA LayersGrow ==
  ASSUME CountersOK, LogOK, made' \in Nat, made <= made',
         Len(log') \in Nat, Len(log) <= Len(log')
  PROVE  Layers \subseteq Layers' /\ Entries \subseteq Entries' /\ Calls \subseteq Calls'
BY DEF Layers, Entries, Calls, CountersOK, LogOK

(* The loop over the platforms: one image less, and the error kept.           *)
LEMMA NextImageSteps ==
  ASSUME LoopOK, pc # "Idle", NEW ok \in BOOLEAN, NextImage(ok)
  PROVE  /\ todo' \in Seq(Images) /\ (pc' = "Idle" <=> todo' = <<>>)
         /\ pc' \in {"Idle", "Syft", "Signer"}
         /\ failed' \in BOOLEAN /\ result' \in {"none", "ok", "error"}
         /\ ToSet(todo) = {Head(todo)} \cup ToSet(todo') /\ Head(todo) \in Images
         /\ pc' = "Idle" =>
              ~ failed' /\ result' = IF ok /\ ~ failed THEN "ok" ELSE "error"
         /\ pc' # "Idle" => failed' = (failed \/ ~ ok) /\ result' = result
<1>1. todo \in Seq(Images) /\ todo # <<>> /\ Len(todo) \in Nat \ {0}
  BY DEF LoopOK
<1>2. Head(todo) \in Images /\ Head(todo) = todo[1]
  BY <1>1
<1>3. CASE Len(todo) = 1
  <2>1. Return(ok /\ ~ failed)
    BY <1>3 DEF NextImage
  <2>2. todo' = <<>> /\ pc' = "Idle" /\ failed' = FALSE
        /\ result' = IF ok /\ ~ failed THEN "ok" ELSE "error"
    BY <2>1 DEF Return, LoopOK
  <2>3. ToSet(todo) = {todo[1]} /\ ToSet(<<>>) = {}
    BY <1>1, <1>3 DEF ToSet
  <2>4. result' \in {"none", "ok", "error"} /\ failed' \in BOOLEAN
    BY <2>2
  <2>5. todo' \in Seq(Images) /\ ToSet(todo) = {Head(todo)} \cup ToSet(todo')
    BY <1>2, <2>2, <2>3
  <2>6. QED
    BY <1>2, <2>2, <2>4, <2>5
<1>4. CASE Len(todo) # 1
  <2>1. /\ pc' = NextLabel /\ todo' = Tail(todo)
        /\ failed' = (failed \/ ~ ok) /\ result' = result
    BY <1>4 DEF NextImage
  <2>2. Tail(todo) \in Seq(Images) /\ Len(Tail(todo)) = Len(todo) - 1
    BY <1>1, <1>4
  <2>3. Tail(todo) # <<>>
    BY <1>1, <1>4, <2>2
  <2>4. \A k \in 1 .. Len(Tail(todo)) : Tail(todo)[k] = todo[k + 1]
    BY <1>1, <1>4
  <2>5. ToSet(todo) = {todo[1]} \cup ToSet(Tail(todo))
    <3>1. DOMAIN todo = 1 .. Len(todo) /\ DOMAIN Tail(todo) = 1 .. Len(todo) - 1
      BY <1>1, <2>2
    <3>2. ToSet(todo) \subseteq {todo[1]} \cup ToSet(Tail(todo))
      <4> SUFFICES ASSUME NEW k \in 1 .. Len(todo), k # 1
                   PROVE  todo[k] \in ToSet(Tail(todo))
        BY <3>1 DEF ToSet
      <4>1. k - 1 \in 1 .. Len(todo) - 1 /\ (k - 1) + 1 = k
        BY <1>1
      <4>2. Tail(todo)[k - 1] = todo[k]
        BY <4>1, <2>2, <2>4
      <4>3. QED
        BY <3>1, <4>1, <4>2 DEF ToSet
    <3>3. {todo[1]} \cup ToSet(Tail(todo)) \subseteq ToSet(todo)
      <4>1. ASSUME NEW k \in 1 .. Len(todo) - 1
            PROVE  k + 1 \in 1 .. Len(todo) /\ Tail(todo)[k] = todo[k + 1]
        BY <1>1, <2>2, <2>4
      <4>2. 1 \in DOMAIN todo
        BY <1>1, <3>1
      <4>3. QED
        BY <3>1, <4>1, <4>2 DEF ToSet
    <3>4. QED
      BY <3>2, <3>3
  <2>6. QED
    BY <1>2, <2>1, <2>2, <2>3, <2>5 DEF NextLabel, LoopOK
<1> QED
  BY <1>3, <1>4
------------------------------------------------------------------------------
(* Types.                                                                     *)
LEMMA TypeIsTypeOK == TypeInv => TypeOK
BY DEF TypeInv, LayersOK, LogOK, LoopOK, TypeOK, Entries, Calls, LogKeys, Making

\* Between two calls there is no image left.
LEMMA IdleLoop ==
  ASSUME pc' = "Idle", todo' = <<>>, failed' = FALSE, disturbed' \in BOOLEAN,
         result' \in {"none", "ok", "error"}
  PROVE  LoopOK' /\ pc' \notin Making
<1>1. <<>> \in Seq(Images)
  OBVIOUS
<1>2. pc' \notin Making
  BY DEF Making
<1> QED
  BY <1>1, <1>2, Zenon DEF LoopOK

LEMMA TypeInit == Init => TypeInv
<1> SUFFICES ASSUME Init PROVE TypeInv
  OBVIOUS
<1> USE DEF Init
<1>1. NoLayer \in Layers
  BY DEF NoLayer, NewLayer, Layers
<1>2. LayersOK
  BY <1>1 DEF LayersOK
<1>3. NoCall \in Calls
  <2>1. NoCall = [op |-> "none", cfg |-> NoCall.cfg, rights |-> "none",
                  usable |-> FALSE, default |-> "none", there |-> FALSE, entries |-> 0]
    BY DEF NoCall
  <2>2. 0 \in 0 .. Len(log) /\ "none" \in Rights /\ NoCall.cfg \in Configs \cup {NoCall.cfg}
    BY DEF Rights
  <2>3. \A cfg \in Configs \cup {NoCall.cfg} :
          [op |-> "none", cfg |-> cfg, rights |-> "none", usable |-> FALSE,
           default |-> "none", there |-> FALSE, entries |-> 0] \in Calls
    BY <2>2 DEF Calls
  <2>4. QED
    BY <2>1, <2>2, <2>3
<1>4. LogOK
  BY <1>3 DEF LogOK
<1>5. LoopOK /\ pc \notin Making
  <2>1. <<>> \in Seq(Images) /\ "Idle" \notin Making
    BY DEF Making
  <2>2. QED
    BY <2>1, Zenon DEF LoopOK
<1>6. CountersOK
  BY DEF CountersOK
<1>7. QED
  BY <1>2, <1>4, <1>5, <1>6 DEF TypeInv, MakingOK

(* A step that leaves signatures and log alone keeps the types of both.       *)
LEMMA ServiceUnchanged ==
  ASSUME TypeInv, UNCHANGED <<registry, log, layer, base, made>>
  PROVE  LayersOK' /\ Entries' = Entries /\ Calls' = Calls
BY DEF TypeInv, LayersOK, Layers, Entries, Calls

LEMMA NoLayerIsLayer == TypeInv => NoLayer \in Layers
BY DEF TypeInv, CountersOK, LogOK, NoLayer, NewLayer, Layers

LEMMA TypeBegin == TypeInv /\ Begin => TypeInv'
<1> SUFFICES ASSUME TypeInv, Begin PROVE TypeInv'
  OBVIOUS
<1>1. PICK op \in Operations, cfg \in Configs, chain \in Keychains, there \in BOOLEAN :
        /\ call' = [op |-> op, cfg |-> cfg, rights |-> chain.rights,
                    usable |-> chain.usable, default |-> chain.default,
                    there |-> there, entries |-> Len(log)]
        /\ IF cfg.type \notin Known THEN Return(FALSE)
           ELSE /\ pc' = IF op = "sbom" THEN "Manifest" ELSE "Signer"
                /\ todo' = Targets(op) /\ failed' = FALSE /\ result' = "none"
  BY DEF Begin
<1>2. /\ UNCHANGED <<registry, log, layer, base, made, faults, others>>
      /\ calls' = calls + 1 /\ disturbed' = FALSE
  BY DEF Begin, service
<1>3. chain.rights \in Rights /\ chain.usable \in BOOLEAN /\ chain.default \in Rights
  BY ChainRights
<1>4. call' \in Calls
  BY <1>1, <1>3 DEF Calls, TypeInv, LogOK
<1>5. LogOK'
  BY <1>2, <1>4, ServiceUnchanged DEF TypeInv, LogOK
<1>6. LoopOK' /\ pc' \notin Making
  <2>1. CASE cfg.type \notin Known
    <3>1. pc' = "Idle" /\ todo' = <<>> /\ failed' = FALSE /\ result' = "error"
      BY <1>1, <2>1 DEF Return
    <3>2. QED
      BY <1>2, <3>1, IdleLoop
  <2>2. CASE cfg.type \in Known
    <3>1. /\ pc' \in {"Manifest", "Signer"} /\ todo' \in Seq(Images) /\ todo' # <<>>
          /\ failed' = FALSE /\ result' = "none"
      BY <1>1, <2>2, TargetImages
    <3>2. QED
      BY <1>2, <3>1 DEF LoopOK, Making
  <2>3. QED
    BY <2>1, <2>2
<1> QED
  BY <1>2, <1>5, <1>6, ServiceUnchanged DEF TypeInv, CountersOK, MakingOK

(* A step of the loop over the images that makes nothing.                     *)
LEMMA TypeLoop ==
  ASSUME TypeInv, UNCHANGED <<registry, log, layer, base, made, call, calls, others>>,
         Fault \/ NoFault, LoopOK', pc' \notin Making
  PROVE  TypeInv'
<1>1. LogOK'
  BY ServiceUnchanged DEF TypeInv, LogOK
<1>2. CountersOK'
  BY DEF TypeInv, CountersOK, Fault, NoFault
<1> QED
  BY <1>1, <1>2, ServiceUnchanged DEF TypeInv, MakingOK

LEMMA FaultTypes ==
  ASSUME TypeInv, Fault \/ NoFault
  PROVE  disturbed' \in BOOLEAN /\ faults' \in Nat
<1>1. disturbed \in BOOLEAN /\ faults \in Nat
  BY DEF TypeInv, LoopOK, CountersOK
<1>2. CASE Fault
  BY <1>1, <1>2 DEF Fault
<1>3. CASE NoFault
  BY <1>1, <1>3 DEF NoFault
<1> QED
  BY <1>2, <1>3

LEMMA TypeManifest == TypeInv /\ GetManifest => TypeInv'
<1> SUFFICES ASSUME TypeInv, GetManifest PROVE TypeInv'
  OBVIOUS
<1>1. Fault \/ NoFault
  BY DEF GetManifest
<1>2. LoopOK' /\ pc' \notin Making
  <2>1. CASE Continue("Syft")
    BY <1>1, <2>1, FaultTypes DEF GetManifest, Continue, TypeInv, LoopOK, Making
  <2>2. CASE Return(FALSE)
    <3>1. pc' = "Idle" /\ todo' = <<>> /\ failed' = FALSE /\ result' = "error"
      BY <2>2 DEF Return
    <3>2. QED
      BY <1>1, <3>1, FaultTypes, IdleLoop
  <2>3. QED
    BY <2>1, <2>2 DEF GetManifest
<1> QED
  BY <1>1, <1>2, TypeLoop DEF GetManifest, service

LEMMA TypeSyft == TypeInv /\ GenerateSBOMwithSyft => TypeInv'
<1> SUFFICES ASSUME TypeInv, GenerateSBOMwithSyft PROVE TypeInv'
  OBVIOUS
<1>1. Fault \/ NoFault
  BY DEF GenerateSBOMwithSyft
<1>2. CASE Continue("Signer")
  <2>1. LoopOK' /\ pc' \notin Making
    BY <1>1, <1>2, FaultTypes
    DEF GenerateSBOMwithSyft, Continue, TypeInv, LoopOK, Making
  <2>2. QED
    BY <1>1, <2>1, TypeLoop DEF GenerateSBOMwithSyft, service
<1>3. CASE NextImage(FALSE)
  <2>1. LoopOK' /\ pc' \notin Making
    BY <1>1, <1>3, FaultTypes, NextImageSteps
    DEF GenerateSBOMwithSyft, TypeInv, LoopOK, Making
  <2>2. QED
    BY <1>1, <2>1, TypeLoop DEF GenerateSBOMwithSyft, service
<1> QED
  BY <1>2, <1>3 DEF GenerateSBOMwithSyft

(* The signature over the payload has the configured key, and its own number. *)
LEMMA NewLayers ==
  ASSUME TypeInv, NEW key \in {"keyless", "secret"}, NEW op \in Operations, made' = made + 1
  PROVE  LET l == WithCert(NewLayer(made + 1, key, op)) IN
         /\ l \in [id : 0 .. made + 1, key : {"none", "secret", "kms", "keyless", "other"},
                   payload : Operations \cup {"none", "other"},
                   cert : 0 .. made + 1, bundle : 0 .. Len(log)]
         /\ l.id = made + 1 /\ l.payload = op /\ l.key = key /\ l.bundle = 0
BY DEF TypeInv, CountersOK, LogOK, WithCert, NewLayer

(* The two ways on from a step of a call.                                     *)
LEMMA LoopSteps ==
  ASSUME TypeInv, pc # "Idle", Fault \/ NoFault
  PROVE  /\ \A ok \in BOOLEAN : NextImage(ok) => LoopOK' /\ pc' \notin Making
         /\ \A label \in {"Manifest", "Syft", "Signer"} \cup Making :
              Continue(label) => LoopOK'
<1>1. ASSUME NEW ok \in BOOLEAN, NextImage(ok) PROVE LoopOK' /\ pc' \notin Making
  BY <1>1, FaultTypes, NextImageSteps DEF TypeInv, LoopOK, Making
<1>2. ASSUME NEW label \in {"Manifest", "Syft", "Signer"} \cup Making, Continue(label)
      PROVE  LoopOK'
  BY <1>2, FaultTypes DEF Continue, TypeInv, LoopOK, Making
<1> QED
  BY <1>1, <1>2

LEMMA TypeMakeLayer ==
  ASSUME TypeInv, pc = "Signer", call.op \in Operations, MakeLayer
  PROVE  TypeInv'
<1> DEFINE key == SigningKey(KeyRef(call.cfg))
<1>1. Fault \/ NoFault
  BY DEF MakeLayer
<1>2. key \in {"keyless", "secret", "bad"}
  BY SigningKeys DEF TypeInv, LogOK, Calls
<1>3. CASE /\ key # "bad" /\ made' = made + 1
           /\ layer' = WithCert(NewLayer(made + 1, key, call.op))
           /\ Continue(IF call.cfg.tlog THEN "Upload" ELSE "Read") /\ NoFault
  <2>1. UNCHANGED <<registry, log, call, base, calls, others>>
    BY DEF MakeLayer, service
  <2>2. /\ made' \in Nat /\ made <= made' /\ Len(log) \in Nat /\ Len(log') = Len(log)
    BY <1>3, <2>1 DEF TypeInv, CountersOK, LogOK
  <2>3. Layers \subseteq Layers' /\ Entries \subseteq Entries' /\ Calls \subseteq Calls'
    BY <2>2, LayersGrow DEF TypeInv
  <2>4. layer' \in Layers'
    BY <1>2, <1>3, <2>1, NewLayers DEF Layers
  <2>5. LayersOK'
    BY <2>1, <2>3, <2>4 DEF TypeInv, LayersOK
  <2>6. LogOK'
    BY <2>1, <2>3 DEF TypeInv, LogOK
  <2>7. pc' \in Making /\ LoopOK'
    BY <1>3, LoopSteps DEF Continue, Making
  <2>8. /\ layer'.id = made' /\ layer'.payload = call.op
        /\ layer'.key = key /\ layer'.key # "bad"
    BY <1>2, <1>3, NewLayers
  <2>9. made' \in 1 .. made'
    BY <1>3 DEF TypeInv, CountersOK
  <2>10. MakingOK'
    BY <2>1, <2>8, <2>9 DEF MakingOK
  <2>11. CountersOK'
    BY <1>1, <2>1, <2>2, FaultTypes DEF TypeInv, CountersOK
  <2>12. QED
    BY <2>5, <2>6, <2>7, <2>10, <2>11 DEF TypeInv
<1>4. CASE NextImage(FALSE) /\ UNCHANGED <<made, layer>>
  BY <1>1, <1>4, LoopSteps, TypeLoop DEF MakeLayer, service
<1> QED
  BY <1>3, <1>4 DEF MakeLayer

LEMMA TypeSign == TypeInv /\ (SignOci \/ AttestOci) /\ call.op \in Operations => TypeInv'
<1> SUFFICES ASSUME TypeInv, SignOci \/ AttestOci, call.op \in Operations
             PROVE  TypeInv'
  OBVIOUS
<1>1. CASE MakeLayer
  BY <1>1, TypeMakeLayer DEF SignOci, AttestOci
<1>2. CASE NoLayerMade
  BY <1>2, LoopSteps, TypeLoop DEF SignOci, AttestOci, NoLayerMade, service
<1> QED
  BY <1>1, <1>2 DEF SignOci, AttestOci

(* The log grows by one entry for the layer in the making.                    *)
LEMMA LogGrows ==
  ASSUME TypeInv, pc = "Upload", log' = Logged, UNCHANGED <<made, call>>
  PROVE  /\ Len(log') = Len(log) + 1 /\ log' \in Seq(Entries)
         /\ Layers \subseteq Layers' /\ Entries' = Entries /\ Calls \subseteq Calls'
         /\ log'[Len(log) + 1] = LogEntry(layer)
         /\ \A n \in 1 .. Len(log) : log'[n] = log[n]
<1>1. LogEntry(layer) \in Entries
  BY SigningKeys
  DEF TypeInv, LayersOK, LogOK, Calls, MakingOK, Making, Layers, LogEntry, Entries, LogKeys
<1>2. log \in Seq(Entries)
  BY DEF TypeInv, LogOK
<1>3. Len(log') = Len(log) + 1 /\ log' \in Seq(Entries)
  BY <1>1, <1>2 DEF Logged
<1>4. /\ log'[Len(log) + 1] = LogEntry(layer)
      /\ \A n \in 1 .. Len(log) : log'[n] = log[n]
  BY <1>1, <1>2 DEF Logged
<1>5. Layers \subseteq Layers' /\ Calls \subseteq Calls'
  BY <1>2, <1>3, LayersGrow DEF TypeInv, CountersOK
<1>6. Entries' = Entries
  BY DEF Entries
<1> QED
  BY <1>3, <1>4, <1>5, <1>6

LEMMA TypeUpload == TypeInv /\ Upload => TypeInv'
<1> SUFFICES ASSUME TypeInv, Upload PROVE TypeInv'
  OBVIOUS
<1>1. /\ pc = "Upload" /\ UNCHANGED <<registry, call, made, calls, others>>
      /\ Fault \/ NoFault
  BY DEF Upload
<1>2. log' = Logged \/ UNCHANGED log
  BY DEF Upload
<1>3. /\ Layers \subseteq Layers' /\ Calls \subseteq Calls'
      /\ log' \in Seq(Entries') /\ Entries' = Entries
  <2>1. CASE log' = Logged
    BY <1>1, <2>1, LogGrows
  <2>2. CASE UNCHANGED log
    BY <1>1, <2>2 DEF TypeInv, LogOK, Layers, Entries, Calls
  <2>3. QED
    BY <1>2, <2>1, <2>2
<1>4. LogOK'
  BY <1>1, <1>3 DEF TypeInv, LogOK
<1>5. CountersOK'
  BY <1>1, FaultTypes DEF TypeInv, CountersOK
<1>6. CASE /\ log' = Logged /\ layer' = [layer EXCEPT !.bundle = Len(log) + 1]
           /\ Continue("Read") /\ UNCHANGED base
  <2>1. Len(log') = Len(log) + 1 /\ Len(log) \in Nat
    BY <1>1, <1>6, LogGrows DEF TypeInv, LogOK
  <2>2. layer' \in Layers'
    BY <1>1, <1>6, <2>1 DEF TypeInv, LayersOK, Layers
  <2>3. LayersOK'
    BY <1>1, <1>3, <1>6, <2>2 DEF TypeInv, LayersOK
  <2>4. /\ layer'.id = layer.id /\ layer'.payload = layer.payload
        /\ layer'.key = layer.key
    BY <1>6 DEF TypeInv, LayersOK, Layers
  <2>5. MakingOK'
    BY <1>1, <2>4 DEF TypeInv, MakingOK, Making
  <2>6. LoopOK'
    BY <1>1, <1>6, LoopSteps DEF Making
  <2>7. QED
    BY <1>4, <1>5, <2>3, <2>5, <2>6 DEF TypeInv
<1>7. CASE NextImage(FALSE) /\ Drop
  <2>1. LayersOK'
    BY <1>1, <1>3, <1>7, NoLayerIsLayer DEF TypeInv, LayersOK, Drop
  <2>2. LoopOK' /\ MakingOK'
    BY <1>1, <1>7, LoopSteps DEF MakingOK
  <2>3. QED
    BY <1>4, <1>5, <2>1, <2>2 DEF TypeInv
<1> QED
  BY <1>6, <1>7 DEF Upload

\* Here is the tag a call is at.
LEMMA TagHere == TypeInv /\ pc # "Idle" => Here \in Tags
<1> SUFFICES ASSUME TypeInv, pc # "Idle" PROVE Here \in Tags
  OBVIOUS
<1>1. todo \in Seq(Images) /\ todo # <<>>
  BY DEF TypeInv, LoopOK
<1>2. Head(todo) \in Images
  BY <1>1
<1> QED
  BY <1>2 DEF Here, Tag, Tags, Kinds

LEMMA TypeReadTag == TypeInv /\ ReadTag => TypeInv'
<1> SUFFICES ASSUME TypeInv, ReadTag PROVE TypeInv'
  OBVIOUS
<1>1. /\ pc = "Read" /\ UNCHANGED <<registry, log, call, made, calls, others>>
      /\ Fault \/ NoFault
  BY DEF ReadTag, service
<1>2. Layers' = Layers /\ Entries' = Entries /\ Calls' = Calls
  BY <1>1 DEF Layers, Entries, Calls
<1>3. LogOK' /\ CountersOK'
  BY <1>1, <1>2, FaultTypes DEF TypeInv, LogOK, CountersOK
<1>4. CASE base' = registry[Here] /\ Continue("Write") /\ UNCHANGED layer
  <2>1. LayersOK'
    BY <1>1, <1>2, <1>4, TagHere DEF TypeInv, LayersOK
  <2>2. LoopOK' /\ MakingOK'
    BY <1>1, <1>4, LoopSteps DEF TypeInv, MakingOK, Making
  <2>3. QED
    BY <1>3, <2>1, <2>2 DEF TypeInv
<1>5. CASE NextImage(FALSE) /\ Drop
  <2>1. LayersOK'
    BY <1>1, <1>2, <1>5, NoLayerIsLayer DEF TypeInv, LayersOK, Drop
  <2>2. LoopOK' /\ MakingOK'
    BY <1>1, <1>5, LoopSteps DEF MakingOK
  <2>3. QED
    BY <1>3, <2>1, <2>2 DEF TypeInv
<1> QED
  BY <1>4, <1>5 DEF ReadTag

(* A write leaves what was read behind the tag, with one layer more unless an *)
(* equal one is there, and touches no other tag.                              *)
LEMMA PublishedTag ==
  ASSUME TypeInv, pc # "Idle"
  PROVE  /\ \A t \in Tags \ {Here} : Published[t] = registry[t]
         /\ base \subseteq Published[Here]
         /\ Published[Here] \subseteq base \cup {layer}
         /\ (\E l \in base : IsDuplicate(l, layer)) => Published[Here] = base
         /\ ~ (\E l \in base : IsDuplicate(l, layer)) => layer \in Published[Here]
         /\ Published \in [Tags -> SUBSET Layers]
<1>1. Here \in Tags /\ registry \in [Tags -> SUBSET Layers]
  BY TagHere DEF TypeInv, LayersOK
<1>2. Published[Here] = base \cup (IF \E l \in base : IsDuplicate(l, layer)
                                   THEN {} ELSE {layer})
  BY <1>1 DEF Published
<1>3. base \subseteq Layers /\ layer \in Layers
  BY DEF TypeInv, LayersOK
<1>4. Published \in [Tags -> SUBSET Layers]
  BY <1>1, <1>3 DEF Published
<1>5. \A t \in Tags \ {Here} : Published[t] = registry[t]
  BY <1>1 DEF Published
<1> QED
  BY <1>2, <1>4, <1>5

LEMMA TypeWriteTag == TypeInv /\ WriteTag => TypeInv'
<1> SUFFICES ASSUME TypeInv, WriteTag PROVE TypeInv'
  OBVIOUS
<1>1. /\ pc = "Write" /\ UNCHANGED <<log, call, made, calls, others>>
      /\ Drop /\ (Fault \/ NoFault)
      /\ registry' = Published \/ UNCHANGED registry
      /\ \E ok \in BOOLEAN : NextImage(ok)
  BY DEF WriteTag
<1>2. Layers' = Layers /\ Entries' = Entries /\ Calls' = Calls
  BY <1>1 DEF Layers, Entries, Calls
<1>3. LogOK' /\ CountersOK'
  BY <1>1, <1>2, FaultTypes DEF TypeInv, LogOK, CountersOK
<1>4. LayersOK'
  BY <1>1, <1>2, PublishedTag, NoLayerIsLayer DEF TypeInv, LayersOK, Drop
<1>5. LoopOK' /\ MakingOK'
  BY <1>1, LoopSteps DEF MakingOK
<1> QED
  BY <1>3, <1>4, <1>5 DEF TypeInv

LEMMA TypeCrash == TypeInv /\ Crash => TypeInv'
<1> SUFFICES ASSUME TypeInv, Crash PROVE TypeInv'
  OBVIOUS
<1>1. /\ UNCHANGED <<registry, log, call, made, calls, others>> /\ Fault /\ Drop
      /\ pc' = "Idle" /\ todo' = <<>> /\ failed' = FALSE /\ result' = "none"
  BY DEF Crash, service
<1>2. Layers' = Layers /\ Entries' = Entries /\ Calls' = Calls
  BY <1>1 DEF Layers, Entries, Calls
<1>3. LogOK' /\ CountersOK'
  BY <1>1, <1>2, FaultTypes DEF TypeInv, LogOK, CountersOK
<1>4. LayersOK'
  BY <1>1, <1>2, NoLayerIsLayer DEF TypeInv, LayersOK, Drop
<1>5. LoopOK' /\ MakingOK'
  BY <1>1, FaultTypes, IdleLoop DEF MakingOK
<1> QED
  BY <1>3, <1>4, <1>5 DEF TypeInv

LEMMA TypeOtherSigner == TypeInv /\ OtherSigner => TypeInv'
<1> SUFFICES ASSUME TypeInv, OtherSigner PROVE TypeInv'
  OBVIOUS
<1>1. PICK t \in Tags :
        registry' = [registry EXCEPT ![t] =
                       registry[t] \cup {NewLayer(made + 1, "other", "other")}]
  BY DEF OtherSigner
<1>2. /\ UNCHANGED <<log, pc, call, todo, failed, layer, base, result, disturbed>>
      /\ UNCHANGED <<calls, faults>> /\ made' = made + 1 /\ others' = others + 1
  BY DEF OtherSigner, work
<1>3. made \in Nat /\ made' \in Nat /\ Len(log) \in Nat
  BY <1>2 DEF TypeInv, CountersOK, LogOK
<1>4. Layers \subseteq Layers' /\ Entries \subseteq Entries' /\ Calls \subseteq Calls'
  BY <1>2, <1>3, LayersGrow DEF TypeInv
<1>5. NewLayer(made + 1, "other", "other") \in Layers'
  BY <1>2, <1>3 DEF NewLayer, Layers
<1>6. LayersOK'
  BY <1>1, <1>2, <1>4, <1>5 DEF TypeInv, LayersOK
<1>7. LogOK'
  BY <1>2, <1>4 DEF TypeInv, LogOK
<1>8. LoopOK'
  BY <1>2 DEF TypeInv, LoopOK
<1>9. CountersOK' /\ MakingOK'
  BY <1>2, <1>3 DEF TypeInv, CountersOK, MakingOK
<1> QED
  BY <1>6, <1>7, <1>8, <1>9 DEF TypeInv

LEMMA OpNext == OpInv /\ [Next]_vars => OpInv'
<1> SUFFICES ASSUME OpInv, [Next]_vars PROVE OpInv'
  OBVIOUS
<1>1. CASE Begin
  BY <1>1 DEF Begin, OpInv, Return
<1>2. CASE OtherSigner \/ UNCHANGED vars
  BY <1>2 DEF OtherSigner, vars, work, OpInv
<1>3. CASE pc # "Idle" /\ UNCHANGED call
  BY <1>3 DEF OpInv
<1> QED
  BY <1>1, <1>2, <1>3
  DEF Next, GetManifest, GenerateSBOMwithSyft, SignOci, AttestOci, MakeLayer,
      NoLayerMade, Upload, ReadTag, WriteTag, Crash

LEMMA TypeNext == TypeInv /\ OpInv /\ [Next]_vars => TypeInv' /\ OpInv'
<1> SUFFICES ASSUME TypeInv, OpInv, [Next]_vars PROVE TypeInv'
  BY OpNext
<1>1. CASE SignOci \/ AttestOci
  BY <1>1, TypeSign DEF OpInv, SignOci, AttestOci
<1>2. CASE UNCHANGED vars
  BY <1>2 DEF vars, service, work, counters, TypeInv, LayersOK, LogOK, LoopOK,
     CountersOK, MakingOK, Layers, Entries, Calls
<1> QED
  BY <1>1, <1>2, TypeBegin, TypeManifest, TypeSyft, TypeUpload, TypeReadTag,
     TypeWriteTag, TypeCrash, TypeOtherSigner
  DEF Next

LEMMA TypeInvariant == Spec => [](TypeInv /\ OpInv)
<1>1. Init => OpInv
  BY DEF Init, OpInv
<1> QED
  BY TypeInit, TypeNext, <1>1, PTL DEF Spec

(* Layers, log and calls keep their types, whatever fails.                    *)
THEOREM SignerIsTyped == Spec => []TypeOK
BY TypeInvariant, TypeIsTypeOK, PTL
------------------------------------------------------------------------------
(* The registry.                                                              *)

(* A tag changes only by the write of a call or by another signer.            *)
LEMMA RegistrySteps ==
  ASSUME TypeInv, [Next]_vars
  PROVE  \/ UNCHANGED registry
         \/ WriteTag /\ pc = "Write" /\ registry' = Published
         \/ /\ OtherSigner /\ UNCHANGED <<pc, todo, call, layer, base>>
            /\ \E t \in Tags :
                 registry' = [registry EXCEPT ![t] =
                                registry[t] \cup {NewLayer(made + 1, "other", "other")}]
<1>1. CASE OtherSigner
  BY <1>1 DEF OtherSigner, work
<1>2. CASE WriteTag
  BY <1>2 DEF WriteTag
<1> QED
  BY <1>1, <1>2
  DEF Next, Begin, GetManifest, GenerateSBOMwithSyft, SignOci, AttestOci, MakeLayer,
      NoLayerMade, Upload, ReadTag, Crash, service, vars

\* What another signer does takes nothing away.
LEMMA OthersAdd ==
  ASSUME TypeInv, NEW t \in Tags,
         registry' = [registry EXCEPT ![t] =
                        registry[t] \cup {NewLayer(made + 1, "other", "other")}]
  PROVE  \A u \in Tags :
           /\ registry[u] \subseteq registry'[u]
           /\ \A l \in registry'[u] \ registry[u] : ~ Own(l)
<1>1. registry \in [Tags -> SUBSET Layers]
  BY DEF TypeInv, LayersOK
<1>2. ~ Own(NewLayer(made + 1, "other", "other"))
  BY DEF Own, NewLayer
<1> QED
  BY <1>1, <1>2

LEMMA BaseNext == TypeInv /\ BaseInv /\ [Next]_vars => BaseInv'
<1> SUFFICES ASSUME TypeInv, BaseInv, [Next]_vars PROVE BaseInv'
  OBVIOUS
<1>1. CASE base' = {}
  BY <1>1 DEF BaseInv
<1>2. CASE ReadTag /\ base' = registry[Here] /\ Continue("Write")
  BY <1>2 DEF ReadTag, Continue, BaseInv, Here, service
<1>3. CASE OtherSigner
  <2>1. UNCHANGED <<pc, call, todo, base>>
    BY <1>3 DEF OtherSigner, work
  <2>2. base # {} => Here \in Tags /\ Here' = Here
    BY <2>1, TagHere DEF BaseInv, Here
  <2>3. base # {} => registry[Here] \subseteq registry'[Here]
    BY <1>3, <2>2, OthersAdd DEF OtherSigner
  <2>4. QED
    BY <2>1, <2>2, <2>3 DEF BaseInv
<1>4. CASE UNCHANGED vars
  BY <1>4 DEF vars, service, work, BaseInv, Here
<1>5. CASE pc # "Write" /\ UNCHANGED base
  BY <1>1, <1>5 DEF BaseInv
<1> QED
  BY <1>1, <1>2, <1>3, <1>4, <1>5
  DEF Next, Begin, GetManifest, GenerateSBOMwithSyft, SignOci, AttestOci, MakeLayer,
      NoLayerMade, Upload, ReadTag, WriteTag, Crash, Drop, service, vars

LEMMA BaseInvariant == Spec => [](TypeInv /\ BaseInv)
<1>1. Init => BaseInv
  BY DEF Init, BaseInv
<1> QED
  BY TypeInvariant, BaseNext, <1>1, PTL DEF Spec

(* AttestOci never writes behind a sig tag.                                   *)
LEMMA SigNext == TypeInv /\ BaseInv /\ SigInv /\ [Next]_vars => SigInv'
<1> SUFFICES ASSUME TypeInv, BaseInv, SigInv, [Next]_vars,
                    NEW image \in Images, NEW l \in registry'[<<image, "sig">>], Own(l)
             PROVE  l.payload = "sign"
  BY DEF SigInv
<1> DEFINE t == <<image, "sig">>
<1>1. t \in Tags
  BY DEF Tags, Kinds
<1>2. l \in registry[t] => l.payload = "sign"
  BY DEF SigInv
<1>3. CASE pc = "Write" /\ registry' = Published /\ t = Here
  <2>1. call.op = "sign"
    BY <1>3 DEF Here, Tag
  <2>2. layer.payload = "sign"
    BY <1>3, <2>1 DEF TypeInv, MakingOK, Making
  <2>3. l \in base => l \in registry[t]
    BY <1>3 DEF BaseInv
  <2> QED
    BY <1>2, <1>3, <2>2, <2>3, PublishedTag
<1> QED
  BY <1>1, <1>2, <1>3, RegistrySteps, OthersAdd, PublishedTag

(* NewDupeDetector: two signatures of one key over one payload differ in      *)
(* their log entry or their certificate.                                      *)
THEOREM RetriesDoNotDuplicate == Spec => []RetriesAreNotDuplicated
<1>1. Init => RetriesAreNotDuplicated
  BY DEF Init, RetriesAreNotDuplicated, Tags, Kinds
<1>2. TypeInv /\ BaseInv /\ SigInv /\ RetriesAreNotDuplicated /\ [Next]_vars
        => RetriesAreNotDuplicated'
  <2> SUFFICES ASSUME TypeInv, BaseInv, SigInv, RetriesAreNotDuplicated, [Next]_vars
               PROVE  RetriesAreNotDuplicated'
    OBVIOUS
  <2>1. CASE UNCHANGED registry
    BY <2>1 DEF RetriesAreNotDuplicated
  <2>2. CASE OtherSigner /\ \E t \in Tags :
                 registry' = [registry EXCEPT ![t] =
                                registry[t] \cup {NewLayer(made + 1, "other", "other")}]
    <3>1. \A u \in Tags : \A l \in registry'[u] : Own(l) => l \in registry[u]
      BY <2>2, OthersAdd
    <3>2. QED
      BY <3>1 DEF RetriesAreNotDuplicated, Tags, Kinds
  <2>3. CASE pc = "Write" /\ registry' = Published
    <3>1. ASSUME NEW image \in Images, NEW t, t = <<image, "sig">>,
                 NEW l1 \in registry'[t], NEW l2 \in registry'[t],
                 Own(l1), Own(l2), l1 # l2, l1.key = l2.key,
                 l1.bundle = l2.bundle, l1.cert = l2.cert
          PROVE  FALSE
      <4>0. t \in Tags
        BY <3>1 DEF Tags, Kinds
      <4>1. CASE t # Here
        BY <2>3, <3>1, <4>0, <4>1, PublishedTag DEF RetriesAreNotDuplicated
      <4>2. CASE t = Here
        <5>1. base \subseteq registry[Here] /\ Here \in Tags
          BY <2>3, TagHere DEF BaseInv
        <5>2. l1 \notin base \/ l2 \notin base
          BY <3>1, <4>2, <5>1 DEF RetriesAreNotDuplicated
        <5>6. layer.payload = "sign" /\ \A l \in base : Own(l) => l.payload = "sign"
          <6>1. call.op = "sign"
            BY <3>1, <4>2 DEF Here, Tag
          <6>2. layer.payload = "sign"
            BY <2>3, <6>1 DEF TypeInv, MakingOK, Making
          <6>3. \A l \in base : l \in registry[t]
            BY <4>2, <5>1
          <6> QED
            BY <3>1, <6>2, <6>3 DEF SigInv
        <5>3. ~ \E l \in base : IsDuplicate(l, layer)
          BY <2>3, <3>1, <4>2, <5>2, PublishedTag
        <5>4. \/ l1 \in base /\ l2 = layer
              \/ l2 \in base /\ l1 = layer
          BY <2>3, <3>1, <4>2, <5>2, PublishedTag
        <5>5. QED
          BY <3>1, <5>3, <5>4, <5>6 DEF IsDuplicate
      <4>3. QED
        BY <4>1, <4>2
    <3>2. QED
      BY <3>1 DEF RetriesAreNotDuplicated
  <2>4. QED
    BY <2>1, <2>2, <2>3, RegistrySteps
<1>3. Init => SigInv
  BY DEF Init, SigInv, Tags, Kinds
<1>4. Spec => []SigInv
  BY BaseInvariant, SigNext, <1>3, PTL DEF Spec
<1> QED
  BY BaseInvariant, <1>1, <1>2, <1>4, PTL DEF Spec
------------------------------------------------------------------------------
(* The transparency log.                                                      *)

\* Nothing a layer is published with changes between its upload and its write.
LEMMA LogNext == TypeInv /\ LogInv /\ [Next]_vars => LogInv'
<1> SUFFICES ASSUME TypeInv, LogInv, [Next]_vars PROVE LogInv'
  OBVIOUS
<1>1. CASE pc' \notin {"Read", "Write"}
  BY <1>1 DEF LogInv
<1>2. CASE pc \in {"Read", "Write"} /\ UNCHANGED <<log, call, layer>>
  BY <1>2 DEF LogInv, LogsLayer
<1>3. CASE MakeLayer /\ Continue(IF call.cfg.tlog THEN "Upload" ELSE "Read")
  <2>1. call.cfg.tlog \in BOOLEAN /\ UNCHANGED call
    BY <1>3, SigningKeys DEF TypeInv, LogOK, Calls, MakeLayer
  <2>2. pc' # "Upload" => ~ call.cfg.tlog
    BY <1>3, <2>1 DEF Continue
  <2>3. pc' \notin {"Read", "Write"} \/ ~ call'.cfg.tlog
    BY <2>1, <2>2
  <2>4. QED
    BY <2>3 DEF LogInv
<1>4. CASE Upload /\ log' = Logged /\ layer' = [layer EXCEPT !.bundle = Len(log) + 1]
  <2>1. /\ Len(log') = Len(log) + 1 /\ Len(log) \in Nat
        /\ log'[Len(log) + 1] = LogEntry(layer)
    BY <1>4, LogGrows DEF Upload, TypeInv, LogOK
  <2>2. /\ layer'.bundle = Len(log) + 1 /\ layer'.id = layer.id
        /\ layer'.cert = layer.cert /\ layer'.key = layer.key
    BY <1>4 DEF TypeInv, LayersOK, Layers
  <2>3. LogsLayer(layer)'
    BY <2>1, <2>2 DEF LogsLayer, LogEntry
  <2>4. QED
    BY <2>3 DEF LogInv
<1>5. CASE Begin
  BY <1>1, <1>5 DEF Begin, Return
<1>6. CASE NextImage(FALSE) \/ NextImage(TRUE)
  BY <1>1, <1>6 DEF NextImage, Return, NextLabel
<1>7. CASE GetManifest
  BY <1>1, <1>7 DEF GetManifest, Return, Continue
<1>8. CASE GenerateSBOMwithSyft
  BY <1>1, <1>6, <1>8 DEF GenerateSBOMwithSyft, Continue
<1>9. CASE SignOci \/ AttestOci
  BY <1>3, <1>6, <1>9 DEF SignOci, AttestOci, MakeLayer, NoLayerMade
<1>10. CASE Upload
  BY <1>4, <1>6, <1>10 DEF Upload
<1>11. CASE ReadTag
  BY <1>2, <1>6, <1>11 DEF ReadTag, service
<1>12. CASE WriteTag
  BY <1>6, <1>12 DEF WriteTag
<1>13. CASE Crash
  BY <1>1, <1>13 DEF Crash
<1>14. CASE OtherSigner \/ UNCHANGED vars
  BY <1>1, <1>2, <1>14 DEF OtherSigner, vars, service, work
<1> QED
  BY <1>5, <1>7, <1>8, <1>9, <1>10, <1>11, <1>12, <1>13, <1>14 DEF Next

(* uploadToTlog: under a configuration with a log nothing is published that a *)
(* verifier would not find there, under the key or certificate it looks for.  *)
THEOREM PublishedIsLogged == Spec => LoggedBeforePublished
<1>1. Init => LogInv
  BY DEF Init, LogInv
<1>2. Spec => []LogInv
  BY TypeInvariant, LogNext, <1>1, PTL DEF Spec
<1>3. TypeInv /\ BaseInv /\ LogInv /\ [Next]_vars
        => [\A t \in Tags : \A l \in registry'[t] \ registry[t] :
              Own(l) /\ call.cfg.tlog => LogsLayer(l)]_vars
  <2> SUFFICES ASSUME TypeInv, BaseInv, LogInv, [Next]_vars, NEW t \in Tags,
                      NEW l \in registry'[t] \ registry[t], Own(l), call.cfg.tlog
               PROVE  LogsLayer(l)
    OBVIOUS
  <2>1. WriteTag /\ pc = "Write" /\ registry' = Published
    BY RegistrySteps, OthersAdd
  <2>2. base \subseteq registry[Here] /\ t = Here
    BY <2>1, PublishedTag DEF BaseInv
  <2>3. l = layer
    BY <2>1, <2>2, PublishedTag
  <2>4. QED
    BY <2>1, <2>3 DEF LogInv
<1> QED
  BY BaseInvariant, <1>2, <1>3, PTL DEF Spec, LoggedBeforePublished, LogsLayer

\* A call that is denied the image never has a layer in the making.
LEMMA ReachNext == TypeInv /\ ReachInv /\ [Next]_vars => ReachInv'
<1> SUFFICES ASSUME TypeInv, ReachInv, [Next]_vars PROVE ReachInv'
  OBVIOUS
<1> USE DEF ReachInv, Can, Allows
<1>1. CASE UNCHANGED <<log, call>> /\ pc' \notin Making
  BY <1>1
<1>2. CASE UNCHANGED <<log, call>> /\ pc \in Making
  BY <1>2
<1>3. CASE UNCHANGED <<log, call>> /\ NextImage(FALSE)
  <2>1. pc' \notin Making
    BY <1>3 DEF NextImage, Return, NextLabel, Making
  <2>2. QED
    BY <1>1, <1>3, <2>1
<1>4. CASE Begin
  <2>1. UNCHANGED log /\ call'.entries = Len(log)
    BY <1>4 DEF Begin, service
  <2>2. pc' \notin Making
    BY <1>4 DEF Begin, Return, Making
  <2>3. QED
    BY <2>1, <2>2
<1>5. CASE GetManifest
  BY <1>1, <1>5 DEF GetManifest, service, Return, Continue, Making
<1>6. CASE GenerateSBOMwithSyft
  BY <1>1, <1>3, <1>6 DEF GenerateSBOMwithSyft, service, Continue, Making
<1>7. CASE SignOci
  BY <1>1, <1>3, <1>7 DEF SignOci, EntityReachable, MakeLayer, NoLayerMade, service
<1>8. CASE AttestOci
  <2>1. UNCHANGED call /\ call.op # "sign"
    BY <1>8 DEF AttestOci, MakeLayer
  <2>2. QED
    BY <2>1
<1>9. CASE Upload
  BY <1>9 DEF Upload, Making
<1>10. CASE ReadTag \/ WriteTag
  BY <1>2, <1>10 DEF ReadTag, WriteTag, service, Making
<1>11. CASE Crash
  BY <1>1, <1>11 DEF Crash, service, Making
<1>12. CASE OtherSigner \/ UNCHANGED vars
  BY <1>12 DEF OtherSigner, vars, service, work
<1> QED
  BY <1>4, <1>5, <1>6, <1>7, <1>8, <1>9, <1>10, <1>11, <1>12 DEF Next

(* SignOci looks the image up first: no call leaves an entry in the public    *)
(* log for an image the registry denies its keychain.                         *)
THEOREM DeniedStaysUnlogged == Spec => []DeniedIsNotLogged
<1>1. Init => ReachInv
  BY DEF Init, ReachInv, NoCall
<1>2. ReachInv => DeniedIsNotLogged
  BY DEF ReachInv, DeniedIsNotLogged
<1> QED
  BY TypeInvariant, ReachNext, <1>1, <1>2, PTL DEF Spec
------------------------------------------------------------------------------
(* What a call returns.                                                       *)

\* With push rights and a key, only a fault ends a step with an error.
LEMMA FaultNext == TypeInv /\ FaultInv /\ [Next]_vars => FaultInv'
<1> SUFFICES ASSUME TypeInv, FaultInv, [Next]_vars PROVE FaultInv'
  OBVIOUS
<1>1. CASE Begin
  <2>1. PICK op \in Operations, cfg \in Configs, chain \in Keychains, there \in BOOLEAN :
          /\ call' = [op |-> op, cfg |-> cfg, rights |-> chain.rights,
                      usable |-> chain.usable, default |-> chain.default,
                      there |-> there, entries |-> Len(log)]
          /\ IF cfg.type \notin Known THEN Return(FALSE)
             ELSE failed' = FALSE /\ result' = "none"
    BY <1>1 DEF Begin
  <2>2. chain.usable => chain.rights = "push"
    BY ChainRights
  <2>3. cfg.type \in {"cosign", "fulcio"} => result' = "none" /\ failed' = FALSE
    BY <2>1 DEF Known
  <2>4. QED
    BY <2>1, <2>2, <2>3 DEF FaultInv, Equipped
<1>2. CASE UNCHANGED call /\ disturbed' = TRUE
  BY <1>2 DEF FaultInv, Equipped
<1>3. CASE UNCHANGED <<call, disturbed, result, failed>>
  BY <1>3 DEF FaultInv, Equipped
<1>4. ASSUME UNCHANGED call, NoFault, ~ Equipped \/ disturbed PROVE FaultInv'
  BY <1>4 DEF FaultInv, Equipped, NoFault
<1>5. Equipped => Can("pull") /\ Can("push") /\ call.there /\ EntityReachable /\ TagReadable
  BY DEF FaultInv, Equipped, Can, Allows, EntityReachable, TagReadable
<1>6. Equipped => SigningKey(KeyRef(call.cfg)) # "bad"
  BY SigningKeys DEF Equipped, TypeInv, LogOK, Calls
<1>7. CASE GetManifest
  BY <1>2, <1>3, <1>4, <1>5, <1>7
  DEF GetManifest, Continue, Fault, NoFault
<1>8. CASE GenerateSBOMwithSyft
  BY <1>2, <1>3, <1>4, <1>5, <1>8
  DEF GenerateSBOMwithSyft, Continue, Fault, NoFault
<1>9. CASE SignOci \/ AttestOci
  BY <1>2, <1>3, <1>4, <1>5, <1>6, <1>9
  DEF SignOci, AttestOci, MakeLayer, NoLayerMade, Continue, Fault, NoFault
<1>10. CASE Upload
  BY <1>2, <1>3, <1>10 DEF Upload, Continue, Fault, NoFault
<1>11. CASE ReadTag
  BY <1>2, <1>3, <1>4, <1>5, <1>11 DEF ReadTag, Continue, Fault, NoFault
<1>12. CASE WriteTag
  <2>1. CASE NextImage(TRUE) /\ NoFault
    <3>1. UNCHANGED call /\ pc # "Idle"
      BY <1>12 DEF WriteTag
    <3>2. ~ failed => result' \in {"ok", result} /\ failed' = FALSE
      BY <2>1, <3>1, NextImageSteps DEF TypeInv, LoopOK
    <3>3. QED
      BY <2>1, <3>1, <3>2 DEF FaultInv, Equipped, NoFault
  <2>2. CASE ~ (NextImage(TRUE) /\ NoFault)
    BY <1>2, <1>4, <1>5, <1>12, <2>2 DEF WriteTag, Fault, NoFault
  <2>3. QED
    BY <2>1, <2>2
<1>13. CASE Crash
  BY <1>2, <1>13 DEF Crash, Fault
<1>14. CASE OtherSigner \/ UNCHANGED vars
  BY <1>3, <1>14 DEF OtherSigner, vars, work
<1> QED
  BY <1>1, <1>7, <1>8, <1>9, <1>10, <1>11, <1>12, <1>13, <1>14 DEF Next

(* getAuthFromSecrets, SignerFromKeyOpts: with usable secrets, no lesser      *)
(* credentials in the environment, the cluster key or keyless and an image    *)
(* that is there, no listing that failed and nothing an earlier call left     *)
(* behind makes a call fail.                                                  *)
THEOREM OnlyFaultsMakeErrors == Spec => []OnlyFaultsFail
<1>1. Init => FaultInv
  BY DEF Init, FaultInv, NoCall
<1>2. FaultInv => OnlyFaultsFail
  BY DEF FaultInv, OnlyFaultsFail, Equipped
<1> QED
  BY TypeInvariant, FaultNext, <1>1, <1>2, PTL DEF Spec

\* Wanted images have a tag of their own.
LEMMA WantedTags ==
  ASSUME TypeInv, OpInv, pc # "Idle", NEW image \in Wanted(call.op)
  PROVE  Tag(call.op, image) \in Tags
BY DEF Wanted, Tag, Tags, Kinds, Images

(* A write that succeeds leaves the signature the call is about behind its    *)
(* tag, its own or an equal one.                                              *)
LEMMA WriteDone ==
  ASSUME TypeInv, OpInv, LogInv, DoneInv, pc = "Write", registry' = Published,
         NextImage(TRUE), ~ failed, NEW image \in Wanted(call.op)
  PROVE  \/ image \in ToSet(todo')
         \/ \E l \in registry'[Tag(call.op, image)] : Right(l)
<1>1. Right(layer)
  BY DEF TypeInv, MakingOK, Making, Right, LogInv, LogsLayer, LogOK
<1>2. \E l \in registry'[Here] : Right(l)
  <2>1. CASE \E l \in base : IsDuplicate(l, layer)
    <3>1. PICK l \in base : IsDuplicate(l, layer)
      BY <2>1
    <3>2. Right(l) /\ l \in registry'[Here]
      BY <1>1, <3>1, PublishedTag DEF Right, IsDuplicate
    <3>3. QED
      BY <3>2
  <2>2. CASE ~ \E l \in base : IsDuplicate(l, layer)
    BY <1>1, <2>2, PublishedTag
  <2>3. QED
    BY <2>1, <2>2
<1>3. \/ image \in ToSet(todo)
      \/ \E l \in registry[Tag(call.op, image)] : Right(l)
  BY DEF DoneInv
<1>4. Tag(call.op, image) # Here => registry'[Tag(call.op, image)] = registry[Tag(call.op, image)]
  BY WantedTags, PublishedTag
<1>5. ToSet(todo) = {Head(todo)} \cup ToSet(todo')
  BY NextImageSteps DEF TypeInv
<1>6. image = Head(todo) => Tag(call.op, image) = Here
  BY DEF Here
<1> QED
  BY <1>2, <1>3, <1>4, <1>5, <1>6

LEMMA DoneNext ==
  ASSUME Layout # "oci index", TypeInv, OpInv, LogInv, DoneInv, [Next]_vars
  PROVE  DoneInv'
<1>1. CASE Begin
  <2>1. PICK op \in Operations, cfg \in Configs, chain \in Keychains, there \in BOOLEAN :
          /\ call' = [op |-> op, cfg |-> cfg, rights |-> chain.rights,
                      usable |-> chain.usable, default |-> chain.default,
                      there |-> there, entries |-> Len(log)]
          /\ IF cfg.type \notin Known THEN Return(FALSE)
             ELSE todo' = Targets(op) /\ result' = "none"
    BY <1>1 DEF Begin
  <2>2. pc' # "Idle" => todo' = Targets(op) /\ result' = "none"
    BY <2>1 DEF Return
  <2>3. call'.op = op
    BY <2>1
  <2>4. pc' # "Idle" => \A image \in Wanted(call'.op) : image \in ToSet(todo')
    BY <2>2, <2>3, TargetImages
  <2>5. QED
    BY <2>2, <2>4 DEF DoneInv
<1>2. CASE pc' = "Idle"
  BY <1>2 DEF DoneInv
<1>3. CASE pc # "Idle" /\ UNCHANGED <<call, todo, failed, result, registry>>
  BY <1>3 DEF DoneInv, Right
<1>4. CASE pc # "Idle" /\ NextImage(FALSE)
  <2>1. pc' # "Idle" => failed' = TRUE /\ result' = result
    BY <1>4, NextImageSteps DEF TypeInv, LoopOK
  <2>2. QED
    BY <1>4, <2>1 DEF DoneInv
<1>5. CASE pc = "Write" /\ registry' = Published /\ NextImage(TRUE) /\ UNCHANGED call
  <2>1. pc' # "Idle" => failed' = failed /\ result' = result
    BY <1>5, NextImageSteps DEF TypeInv, LoopOK
  <2>2. ~ failed => \A image \in Wanted(call.op) :
                      \/ image \in ToSet(todo')
                      \/ \E l \in registry'[Tag(call.op, image)] : Right(l)
    BY <1>5, WriteDone
  <2>3. \A l : Right(l)' <=> Right(l)
    BY <1>5 DEF Right
  <2>4. ~ failed' /\ pc' # "Idle" => \A image \in Wanted(call'.op) :
                      \/ image \in ToSet(todo')
                      \/ \E l \in registry'[Tag(call'.op, image)] : Right(l)'
    <3> SUFFICES ASSUME ~ failed', pc' # "Idle", NEW image \in Wanted(call'.op)
                 PROVE  \/ image \in ToSet(todo')
                        \/ \E l \in registry'[Tag(call'.op, image)] : Right(l)'
      OBVIOUS
    <3>1. call' = call
      BY <1>5
    <3>2. failed' = failed
      BY <2>1
    <3>3. ~ failed
      BY <3>2, Zenon
    <3>4. \/ image \in ToSet(todo')
          \/ \E l \in registry'[Tag(call.op, image)] : Right(l)
      BY <2>2, <3>1, <3>3
    <3>5. QED
      BY <2>3, <3>1, <3>4
  <2>5. pc' # "Idle" => result' = "none"
    BY <1>5, <2>1 DEF DoneInv
  <2>6. QED
    BY <2>4, <2>5 DEF DoneInv
<1>6. CASE OtherSigner
  <2>1. UNCHANGED <<pc, call, todo, failed, result>>
    BY <1>6 DEF OtherSigner, work
  <2>2. \A t \in Tags : registry[t] \subseteq registry'[t]
    BY <1>6, OthersAdd DEF OtherSigner
  <2>3. QED
    BY <2>1, <2>2, WantedTags DEF DoneInv, Right
<1>7. CASE UNCHANGED vars
  BY <1>7 DEF vars, service, work, DoneInv, Right
<1>8. CASE GetManifest
  BY <1>2, <1>3, <1>8 DEF GetManifest, Return, Continue, service
<1>9. CASE GenerateSBOMwithSyft
  BY <1>3, <1>4, <1>9 DEF GenerateSBOMwithSyft, Continue, service
<1>10. CASE SignOci \/ AttestOci
  BY <1>3, <1>4, <1>10 DEF SignOci, AttestOci, MakeLayer, NoLayerMade, Continue, service
<1>11. CASE Upload \/ ReadTag
  BY <1>3, <1>4, <1>11 DEF Upload, ReadTag, Continue, service
<1>12. CASE WriteTag
  BY <1>4, <1>5, <1>12 DEF WriteTag
<1>13. CASE Crash
  BY <1>2, <1>13 DEF Crash
<1> QED
  BY <1>1, <1>6, <1>7, <1>8, <1>9, <1>10, <1>11, <1>12, <1>13 DEF Next

\* Only a write that succeeds ends a call without an error.
LEMMA SuccessIsWrite ==
  ASSUME TypeInv, DoneInv, [Next]_vars, pc # "Idle", result' = "ok"
  PROVE  /\ pc = "Write" /\ registry' = Published /\ NextImage(TRUE)
         /\ todo' = <<>> /\ ~ failed
<1>1. result = "none"
  BY DEF DoneInv
<1>2. ~ NextImage(FALSE)
  BY <1>1, NextImageSteps DEF TypeInv, LoopOK
<1>3. pc = "Write" /\ registry' = Published /\ NextImage(TRUE)
  BY <1>1, <1>2
  DEF Next, Begin, GetManifest, GenerateSBOMwithSyft, SignOci, AttestOci, MakeLayer,
      NoLayerMade, Upload, ReadTag, WriteTag, Crash, OtherSigner, vars, work,
      Return, Continue
<1>4. pc' = "Idle" /\ todo' = <<>> /\ ~ failed
  BY <1>1, <1>3, NextImageSteps DEF TypeInv, LoopOK
<1> QED
  BY <1>3, <1>4

(* GenerateSBOMforOCI, "failed to generate SBOM for all platforms": a call    *)
(* returns no error only when every image it is about carries its signature   *)
(* or attestation. An OCI index is excepted: it is not taken for              *)
(* multi-platform, and gets one SBOM.                                         *)
THEOREM SuccessPublishesAll ==
  ASSUME Layout # "oci index"
  PROVE  Spec => SuccessIsPublished
<1>1. Init => LogInv /\ DoneInv
  BY DEF Init, LogInv, DoneInv
<1>2. Spec => [](TypeInv /\ OpInv /\ LogInv /\ DoneInv)
  BY TypeInvariant, LogNext, DoneNext, <1>1, PTL DEF Spec
<1>3. TypeInv /\ OpInv /\ LogInv /\ DoneInv /\ [Next]_vars
        => [pc # "Idle" /\ result' = "ok"
              => \A image \in Wanted(call.op) :
                   \E l \in registry'[Tag(call.op, image)] : Right(l)]_vars
  <2> SUFFICES ASSUME TypeInv, OpInv, LogInv, DoneInv, [Next]_vars,
                      pc # "Idle", result' = "ok", NEW image \in Wanted(call.op)
               PROVE  \E l \in registry'[Tag(call.op, image)] : Right(l)
    OBVIOUS
  <2>1. /\ pc = "Write" /\ registry' = Published /\ NextImage(TRUE)
        /\ todo' = <<>> /\ ~ failed
    BY SuccessIsWrite
  <2>2. ToSet(todo') = {}
    BY <2>1, NextImageSteps, EmptyHasNone DEF TypeInv
  <2>3. QED
    BY <2>1, <2>2, WriteDone
<1> QED
  BY <1>2, <1>3, PTL DEF Spec, SuccessIsPublished, Right
==============================================================================
