------------------------- MODULE StatusUpdaterProofs -------------------------
(* patchMetadata never writes a key that is not its own and never reports a   *)
(* success for a value that was not stored, for any set of keys and values,   *)
(* any other writers and any lag of the informer.                             *)
EXTENDS StatusUpdater, TLAPS

(* The object of a call that is about to patch differs from the copy it was   *)
(* read as in the call's key, and only there.                                 *)
PatchIsOwn ==
  pc = "Patch" => /\ object = [original EXCEPT ![key] = value]
                  /\ original[key] # value

(* A patch that was applied ends the call, with nil or the error of a lost    *)
(* answer: no attempt follows it.                                             *)
AppliedIsReported == applied => pc = "Idle" /\ result \in {"ok", "other"}

UpdaterInv ==
  /\ store \in Histories(Object)
  /\ pc \in {"Idle", "Get", "Patch"}
  /\ key \in Keys /\ value \in Values
  /\ object \in Metadata /\ original \in Metadata
  /\ pc # "Idle" => result = "none"
  /\ PatchIsOwn
  /\ AppliedIsReported

LEMMA NoMetadataType == NoMetadata \in Metadata
BY DEF NoMetadata, Metadata

(* What the API server stores and what the cache returns are objects.         *)
LEMMA StoreType ==
  ASSUME store \in Histories(Object)
  PROVE  /\ Stored(store) \in Object /\ Cached(store) \in Object
         /\ Current \in Metadata /\ Cached(store).meta \in Metadata
<1>1. Stored(store) \in Object /\ Cached(store) \in Object
  BY ReadIsVersion
<1> QED BY <1>1 DEF Current, Object

(* The patch carries the call's own key and no other.                         *)
LEMMA PatchedType ==
  ASSUME UpdaterInv, pc = "Patch"
  PROVE  /\ Patched \in Metadata
         /\ Patched[key] = value
         /\ \A k \in Keys \ {key} : Patched[k] = Current[k]
<1>1. Current \in Metadata
  BY StoreType DEF UpdaterInv
<1>2. /\ object \in Metadata /\ original \in Metadata /\ key \in Keys
      /\ object = [original EXCEPT ![key] = value] /\ original[key] # value
  BY DEF UpdaterInv, PatchIsOwn
<1>3. object[key] = value /\ \A k \in Keys \ {key} : object[k] = original[k]
  BY <1>2 DEF Metadata
<1>4. key \in PatchKeys /\ \A k \in Keys \ {key} : k \notin PatchKeys
  BY <1>2, <1>3 DEF PatchKeys
<1>5. \A k \in Keys : Patched[k] = IF k \in PatchKeys THEN object[k] ELSE Current[k]
  BY DEF Patched
<1>6. Patched[key] = value /\ \A k \in Keys \ {key} : Patched[k] = Current[k]
  BY <1>2, <1>3, <1>4, <1>5
<1>7. Patched \in Metadata
  BY <1>1, <1>2 DEF Patched, Metadata
<1> QED BY <1>6, <1>7

LEMMA UpdaterInvInit == Init => UpdaterInv
<1> SUFFICES ASSUME Init PROVE UpdaterInv
  OBVIOUS
<1>1. [live |-> TRUE, meta |-> NoMetadata] \in Object
  BY NoMetadataType DEF Object
<1>2. store \in Histories(Object)
  BY <1>1 DEF Init, Histories
<1> QED BY <1>2, NoMetadataType DEF Init, UpdaterInv, PatchIsOwn, AppliedIsReported

(* A version written by Apply is an object.                                   *)
LEMMA ApplyType ==
  ASSUME UpdaterInv, pc = "Patch", Apply
  PROVE  /\ store' \in Histories(Object)
         /\ Stored(store') = [live |-> TRUE, meta |-> Patched]
         /\ Stored(store') \in Versions(store')
<1>1. [live |-> TRUE, meta |-> Patched] \in Object
  BY PatchedType DEF Object
<1>2. store \in Histories(Object)
  BY DEF UpdaterInv
<1>3. store' = Write(store, [live |-> TRUE, meta |-> Patched])
  BY DEF Apply
<1> QED BY <1>1, <1>2, <1>3, WriteAddsVersion

LEMMA UpdaterInvNext == UpdaterInv /\ [Next]_vars => UpdaterInv'
<1> SUFFICES ASSUME UpdaterInv, [Next]_vars PROVE UpdaterInv'
  OBVIOUS
<1>1. CASE Call
  <2> QED BY <1>1, NoMetadataType DEF Call, UpdaterInv, PatchIsOwn, AppliedIsReported
<1>2. CASE Get
  <2>1. Cached(store).meta \in Metadata
    BY StoreType DEF UpdaterInv
  <2>2. [Cached(store).meta EXCEPT ![key] = value] \in Metadata
    BY <2>1 DEF Metadata, UpdaterInv
  <2> QED BY <1>2, <2>1, <2>2
          DEF Get, Return, AttemptFails, IsRetried, Copy, UpdaterInv, PatchIsOwn, AppliedIsReported
<1>3. CASE PatchSucceeds
  <2> QED BY <1>3, ApplyType, PatchedType
          DEF PatchSucceeds, Apply, Return, UpdaterInv, PatchIsOwn, AppliedIsReported
<1>4. CASE PatchRefused
  <2> QED BY <1>4 DEF PatchRefused, Return, AttemptFails, IsRetried, UpdaterInv, PatchIsOwn, AppliedIsReported
<1>5. CASE PatchFails
  <2>1. store' \in Histories(Object)
    BY <1>5, ApplyType DEF PatchFails, UpdaterInv
  <2> QED BY <1>5, <2>1
          DEF PatchFails, Return, AttemptFails, IsRetried, UpdaterInv, PatchIsOwn, AppliedIsReported
<1>6. CASE OtherWrites
  <2>1. PICK k \in Foreign, v \in Values :
          store' = Write(store, [live |-> TRUE, meta |-> [Current EXCEPT ![k] = v]])
    BY <1>6 DEF OtherWrites
  <2>2. [live |-> TRUE, meta |-> [Current EXCEPT ![k] = v]] \in Object
    BY StoreType DEF UpdaterInv, Object, Metadata
  <2>3. store' \in Histories(Object)
    BY <2>1, <2>2, WriteAddsVersion DEF UpdaterInv
  <2> QED BY <1>6, <2>3 DEF OtherWrites, call, UpdaterInv, PatchIsOwn, AppliedIsReported
<1>7. CASE Delete
  <2>1. [live |-> FALSE, meta |-> Current] \in Object
    BY StoreType DEF UpdaterInv, Object
  <2>2. store' \in Histories(Object)
    BY <1>7, <2>1, WriteAddsVersion DEF Delete, UpdaterInv
  <2> QED BY <1>7, <2>2 DEF Delete, call, UpdaterInv, PatchIsOwn, AppliedIsReported
<1>8. CASE Sync
  <2>1. store' \in Histories(Object)
    BY <1>8, DeliveryKeepsVersions DEF Sync, UpdaterInv
  <2> QED BY <1>8, <2>1 DEF Sync, call, UpdaterInv, PatchIsOwn, AppliedIsReported
<1>10. CASE GetInternalParams
  <2>1. WithoutOwn(object) \in Metadata
    BY DEF WithoutOwn, Metadata, UpdaterInv
  <2> QED BY <1>10, <2>1 DEF GetInternalParams, UpdaterInv, PatchIsOwn, AppliedIsReported
<1>9. CASE UNCHANGED vars
  BY <1>9 DEF vars, call, UpdaterInv, PatchIsOwn, AppliedIsReported
<1> QED BY <1>1, <1>2, <1>3, <1>4, <1>5, <1>6, <1>7, <1>8, <1>9, <1>10
        DEF Next, PatchMetadata

THEOREM UpdaterInvariant == Spec => []UpdaterInv
BY UpdaterInvInit, UpdaterInvNext, PTL DEF Spec

(* A call changes no metadata but its own key, however stale its copy is.     *)
THEOREM OwnKeyOnly == Spec => OnlyOwnKeyChanges
<1>1. ASSUME UpdaterInv, [Next]_vars
      PROVE  [ pc = "Patch" /\ pc' # "Patch"
                 => \A k \in Keys \ {key} : Stored(store').meta[k] = Current[k] ]_vars
  <2> SUFFICES ASSUME Next, pc = "Patch", pc' # "Patch"
               PROVE  \A k \in Keys \ {key} : Stored(store').meta[k] = Current[k]
    BY <1>1
  <2>1. ASSUME Apply
        PROVE  \A k \in Keys \ {key} : Stored(store').meta[k] = Current[k]
    BY <1>1, <2>1, ApplyType, PatchedType
  <2>2. ASSUME store' = store
        PROVE  \A k \in Keys \ {key} : Stored(store').meta[k] = Current[k]
    BY <2>2 DEF Current
  <2>3. Apply \/ store' = store
    BY DEF Next, Call, PatchMetadata, Get, PatchSucceeds, PatchRefused, PatchFails,
           GetInternalParams, OtherWrites, Delete, Sync, call
  <2> QED BY <2>1, <2>2, <2>3
<1> QED BY <1>1, UpdaterInvariant, PTL DEF Spec, OnlyOwnKeyChanges

(* A call that returns nil has stored its value, or read it as stored.        *)
THEOREM SuccessMeansStored == Spec => SuccessWasStored
<1>1. ASSUME UpdaterInv, [Next]_vars
      PROVE  [ pc # "Idle" /\ result' = "ok"
                 => \E o \in Versions(store') : o.meta[key] = value ]_vars
  <2> SUFFICES ASSUME Next, pc # "Idle", result' = "ok"
               PROVE  \E o \in Versions(store') : o.meta[key] = value
    BY <1>1
  <2>1. result = "none"
    BY <1>1 DEF UpdaterInv
  <2>2. CASE Get
    <3>1. Cached(store).meta[key] = value /\ store' = store
      BY <2>1, <2>2 DEF Get, AttemptFails, Return
    <3>2. Cached(store) \in Versions(store)
      BY <1>1, ReadIsVersion DEF UpdaterInv
    <3> QED BY <3>1, <3>2
  <2>3. CASE PatchSucceeds
    <3>1. pc = "Patch" /\ Apply
      BY <2>3 DEF PatchSucceeds
    <3>2. Stored(store').meta[key] = value
      BY <1>1, <3>1, ApplyType, PatchedType
    <3> QED BY <1>1, <3>1, <3>2, ApplyType
  <2>4. Get \/ PatchSucceeds
    BY <2>1 DEF Next, Call, PatchMetadata, PatchRefused, PatchFails, AttemptFails,
                Return, GetInternalParams, OtherWrites, Delete, Sync, call
  <2> QED BY <2>2, <2>3, <2>4
<1> QED BY <1>1, UpdaterInvariant, PTL DEF Spec, SuccessWasStored

(* A call that answers "conflict or not found" has changed nothing.           *)
THEOREM RefusedMeansUnchanged == Spec => []ConflictChangedNothing
<1>1. UpdaterInv => ConflictChangedNothing
  BY DEF UpdaterInv, AppliedIsReported, ConflictChangedNothing
<1> QED BY <1>1, UpdaterInvariant, PTL
------------------------------------------------------------------------------
(* Both modules read and write the object with the operators of KubeStore.    *)
LEMMA SameStore ==
  ASSUME NEW vs, NEW v
  PROVE  /\ Contract!Cached(vs) = Cached(vs) /\ Contract!Stored(vs) = Stored(vs)
         /\ Contract!Synced(vs) = Synced(vs) /\ Contract!Deliver(vs) = Deliver(vs)
         /\ Contract!Write(vs, v) = Write(vs, v)
BY DEF Contract!Cached, Cached, Contract!Stored, Stored, Contract!Synced, Synced,
       Contract!Deliver, Deliver, Contract!Write, Write

(* The version Apply writes is the stored one with the call's key changed,    *)
(* whatever copy the patch was computed from.                                 *)
LEMMA ApplyIsPut ==
  ASSUME UpdaterInv, pc = "Patch", Apply
  PROVE  Contract!Put(Contract!With(key, value))
<1>1. Patched \in Metadata /\ Current \in Metadata
  BY PatchedType, StoreType DEF UpdaterInv
<1>2. Patched = [Current EXCEPT ![key] = value]
  BY <1>1, PatchedType DEF Metadata
<1> QED BY <1>2, SameStore DEF Apply, Live, Writable, Current, Contract!Put, Contract!With,
                    Contract!Live

LEMMA ContractInit == Init => Contract!Init
BY DEF Init, NoMetadata, Contract!Init, Contract!Unknown

(* An attempt that ends without a retry is a refused or a lost call; one that *)
(* is retried is no step of the abstract call.                                *)
LEMMA AttemptIsCall ==
  ASSUME UpdaterInv, pc # "Idle", NEW error \in {"conflict", "not found", "other"},
         AttemptFails(error)
  PROVE  \/ Contract!Finish(error)
         \/ error = "conflict" /\ (pc # "Idle")' /\ UNCHANGED <<key, value, result>>
BY DEF AttemptFails, IsRetried, Return, Contract!Finish

Abstract == <<store, pc # "Idle", key, value, result>>

LEMMA ContractNext == UpdaterInv /\ [Next]_vars => [Contract!Next]_Abstract
<1> SUFFICES ASSUME UpdaterInv, [Next]_vars
             PROVE  Contract!Next \/ UNCHANGED Abstract
  BY DEF Abstract
<1>1. CASE Call
  BY <1>1 DEF Call, Contract!Next, Contract!Start
<1>2. CASE Get
  <2>0. pc = "Get" /\ store' = store
    BY <1>2 DEF Get
  <2>1. CASE ~ Cached(store).live /\ AttemptFails("not found")
    <3>1. Contract!Finish("not found")
      BY <2>0, <2>1, AttemptIsCall
    <3> QED BY <2>0, <2>1, <3>1, SameStore DEF Contract!Next, Contract!Refused
  <2>2. CASE /\ Cached(store).live /\ Cached(store).meta[key] = value
             /\ Return("ok")
    BY <2>0, <2>2, SameStore DEF Return, Contract!Next, Contract!Already, Contract!Finish
  <2>3. CASE pc' = "Patch" /\ UNCHANGED <<key, value, attempt, result>>
    BY <2>0, <2>3 DEF Abstract
  <2> QED BY <1>2, <2>1, <2>2, <2>3 DEF Get
<1>3. CASE PatchSucceeds
  <2>1. Contract!Put(Contract!With(key, value))
    BY <1>3, ApplyIsPut DEF PatchSucceeds
  <2>2. Contract!Finish("ok")
    BY <1>3 DEF PatchSucceeds, Return, Contract!Finish
  <2> QED BY <2>1, <2>2 DEF Contract!Next, Contract!Succeeds
<1>4. CASE PatchRefused
  <2>0. pc = "Patch" /\ store' = store
    BY <1>4 DEF PatchRefused
  <2>1. CASE Live /\ AttemptFails("conflict")
    <3>1. \/ Contract!Finish("conflict")
          \/ (pc # "Idle")' /\ UNCHANGED <<key, value, result>>
      BY <2>0, <2>1, AttemptIsCall
    <3> QED BY <2>0, <2>1, <3>1, SameStore
            DEF Live, Abstract, Contract!Next, Contract!Refused, Contract!Live
  <2>2. CASE ~ Live /\ AttemptFails("not found")
    <3>1. Contract!Finish("not found")
      BY <2>0, <2>2, AttemptIsCall
    <3> QED BY <2>0, <2>2, <3>1, SameStore DEF Live, Contract!Next, Contract!Refused, Contract!Live
  <2> QED BY <1>4, <2>1, <2>2 DEF PatchRefused
<1>5. CASE PatchFails
  <2>1. Contract!Finish("other")
    BY <1>5, AttemptIsCall DEF PatchFails
  <2>2. Contract!Put(Contract!With(key, value)) \/ UNCHANGED store
    BY <1>5, ApplyIsPut DEF PatchFails
  <2> QED BY <2>1, <2>2 DEF Contract!Next, Contract!Lost
<1>6. CASE OtherWrites
  BY <1>6, SameStore DEF OtherWrites, call, Live, Writable, Current, Contract!Next,
              Contract!Others, Contract!Put, Contract!With, Contract!Live
<1>7. CASE Delete
  BY <1>7, SameStore DEF Delete, call, Live, Writable, Current, Contract!Next,
              Contract!Others, Contract!Put, Contract!Live
<1>8. CASE Sync
  BY <1>8, SameStore DEF Sync, call, Contract!Next, Contract!Others
<1>9. CASE GetInternalParams \/ UNCHANGED vars
  BY <1>9 DEF GetInternalParams, vars, call, Abstract
<1> QED BY <1>1, <1>2, <1>3, <1>4, <1>5, <1>6, <1>7, <1>8, <1>9
        DEF Next, PatchMetadata

(* patchMetadata implements the atomic call its callers rely on.              *)
THEOREM Refinement == Spec => ImplementsCall
BY UpdaterInvariant, ContractInit, ContractNext, PTL
   DEF Spec, Abstract, ImplementsCall, Contract!Spec
==============================================================================
