---------------------------- MODULE StatusUpdater ----------------------------
(* patchMetadata: one annotation or label set with Get and Patch, retried on  *)
(* conflicts. Reconciler takes a call of it as one Get and one outcome of     *)
(* Patch; here are its attempts, beside other writers of the same object.     *)
EXTENDS KubeStore, FiniteSets

CONSTANTS
  Keys,    \* the annotations (or labels) of the object
  Values,  \* the values the controller and the others give them
  Foreign, \* the keys others write
  Own,     \* the keys that provenance leaves out: argo.slsa.io/ but enable
  MaxLag   \* bound: versions the informer may be behind

ASSUME UpdaterAssumption ==
  /\ IsFiniteSet(Keys) /\ Foreign \subseteq Keys /\ Own \subseteq Keys
  /\ "none" \notin Values
  /\ MaxLag \in Nat \ {0}

VARIABLES
  store,   \* the versions of the object
  pc,      \* where the call is
  key, value, \* what it sets
  object,  \* the metadata of the caller's object, which outlives the call
  original,\* the copy the patch is computed from
  attempt, \* the attempt it is at
  result,  \* how the last call returned
  applied  \* whether the API server applied one of its patches

call == <<pc, key, value, object, original, attempt, result, applied>>
vars == <<store, call>>

Metadata == [Keys -> Values \cup {"none"}]
Object == [live : BOOLEAN, meta : Metadata]
NoMetadata == [k \in Keys |-> "none"]

Steps == 3 \* backoff.Steps

Writable == Len(store) <= MaxLag
Live == Stored(store).live
Current == Stored(store).meta

\* removeArgoSlsaInfo: the controller's own keys are deleted from the map.
WithoutOwn(m) == [k \in Keys |-> IF k \in Own THEN "none" ELSE m[k]]

\* Mutant: DeepCopyObject after the change instead of before it.
CopyTooLate(m) == [m EXCEPT ![key] = value]
\* The base of the patch: the object as Get returned it.
Copy(m) == m

\* Mutant: the whole object is written back.
PatchKeysAll == Keys
\* MergeFrom(original): the keys that differ from the base.
PatchKeys == {k \in Keys : object[k] # original[k]}
Patched == [k \in Keys |-> IF k \in PatchKeys THEN object[k] ELSE Current[k]]

\* Mutant: any error is retried.
IsRetriedAlways(error) == TRUE
\* Only a conflict is retried.
IsRetried(error) == error = "conflict"

\* Mutant: the attempts are not counted.
NextAttemptSame == attempt
NextAttempt == attempt + 1
------------------------------------------------------------------------------
\* Mutant: client.IgnoreNotFound around the error.
ReturnIgnoringNotFound(outcome) ==
  /\ pc' = "Idle" /\ result' = IF outcome = "not found" THEN "ok" ELSE outcome
  /\ UNCHANGED <<key, value, attempt>>
Return(outcome) == pc' = "Idle" /\ result' = outcome
                   /\ UNCHANGED <<key, value, attempt>>

(* retry.OnError: another attempt, or the last error.                         *)
AttemptFails(error) ==
  IF IsRetried(error) /\ attempt < Steps
  THEN /\ pc' = "Get" /\ attempt' = NextAttempt
       /\ UNCHANGED <<key, value, result>>
  ELSE Return(error)

Call ==
  /\ pc = "Idle"
  /\ \E k \in Keys, v \in Values : key' = k /\ value' = v
  /\ pc' = "Get" /\ attempt' = 1 /\ result' = "none" /\ applied' = FALSE
  /\ original' = NoMetadata
  /\ UNCHANGED <<store, object>>

Get ==
  /\ pc = "Get"
  /\ LET o == Cached(store) IN
     \/ /\ ~ o.live /\ AttemptFails("not found")
        /\ UNCHANGED <<object, original>>
     \/ /\ o.live /\ o.meta[key] = value /\ Return("ok")
        /\ object' = o.meta /\ original' = o.meta
     \/ /\ o.live /\ o.meta[key] # value
        /\ original' = Copy(o.meta)
        /\ object' = [o.meta EXCEPT ![key] = value]
        /\ pc' = "Patch" /\ UNCHANGED <<key, value, attempt, result>>
  /\ UNCHANGED <<store, applied>>

Apply == /\ Live /\ Writable
         /\ store' = Write(store, [live |-> TRUE, meta |-> Patched])
         /\ applied' = TRUE

PatchSucceeds ==
  /\ pc = "Patch"
  /\ Apply /\ object' = Patched /\ Return("ok")
  /\ UNCHANGED original

(* The API server refuses: too many writers at once, or the object is gone.   *)
PatchRefused ==
  /\ pc = "Patch"
  /\ \/ Live /\ AttemptFails("conflict")
     \/ ~ Live /\ AttemptFails("not found")
  /\ UNCHANGED <<store, object, original, applied>>

(* Any other error; a timeout leaves open whether the patch was applied.      *)
PatchFails ==
  /\ pc = "Patch" /\ Live
  /\ Apply \/ UNCHANGED <<store, applied>>
  /\ AttemptFails("other")
  /\ UNCHANGED <<object, original>>

(* Between two calls the caller generates provenance from its object, which   *)
(* takes labels out of the map the object holds.                              *)
GetInternalParams ==
  /\ pc = "Idle"
  /\ object' = WithoutOwn(object)
  /\ UNCHANGED <<store, pc, key, value, original, attempt, result, applied>>

PatchMetadata == Get \/ PatchSucceeds \/ PatchRefused \/ PatchFails

OtherWrites ==
  /\ Live /\ Writable
  /\ \E k \in Foreign, v \in Values :
       store' = Write(store, [live |-> TRUE, meta |-> [Current EXCEPT ![k] = v]])
  /\ UNCHANGED call

Delete == /\ Live /\ Writable
          /\ store' = Write(store, [live |-> FALSE, meta |-> Current])
          /\ UNCHANGED call

Sync == ~ Synced(store) /\ store' = Deliver(store) /\ UNCHANGED call

Init ==
  /\ store = <<[live |-> TRUE, meta |-> NoMetadata]>>
  /\ pc = "Idle" /\ key \in Keys /\ value \in Values
  /\ object = NoMetadata /\ original = NoMetadata
  /\ attempt = 1 /\ result = "none" /\ applied = FALSE

Next == Call \/ GetInternalParams \/ PatchMetadata \/ OtherWrites \/ Delete \/ Sync

Spec == Init /\ [][Next]_vars

(* The goroutine in the call keeps running, and the watch delivers.           *)
FairSpec == Spec /\ WF_vars(PatchMetadata) /\ WF_vars(Sync)
------------------------------------------------------------------------------
(* client.MergeFrom: a patch computed from a stale copy, or after the labels  *)
(* were taken out of the object in memory, changes no metadata but its own    *)
(* key: it undoes nothing another writer did and removes no label.            *)
OnlyOwnKeyChanges ==
  [][ pc = "Patch" /\ pc' # "Patch"
        => \A k \in Keys \ {key} : Stored(store').meta[k] = Current[k] ]_vars

(* patchMetadata returns nil: the API server stores the value, or did in the  *)
(* version the cache returned.                                                *)
SuccessWasStored ==
  [][ pc # "Idle" /\ result' = "ok"
        => \E o \in Versions(store') : o.meta[key] = value ]_vars

(* "conflict or not found": the caller, which goes on as if nothing had       *)
(* happened, is right that this call changed nothing.                         *)
ConflictChangedNothing ==
  result \in {"conflict", "not found"} => ~ applied

(* A call of patchMetadata returns, however many conflicts it meets.          *)
CallReturns == pc # "Idle" ~> pc = "Idle"

(* What the callers rely on: the attempts, the stale copy and the patch come  *)
(* to one write of one key, or none, reported as what it was.                 *)
Contract == INSTANCE MetadataCall WITH active <- pc # "Idle"
ImplementsCall == Contract!Spec
==============================================================================
