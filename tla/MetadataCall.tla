----------------------------- MODULE MetadataCall -----------------------------
(* What a caller of patchMetadata is promised: the call takes effect at one   *)
(* instant, on its own key of the version the API server stores then, or not  *)
(* at all, and its result says which. Attempts, copies and patches do not     *)
(* show. StatusUpdater is shown to implement it.                              *)
EXTENDS KubeStore

CONSTANTS Keys, Values, Foreign, MaxLag

VARIABLES
  store,      \* the versions of the object
  active,     \* whether a call runs
  key, value, \* what it sets
  result      \* how the last call returned

Live == Stored(store).live
Unknown == [k \in Keys |-> "none"]

\* The stored object with one key changed.
With(k, v) == [live |-> TRUE, meta |-> [Stored(store).meta EXCEPT ![k] = v]]
Put(o) == Live /\ Len(store) <= MaxLag /\ store' = Write(store, o)

Start == /\ ~ active /\ active' = TRUE /\ result' = "none"
         /\ key' \in Keys /\ value' \in Values
         /\ UNCHANGED store

Finish(outcome) == /\ active /\ active' = FALSE /\ result' = outcome
                   /\ UNCHANGED <<key, value>>

\* nil: the value is stored now, or was when the cache was filled.
Succeeds == Finish("ok") /\ Put(With(key, value))
Already == /\ Finish("ok") /\ Cached(store).live /\ Cached(store).meta[key] = value
           /\ UNCHANGED store

\* "conflict or not found": nothing happened.
Refused == /\ \/ Finish("conflict") /\ Live
              \/ Finish("not found") /\ (~ Live \/ ~ Cached(store).live)
           /\ UNCHANGED store

\* Another error leaves open whether the value is stored.
Lost == Finish("other") /\ (Put(With(key, value)) \/ UNCHANGED store)

Others ==
  /\ \/ \E k \in Foreign, v \in Values : Put(With(k, v))
     \/ Put([live |-> FALSE, meta |-> Stored(store).meta])
     \/ ~ Synced(store) /\ store' = Deliver(store)
  /\ UNCHANGED <<active, key, value, result>>

Init == /\ store = <<[live |-> TRUE, meta |-> Unknown]>>
        /\ active = FALSE /\ key \in Keys /\ value \in Values /\ result = "none"

Next == Start \/ Succeeds \/ Already \/ Refused \/ Lost \/ Others

Spec == Init /\ [][Next]_<<store, active, key, value, result>>
==============================================================================
