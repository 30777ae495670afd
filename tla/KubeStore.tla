------------------------------ MODULE KubeStore ------------------------------
(* One object of the Kubernetes API server as the controller sees it: the     *)
(* versions from the one in the informer cache (the first) up to the one the  *)
(* API server stores (the last). The manager's client reads the cache and     *)
(* writes to the API server, so a read may be as old as the informer is late. *)
(* The API server and client-go are external: this is what the calls          *)
(* k8sClient.Get and k8sClient.Patch of the code can observe.                 *)
EXTENDS Naturals, Sequences, SequenceTheorems, WellFoundedInduction, TLAPS

Histories(S) == Seq(S) \ {<<>>}

Cached(vs) == vs[1]
Stored(vs) == vs[Len(vs)]
Versions(vs) == {vs[n] : n \in 1 .. Len(vs)}

\* The informer has delivered everything the API server stores.
Synced(vs) == Len(vs) = 1

\* The API server stores a new version, which the cache does not know yet; a
\* write that changes nothing makes no version, and no event.
Write(vs, v) == IF v = Stored(vs) THEN vs ELSE Append(vs, v)
\* A watch event: the cache moves to the next version.
Deliver(vs) == Tail(vs)
\* A restarted informer lists the current state.
Relist(vs) == <<Stored(vs)>>
------------------------------------------------------------------------------
(* A read of the cache or of the API server returns one of the versions: the  *)
(* Get of patchMetadata and the Get of the reconciler never return anything   *)
(* nobody wrote.                                                              *)
LEMMA ReadIsVersion ==
  ASSUME NEW S, NEW vs \in Histories(S)
  PROVE  /\ Cached(vs) \in Versions(vs)
         /\ Stored(vs) \in Versions(vs)
         /\ Versions(vs) \subseteq S
BY DEF Histories, Cached, Stored, Versions

(* A patch adds its version, if it is another one, which becomes the stored   *)
(* one and leaves the cached one as it was: a controller does not read its    *)
(* own write at once.                                                         *)
LEMMA WriteAddsVersion ==
  ASSUME NEW S, NEW vs \in Histories(S), NEW v \in S
  PROVE  /\ Write(vs, v) \in Histories(S)
         /\ Versions(Write(vs, v)) = Versions(vs) \cup {v}
         /\ Stored(Write(vs, v)) = v
         /\ Cached(Write(vs, v)) = Cached(vs)
<1>0. CASE v = Stored(vs)
  BY <1>0, ReadIsVersion DEF Write, Stored
<1>1. /\ Append(vs, v) \in Seq(S)
      /\ Len(Append(vs, v)) = Len(vs) + 1
      /\ Append(vs, v)[Len(vs) + 1] = v
      /\ \A n \in 1 .. Len(vs) : Append(vs, v)[n] = vs[n]
      /\ Len(vs) \in Nat \ {0}
  BY DEF Histories
<1>2. ASSUME v # Stored(vs)
      PROVE  Versions(Write(vs, v)) = Versions(vs) \cup {v}
  <2>1. 1 .. (Len(vs) + 1) = (1 .. Len(vs)) \cup {Len(vs) + 1}
    BY <1>1
  <2> QED BY <1>1, <1>2, <2>1 DEF Versions, Write
<1>3. CASE v # Stored(vs)
  BY <1>1, <1>2, <1>3 DEF Histories, Write, Stored, Cached
<1> QED BY <1>0, <1>3

(* A watch event or a relist brings no version that was not there, and the    *)
(* stored version stays.                                                      *)
LEMMA DeliveryKeepsVersions ==
  ASSUME NEW S, NEW vs \in Histories(S)
  PROVE  /\ ~ Synced(vs) => /\ Deliver(vs) \in Histories(S)
                            /\ Versions(Deliver(vs)) \subseteq Versions(vs)
                            /\ Stored(Deliver(vs)) = Stored(vs)
         /\ Relist(vs) \in Histories(S)
         /\ Versions(Relist(vs)) \subseteq Versions(vs)
         /\ Stored(Relist(vs)) = Stored(vs)
<1>1. ASSUME ~ Synced(vs)
      PROVE  /\ Deliver(vs) \in Histories(S)
             /\ Versions(Deliver(vs)) \subseteq Versions(vs)
             /\ Stored(Deliver(vs)) = Stored(vs)
  <2>0. vs \in Seq(S) /\ vs # <<>> /\ Len(vs) \in Nat /\ Len(vs) > 1
    <3>1. vs \in Seq(S) /\ vs # <<>> /\ Len(vs) # 1
      BY <1>1 DEF Histories, Synced
    <3>2. Len(vs) \in Nat /\ Len(vs) # 0
      BY <3>1, EmptySeq
    <3>3. \A n \in Nat : n # 0 /\ n # 1 => n > 1
      OBVIOUS
    <3> QED BY <3>1, <3>2, <3>3, Zenon
  <2>1. /\ Tail(vs) \in Seq(S)
        /\ Len(Tail(vs)) = Len(vs) - 1
        /\ Len(vs) \in Nat /\ Len(vs) > 1
        /\ \A n \in 1 .. Len(vs) - 1 : Tail(vs)[n] = vs[n + 1]
    BY <2>0, HeadTailProperties
  <2>2. Versions(Tail(vs)) \subseteq Versions(vs)
    <3>1. \A n \in 1 .. Len(vs) - 1 : n + 1 \in 1 .. Len(vs)
      BY <2>1
    <3> QED BY <2>1, <3>1 DEF Versions
  <2>3. Stored(Tail(vs)) = Stored(vs)
    BY <2>1 DEF Stored
  <2> QED BY <2>1, <2>2, <2>3 DEF Deliver, Histories
<1>2. /\ Relist(vs) \in Seq(S)
      /\ Len(Relist(vs)) = 1
      /\ Relist(vs)[1] = Stored(vs)
      /\ Stored(vs) \in Versions(vs)
  BY ReadIsVersion DEF Relist, Stored, Histories, Versions
<1>3. Versions(Relist(vs)) = {Stored(vs)}
  BY <1>2 DEF Versions
<1>4. Stored(Relist(vs)) = Stored(vs)
  BY <1>2 DEF Stored
<1>5. Relist(vs) \in Histories(S) /\ Versions(Relist(vs)) \subseteq Versions(vs)
  BY <1>2, <1>3 DEF Histories
<1> QED BY <1>1, <1>4, <1>5
------------------------------------------------------------------------------
(* A loop that looks for the first position finds it.                         *)
LEMMA LeastPosition ==
  ASSUME NEW S \in SUBSET Nat, S # {}
  PROVE  \E n \in S : \A k \in S : n <= k
<1> DEFINE R == OpToRel(<, Nat)
<1>1. IsWellFoundedOn(R, Nat)
  BY NatLessThanWellFounded, Zenon
<1>2. \A k, n \in Nat : k < n => <<k, n>> \in R
  BY DEF OpToRel
<1> HIDE DEF R
<1>3. PICK n \in S : \A k \in S : <<k, n>> \notin R
  BY <1>1, WFMin
<1>4. \A k \in S : ~ k < n
  BY <1>2, <1>3
<1>5. \A k \in S : n <= k
  BY <1>4
<1> QED BY <1>5
==============================================================================
