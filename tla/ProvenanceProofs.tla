--------------------------- MODULE ProvenanceProofs ---------------------------
(* What is signed and what is said about it, for every number of pods, every  *)
(* list of output parameters and arguments, any lag of the informers and any  *)
(* number of crashes and failing calls.                                       *)
EXTENDS Provenance, FiniteSetTheorems

Outcomes == FinalOutputs \cup {NewWorkflow.outputs}
States == {"none", "set", "In-Progress", "Completed", "Error"}
Workflows == [labels : [Labels -> States], finished : BOOLEAN, outputs : Outcomes]
Values == Digests \cup {"none", "NotFound", "In-Progress", "Skipped", "Completed",
                        "Error", "Attached"}
Annotations == [AnnKeys -> Values]
Statuses == [ann : Annotations, found : BOOLEAN, info : Values,
             signed : BOOLEAN, reconciled : BOOLEAN]
Places == {"Idle", "Pods", "InProgress", "Artifacts", "Signing", "Signed", "Final",
           "Attest", "Attached", "NotAttached", "Skipped", "LabelError",
           "LabelCompleted"}

(* A pod names one reference or none. Whatever version of its annotations a   *)
(* reconcile has, and whether it is loaded or half loaded, it has no other.   *)
Named(p) == Extract(outputs[p])
GoodAnn(p) == {c \in Annotations : c["artifacts"] \in {"none", Named(p)}}
GoodMem(p) == {m \in Statuses : /\ m.ann \in GoodAnn(p)
                                /\ m.info \in {"none", Named(p)}
                                /\ m.found => Named(p) # "NotFound"}

\* A provenance annotation is not taken back.
Told(vs) == Stored(vs)["provenance"] # "none"
KeepsProvenance(vs) == ~ Told(vs) => \A v \in Versions(vs) : v["provenance"] = "none"
PodsInv ==
  /\ podStore \in [Pods -> Histories(Annotations)]
  /\ \A p \in Pods : podStore[p] \in Histories(GoodAnn(p)) /\ KeepsProvenance(podStore[p])
MemInv == mem \in [Pods -> Statuses] /\ \A p \in Pods : mem[p] \in GoodMem(p)

TypeInv ==
  /\ outputs \in [Pods -> OutputLists] /\ arguments \in ArgumentLists
  /\ store \in Histories(Workflows)
  /\ PodsInv /\ MemInv
  /\ signed \in [Pods -> SUBSET Values]
  /\ IsSequence(statements)
  /\ pc \in Places /\ todo \subseteq Pods /\ current \in Pods
  /\ wf \in Workflows /\ read \in Workflows
  /\ faults \in Nat

(* Statements take nothing from the Workflow but the controller's own labels. *)
CopyInv ==
  /\ WithoutOwn(wf) = WithoutOwn(read)
  /\ DescribesWhatWasRead

(* The pods a statement was made for, as far as the API server or the worker  *)
(* knows; every statement that is no repetition from a stale copy is that of  *)
(* one of them, or cost a crash or a failing call.                            *)
Making == IF pc \in {"Attached", "NotAttached"} THEN {current} ELSE {}
Annotated == {p \in Pods : Told(podStore[p])}
FreshOnes == {n \in 1 .. Len(statements) : ~ statements[n].stale}
CountInv == Cardinality(FreshOnes) <= Cardinality(Annotated \cup Making) + faults
------------------------------------------------------------------------------
(* The folds of the code, for lists of any length. A fold starts at the last  *)
(* position of the list and works on what the positions before it give.       *)

\* Every set of positions has a last one.
LEMMA LastPosition ==
  ASSUME NEW N \in Nat, NEW s \in SUBSET (1 .. N), s # {}
  PROVE  Max(s) \in s /\ \A k \in s : k <= Max(s)
<1> DEFINE D == {N - k : k \in s}
<1>0. D \in SUBSET Nat /\ D # {}
  <2>1. PICK k \in s : TRUE
    OBVIOUS
  <2>2. N - k \in D
    OBVIOUS
  <2>3. \A d \in D : d \in Nat
    OBVIOUS
  <2> QED BY <2>2, <2>3
<1> HIDE DEF D
<1>1. PICK d \in D : \A e \in D : d <= e
  BY <1>0, LeastPosition
<1> USE DEF D
<1>2. PICK n \in s : d = N - n
  BY <1>1
<1>3. \A k \in s : N - n <= N - k
  BY <1>1, <1>2
<1>4. \A k \in s : n >= k
  BY <1>3
<1>5. Max(s) \in s /\ \A k \in s : Max(s) >= k
  BY <1>4 DEF Max
<1> QED BY <1>5

\* What agrees at the start, and in each step if in the one before, agrees.
LEMMA AgreeToTheEnd ==
  ASSUME NEW N \in Nat, NEW f, NEW g, f[0] = g[0],
         \A n \in 1 .. N : f[n - 1] = g[n - 1] => f[n] = g[n]
  PROVE  f[N] = g[N]
<1> DEFINE Differ == {n \in 0 .. N : f[n] # g[n]}
<1> SUFFICES ASSUME Differ # {} PROVE FALSE
  OBVIOUS
<1>0. Differ \in SUBSET Nat
  OBVIOUS
<1> HIDE DEF Differ
<1>1. PICK n \in Differ : \A k \in Differ : n <= k
  BY <1>0, LeastPosition
<1> USE DEF Differ
<1>2. n \in 1 .. N /\ n - 1 \notin Differ
  BY <1>1
<1>3. f[n - 1] = g[n - 1]
  BY <1>2
<1> QED BY <1>1, <1>2, <1>3

\* The positions up to n, but for the last.
LEMMA PositionsUpTo ==
  ASSUME NEW N \in Nat, NEW n \in 1 .. N
  PROVE  Max(1 .. n) = n /\ (1 .. n) \ {n} = 1 .. (n - 1)
<1>1. 1 .. n \in SUBSET (1 .. N) /\ n \in 1 .. n
  OBVIOUS
<1>2. Max(1 .. n) \in 1 .. n /\ n <= Max(1 .. n)
  BY <1>1, LastPosition
<1> QED BY <1>2

\* The last matches in a set of positions: one, or none.
LastMatches(params, s) ==
  {n \in s : Matches(params[n]) /\ \A k \in s : k > n => ~ Matches(params[k])}
Choice(params, s) ==
  LET last == CHOOSE n \in s : TRUE IN
  IF s # {} /\ CheckOCI(params[last].value) THEN params[last].value ELSE "NotFound"
Loop(params, iter) ==
  iter = [s \in SUBSET DOMAIN params |->
            IF s = {} THEN "NotFound"
            ELSE LET n == Max(s) IN
                 IF ~ Matches(params[n]) THEN iter[s \ {n}]
                 ELSE IF CheckOCI(params[n].value) THEN params[n].value ELSE "NotFound"]

LEMMA LoopStep ==
  ASSUME NEW params, NEW N \in Nat, NEW s \in SUBSET (1 .. N), s # {}
  PROVE  LET n == Max(s) IN
         Choice(params, LastMatches(params, s))
           = IF ~ Matches(params[n]) THEN Choice(params, LastMatches(params, s \ {n}))
             ELSE IF CheckOCI(params[n].value) THEN params[n].value ELSE "NotFound"
<1> DEFINE n == Max(s)
<1>1. n \in s /\ \A k \in s : k <= n
  BY LastPosition
<1> HIDE DEF n
<1>2. CASE ~ Matches(params[n])
  <2>1. LastMatches(params, s) = LastMatches(params, s \ {n})
    BY <1>1, <1>2 DEF LastMatches
  <2> QED BY <1>2, <2>1 DEF n
<1>3. CASE Matches(params[n])
  <2>1. LastMatches(params, s) = {n}
    <3>1. \A k \in s : k > n => FALSE
      BY <1>1
    <3>2. n \in LastMatches(params, s)
      BY <1>1, <1>3, <3>1 DEF LastMatches
    <3>3. \A k \in s : k # n => n > k
      BY <1>1
    <3>4. \A k \in LastMatches(params, s) : k = n
      BY <1>1, <1>3, <3>3 DEF LastMatches
    <3> QED BY <3>2, <3>4
  <2>2. (CHOOSE k \in {n} : TRUE) = n
    OBVIOUS
  <2>3. Choice(params, {n})
          = IF CheckOCI(params[n].value) THEN params[n].value ELSE "NotFound"
    BY <2>2 DEF Choice
  <2> QED BY <1>3, <2>1, <2>3 DEF n
<1> QED BY <1>2, <1>3

(* The loop of handleArtifactInfo leaves the value of the last match.         *)
LEMMA ExtractIsLastMatch ==
  ASSUME NEW params, IsSequence(params)
  PROVE  Extract(params) = Choice(params, LastMatches(params, DOMAIN params))
<1> DEFINE N == Len(params)
           D == DOMAIN params
           iter == CHOOSE f : Loop(params, f)
           closed == [s \in SUBSET D |-> Choice(params, LastMatches(params, s))]
<1>1. N \in Nat /\ D = 1 .. N
  BY DEF IsSequence
<1>2. Extract(params) = iter[D]
  BY SMT DEF Extract, FoldLeft, MapThenFoldSet, Loop
<1>3. closed[{}] = "NotFound"
  BY DEF Choice, LastMatches
<1>4. Loop(params, closed)
  <2>1. ASSUME NEW s \in SUBSET D, s # {}
        PROVE  LET n == Max(s) IN
               closed[s] = IF ~ Matches(params[n]) THEN closed[s \ {n}]
                           ELSE IF CheckOCI(params[n].value) THEN params[n].value
                           ELSE "NotFound"
    <3>1. s \ {Max(s)} \in SUBSET D
      OBVIOUS
    <3> QED BY <1>1, <2>1, <3>1, LoopStep
  <2> HIDE DEF closed
  <2>2. closed = [s \in SUBSET D |-> closed[s]]
    BY DEF closed
  <2> QED BY <1>3, <2>1, <2>2 DEF Loop
<1>5. Loop(params, iter)
  BY <1>4
<1> HIDE DEF iter
<1>6. iter[{}] = closed[{}]
  BY <1>3, <1>5 DEF Loop
<1>7. ASSUME NEW n \in 1 .. N, iter[1 .. n - 1] = closed[1 .. n - 1]
      PROVE  iter[1 .. n] = closed[1 .. n]
  <2>1. 1 .. n \in SUBSET D /\ 1 .. n # {}
    BY <1>1
  <2>2. Max(1 .. n) = n /\ (1 .. n) \ {n} = 1 .. (n - 1)
    BY <1>1, PositionsUpTo
  <2>3. \A h : Loop(params, h) =>
          h[1 .. n] = IF ~ Matches(params[n]) THEN h[1 .. (n - 1)]
                      ELSE IF CheckOCI(params[n].value) THEN params[n].value ELSE "NotFound"
    BY <2>1, <2>2 DEF Loop
  <2> QED BY <1>4, <1>5, <1>7, <2>3
<1> DEFINE f == [n \in 0 .. N |-> iter[1 .. n]]
           g == [n \in 0 .. N |-> closed[1 .. n]]
<1> HIDE DEF closed
<1>8. f[0] = g[0]
  BY <1>1, <1>6
<1>9. \A n \in 1 .. N : f[n - 1] = g[n - 1] => f[n] = g[n]
  BY <1>1, <1>7
<1> HIDE DEF f, g
<1>10. f[N] = g[N]
  BY <1>1, <1>8, <1>9, AgreeToTheEnd
<1>11. iter[D] = closed[D]
  BY <1>1, <1>10 DEF f, g
<1> QED BY <1>2, <1>11 DEF closed

(* It names a digest exactly when the last match does.                        *)
LEMMA ExtractNames ==
  ASSUME NEW params, IsSequence(params)
  PROVE  /\ Extract(params) \in Digests \cup {"NotFound"}
         /\ NamedBy(params)
              = IF Extract(params) = "NotFound" THEN {} ELSE {Extract(params)}
<1> DEFINE last == LastMatches(params, DOMAIN params)
<1>1. DOMAIN params = 1 .. Len(params) /\ Len(params) \in Nat
  BY DEF IsSequence
<1>2. last = {n \in 1 .. Len(params) : IsLastMatch(params, n)}
  <2>1. ASSUME NEW n \in 1 .. Len(params)
        PROVE  (\A k \in 1 .. Len(params) : k > n => ~ Matches(params[k]))
                 <=> (\A k \in n + 1 .. Len(params) : ~ Matches(params[k]))
    BY <1>1
  <2> QED BY <1>1, <2>1 DEF LastMatches, IsLastMatch
<1>3. Extract(params) = Choice(params, last)
  BY ExtractIsLastMatch
<1>4. NamedBy(params) = {params[n].value : n \in last} \cap Digests
  BY <1>2 DEF NamedBy
<1>5. \A n, k \in last : n = k
  <2>1. \A n, k \in last : ~ n < k /\ ~ k < n
    BY <1>1 DEF LastMatches
  <2>2. last \subseteq Nat
    BY <1>1 DEF LastMatches
  <2> QED BY <2>1, <2>2
<1> HIDE DEF last
<1>6. CASE last = {}
  BY <1>3, <1>4, <1>6 DEF Choice
<1>7. CASE last # {}
  <2>1. PICK n \in last : last = {n}
    BY <1>5, <1>7
  <2>2. Extract(params) = IF params[n].value \in Digests THEN params[n].value ELSE "NotFound"
    <3>1. (CHOOSE k \in {n} : TRUE) = n
      OBVIOUS
    <3> QED BY <1>3, <2>1, <3>1 DEF Choice, CheckOCI
  <2>3. NamedBy(params) = {params[n].value} \cap Digests
    BY <1>4, <2>1
  <2>4. "NotFound" \notin Digests
    BY ProvenanceAssumption
  <2> QED BY <2>2, <2>3, <2>4
<1> QED BY <1>6, <1>7
------------------------------------------------------------------------------
(* GetExternalParams: the last value of every name, then the specification.   *)

Names(args, s) == {args[n].name : n \in s}
LastNamed(args, s, x) ==
  {n \in s : args[n].name = x /\ \A k \in s : k > n => args[k].name # x}
ValueAt(args, last) == args[CHOOSE n \in last : TRUE].value
Chosen(args, s) == [x \in Names(args, s) |-> ValueAt(args, LastNamed(args, s, x))]
Nothing == [x \in {} |-> "none"]
Collect(args, iter) ==
  iter = [s \in SUBSET DOMAIN args |->
            IF s = {} THEN Nothing
            ELSE LET n == Max(s) IN Put(iter[s \ {n}], args[n].name, args[n].value)]

LEMMA CollectStep ==
  ASSUME NEW args, NEW N \in Nat, NEW s \in SUBSET (1 .. N), s # {}
  PROVE  LET n == Max(s) IN
         Chosen(args, s) = Put(Chosen(args, s \ {n}), args[n].name, args[n].value)
<1> DEFINE n == Max(s)
           before == s \ {n}
           name == args[n].name
<1>0. n \in s /\ \A k \in s : k <= n
  BY LastPosition
<1> HIDE DEF n
<1>1. n \in s /\ \A k \in before : n > k
  BY <1>0
<1>2. Names(args, s) = Names(args, before) \cup {name}
  BY <1>1 DEF Names
<1>3. LastNamed(args, s, name) = {n}
  <2>1. \A k \in s : ~ k > n
    BY <1>1
  <2>2. n \in LastNamed(args, s, name)
    BY <1>1, <2>1 DEF LastNamed
  <2>3. \A k \in LastNamed(args, s, name) : k = n
    BY <1>1 DEF LastNamed
  <2> QED BY <2>2, <2>3
<1>4. ASSUME NEW x, x # name
      PROVE  LastNamed(args, s, x) = LastNamed(args, before, x)
  BY <1>1, <1>4 DEF LastNamed
<1>5. ValueAt(args, {n}) = args[n].value
  <2>1. (CHOOSE k \in {n} : TRUE) = n
    OBVIOUS
  <2> QED BY <2>1 DEF ValueAt
<1>6. Chosen(args, s)
        = [x \in Names(args, before) \cup {name} |->
             IF x = name THEN args[n].value
             ELSE ValueAt(args, LastNamed(args, before, x))]
  BY <1>2, <1>3, <1>4, <1>5 DEF Chosen
<1>7. Put(Chosen(args, before), name, args[n].value)
        = [x \in Names(args, before) \cup {name} |->
             IF x = name THEN args[n].value
             ELSE ValueAt(args, LastNamed(args, before, x))]
  BY DEF Put, Chosen
<1> QED BY <1>6, <1>7 DEF n

(* The loop collects the last value of every name.                            *)
LEMMA CollectsLast ==
  ASSUME NEW args, IsSequence(args)
  PROVE  ExternalParams(args) = Put(Chosen(args, DOMAIN args), "runSpec", "spec")
<1> DEFINE N == Len(args)
           D == DOMAIN args
           iter == CHOOSE f : Collect(args, f)
           closed == [s \in SUBSET D |-> Chosen(args, s)]
<1>1. N \in Nat /\ D = 1 .. N
  BY DEF IsSequence
<1>2. ExternalParams(args) = Put(iter[D], "runSpec", "spec")
  BY SMT DEF ExternalParams, FoldLeft, MapThenFoldSet, Collect, Nothing
<1>3. closed[{}] = Nothing
  BY DEF Chosen, Names, Nothing
<1>4. Collect(args, closed)
  <2>1. ASSUME NEW s \in SUBSET D, s # {}
        PROVE  LET n == Max(s) IN
               closed[s] = Put(closed[s \ {n}], args[n].name, args[n].value)
    <3>1. s \ {Max(s)} \in SUBSET D
      OBVIOUS
    <3> QED BY <1>1, <2>1, <3>1, CollectStep
  <2> HIDE DEF closed
  <2>2. closed = [s \in SUBSET D |-> closed[s]]
    BY DEF closed
  <2> QED BY <1>3, <2>1, <2>2 DEF Collect
<1>5. Collect(args, iter)
  BY <1>4
<1> HIDE DEF iter, closed
<1>6. iter[{}] = closed[{}]
  BY <1>3, <1>5 DEF Collect
<1>7. ASSUME NEW n \in 1 .. N, iter[1 .. n - 1] = closed[1 .. n - 1]
      PROVE  iter[1 .. n] = closed[1 .. n]
  <2>1. 1 .. n \in SUBSET D /\ 1 .. n # {}
    BY <1>1
  <2>2. Max(1 .. n) = n /\ (1 .. n) \ {n} = 1 .. (n - 1)
    BY <1>1, PositionsUpTo
  <2>3. \A h : Collect(args, h) =>
          h[1 .. n] = Put(h[1 .. (n - 1)], args[n].name, args[n].value)
    BY <2>1, <2>2 DEF Collect
  <2> QED BY <1>4, <1>5, <1>7, <2>3
<1> DEFINE f == [n \in 0 .. N |-> iter[1 .. n]]
           g == [n \in 0 .. N |-> closed[1 .. n]]
<1>8. f[0] = g[0]
  BY <1>1, <1>6
<1>9. \A n \in 1 .. N : f[n - 1] = g[n - 1] => f[n] = g[n]
  BY <1>1, <1>7
<1> HIDE DEF f, g
<1>10. f[N] = g[N]
  BY <1>1, <1>8, <1>9, AgreeToTheEnd
<1>11. iter[D] = closed[D]
  BY <1>1, <1>10 DEF f, g
<1> QED BY <1>2, <1>11 DEF closed

LEMMA ExternalParamsHold ==
  ASSUME IsSequence(arguments)
  PROVE  LET external == ExternalParams(arguments) IN
         /\ DOMAIN external
              = {arguments[k].name : k \in 1 .. Len(arguments)} \cup {"runSpec"}
         /\ \A x \in DOMAIN external :
              external[x] = IF x = "runSpec" THEN "spec" ELSE LastValue(x)
<1> DEFINE D == 1 .. Len(arguments)
<1>1. D = DOMAIN arguments /\ Len(arguments) \in Nat
  BY DEF IsSequence
<1>2. ExternalParams(arguments)
        = [x \in Names(arguments, D) \cup {"runSpec"} |->
             IF x = "runSpec" THEN "spec" ELSE Chosen(arguments, D)[x]]
  <2>1. DOMAIN Chosen(arguments, D) = Names(arguments, D)
    BY DEF Chosen
  <2>2. ExternalParams(arguments) = Put(Chosen(arguments, D), "runSpec", "spec")
    BY <1>1, CollectsLast
  <2> QED BY <2>1, <2>2 DEF Put
<1>3. ASSUME NEW x \in Names(arguments, D)
      PROVE  Chosen(arguments, D)[x] = LastValue(x)
  <2> DEFINE Is(n) == arguments[n].name = x /\ \A k \in n + 1 .. Len(arguments) :
                                                  arguments[k].name # x
  <2>1. LastNamed(arguments, D, x) = {n \in D : Is(n)}
    <3>1. ASSUME NEW n \in D
          PROVE  (\A k \in D : k > n => arguments[k].name # x)
                   <=> (\A k \in n + 1 .. Len(arguments) : arguments[k].name # x)
      BY <1>1
    <3> QED BY <3>1 DEF LastNamed
  <2>2. LastValue(x) = arguments[CHOOSE n \in D : Is(n)].value
    BY DEF LastValue
  <2>3. (CHOOSE n \in D : Is(n)) = CHOOSE n \in {k \in D : Is(k)} : TRUE
    OBVIOUS
  <2> QED BY <2>1, <2>2, <2>3 DEF Chosen, ValueAt
<1> QED BY <1>2, <1>3 DEF Names
------------------------------------------------------------------------------
(* Types. The inputs are lists of any length, and a step appends to the       *)
(* statements whatever it says.                                               *)

LEMMA AppendStaysSequence ==
  ASSUME NEW s, IsSequence(s), NEW x
  PROVE  /\ IsSequence(Append(s, x)) /\ Len(s) \in Nat
         /\ Len(Append(s, x)) = Len(s) + 1
         /\ Append(s, x)[Len(s) + 1] = x
         /\ \A n \in 1 .. Len(s) : Append(s, x)[n] = s[n]
<1> DEFINE S == ToSet(s) \cup {x}
<1>1. s \in Seq(S)
  <2>1. s \in Seq(ToSet(s)) /\ ToSet(s) \subseteq S
    BY DEF IsSequence
  <2> HIDE DEF S
  <2> QED BY <2>1
<1>2. x \in S
  OBVIOUS
<1> HIDE DEF S
<1>3. /\ Append(s, x) \in Seq(S) /\ Len(s) \in Nat
      /\ Len(Append(s, x)) = Len(s) + 1
      /\ Append(s, x)[Len(s) + 1] = x
      /\ \A n \in 1 .. Len(s) : Append(s, x)[n] = s[n]
  BY <1>1, <1>2
<1>4. \A T, t : t \in Seq(T) => t \in Seq(ToSet(t))
  BY DEF ToSet
<1> QED BY <1>3, <1>4 DEF IsSequence

LEMMA InputFacts ==
  ASSUME outputs \in [Pods -> OutputLists], arguments \in ArgumentLists
  PROVE  /\ IsSequence(arguments)
         /\ \A p \in Pods :
              /\ Named(p) \in Digests \cup {"NotFound"}
              /\ NamedBy(outputs[p]) = IF Named(p) = "NotFound" THEN {} ELSE {Named(p)}
         /\ Digests \cap {"none", "NotFound"} = {}
<1>1. IsSequence(arguments) /\ \A p \in Pods : IsSequence(outputs[p])
  BY ProvenanceAssumption
<1>2. ASSUME NEW p \in Pods
      PROVE  /\ Named(p) \in Digests \cup {"NotFound"}
             /\ NamedBy(outputs[p]) = IF Named(p) = "NotFound" THEN {} ELSE {Named(p)}
  BY <1>1, ExtractNames DEF Named
<1> QED BY <1>1, <1>2, ProvenanceAssumption

LEMMA StoredType ==
  ASSUME TypeInv
  PROVE  /\ Stored(store) \in Workflows /\ Cached(store) \in Workflows
         /\ \A p \in Pods : /\ Stored(podStore[p]) \in GoodAnn(p)
                            /\ Cached(podStore[p]) \in GoodAnn(p)
                            /\ Stored(podStore[p]) \in Versions(podStore[p])
                            /\ Cached(podStore[p]) \in Versions(podStore[p])
<1>1. Stored(store) \in Workflows /\ Cached(store) \in Workflows
  BY ReadIsVersion DEF TypeInv
<1>2. ASSUME NEW p \in Pods
      PROVE  /\ Stored(podStore[p]) \in GoodAnn(p)
             /\ Cached(podStore[p]) \in GoodAnn(p)
             /\ Stored(podStore[p]) \in Versions(podStore[p])
             /\ Cached(podStore[p]) \in Versions(podStore[p])
  BY ReadIsVersion DEF TypeInv, PodsInv
<1> QED BY <1>1, <1>2

\* A label is replaced by another value.
LEMMA LabelledType ==
  ASSUME NEW w \in Workflows, NEW l \in Labels, NEW val \in States
  PROVE  /\ [w EXCEPT !.labels[l] = val] \in Workflows
         /\ WithStatus(w, val) \in Workflows
BY ProvenanceAssumption DEF Workflows, WithStatus

LEMMA NewTypes ==
  /\ NewWorkflow \in Workflows /\ NewStatus \in Statuses
  /\ (CHOOSE p \in Pods : TRUE) \in Pods
  /\ \A p \in Pods : NewStatus \in GoodMem(p) /\ NoAnn \in GoodAnn(p)
  /\ <<NewWorkflow>> \in Histories(Workflows)
<1>1. NewWorkflow \in Workflows
  BY DEF NewWorkflow, Workflows, Outcomes, States
<1>2. NoAnn \in Annotations /\ NoAnn["artifacts"] = "none"
  BY DEF NoAnn, Annotations, Values, AnnKeys
<1>3. NewStatus \in Statuses /\ NewStatus.ann = NoAnn /\ NewStatus.info = "none"
      /\ ~ NewStatus.found
  BY <1>2 DEF NewStatus, Statuses, Values
<1>4. <<NewWorkflow>> \in Histories(Workflows)
  BY <1>1 DEF Histories
<1> QED BY <1>1, <1>2, <1>3, <1>4, ProvenanceAssumption DEF GoodMem, GoodAnn

LEMMA InitTypes == Init => TypeInv
<1> SUFFICES ASSUME Init PROVE TypeInv
  OBVIOUS
<1>1. IsSequence(<<>>)
  BY DEF IsSequence
<1>2. ASSUME NEW p \in Pods
      PROVE  /\ <<NoAnn>> \in Histories(GoodAnn(p)) /\ <<NoAnn>> \in Histories(Annotations)
             /\ KeepsProvenance(<<NoAnn>>)
  <2>1. NoAnn \in GoodAnn(p) /\ NoAnn \in Annotations
    BY NewTypes DEF GoodAnn
  <2>2. Versions(<<NoAnn>>) = {NoAnn} /\ NoAnn["provenance"] = "none"
    BY DEF Versions, NoAnn, AnnKeys
  <2> QED BY <2>1, <2>2 DEF Histories, KeepsProvenance
<1>3. PodsInv
  BY <1>2 DEF Init, PodsInv
<1>4. MemInv
  BY NewTypes DEF Init, MemInv
<1> QED BY <1>1, <1>3, <1>4, NewTypes DEF Init, TypeInv, Places

LEMMA InputsStay ==
  ASSUME [Next]_vars
  PROVE  outputs' = outputs /\ arguments' = arguments
BY DEF Next, Worker, vars, input, Begin, BeginFails, ReconcilePod, MarkInProgress,
       HandleArtifactInfo, HandleArtifactSigning, AnnotateSigned, UpdateFinalStatus,
       ValidateAllPodsReconciled, HandleProvenanceAttachment, AnnotateProvenance,
       Complete, UpdateWorkflowStatus, Crash, Finish, Relabel, SyncWorkflow, SyncPod
------------------------------------------------------------------------------
(* The annotations of the pods and what the worker has of them. A step leaves *)
(* the pods in order, and takes no provenance annotation back.                *)

PodsMove == PodsInv' /\ \A p \in Pods : Told(podStore[p]) => Told(podStore'[p])

LEMMA GoodStays ==
  ASSUME outputs' = outputs, NEW p
  PROVE  Named(p)' = Named(p) /\ GoodAnn(p)' = GoodAnn(p) /\ GoodMem(p)' = GoodMem(p)
BY DEF Named, GoodAnn, GoodMem

LEMMA PodsUnmoved ==
  ASSUME TypeInv, outputs' = outputs, podStore' = podStore
  PROVE  PodsMove
BY GoodStays DEF PodsMove, TypeInv, PodsInv

\* What the worker may write: the reference the pod names, and never nothing.
MayWrite(p, key, val) == /\ p \in Pods /\ key \in AnnKeys /\ val \in Values \ {"none"}
                         /\ key = "artifacts" => val = Named(p)

LEMMA WrittenAnn ==
  ASSUME NEW p, NEW c \in GoodAnn(p), NEW key, NEW val, MayWrite(p, key, val)
  PROVE  /\ [c EXCEPT ![key] = val] \in GoodAnn(p)
         /\ c["provenance"] # "none" => [c EXCEPT ![key] = val]["provenance"] # "none"
         /\ key = "provenance" => [c EXCEPT ![key] = val]["provenance"] # "none"
BY DEF GoodAnn, Annotations, AnnKeys, MayWrite

LEMMA PatchedMoves ==
  ASSUME TypeInv, outputs' = outputs, NEW p, NEW key, NEW val,
         MayWrite(p, key, val), Patched(p, key, val)
  PROVE  PodsMove /\ (key = "provenance" => Told(podStore'[p]))
<1> DEFINE c == [Stored(podStore[p]) EXCEPT ![key] = val]
<1>1. p \in Pods /\ podStore' = [podStore EXCEPT ![p] = Write(podStore[p], c)]
  BY DEF Patched, MayWrite
<1>2. Stored(podStore[p]) \in GoodAnn(p)
  BY <1>1, StoredType
<1>3. /\ c \in GoodAnn(p)
      /\ Told(podStore[p]) => c["provenance"] # "none"
      /\ key = "provenance" => c["provenance"] # "none"
  BY <1>2, WrittenAnn DEF Told
<1> HIDE DEF c
<1>4. podStore[p] \in Histories(GoodAnn(p)) /\ podStore[p] \in Histories(Annotations)
      /\ c \in Annotations
  BY <1>1, <1>3 DEF TypeInv, PodsInv, GoodAnn
<1>5. /\ Write(podStore[p], c) \in Histories(GoodAnn(p))
      /\ Versions(Write(podStore[p], c)) = Versions(podStore[p]) \cup {c}
      /\ Stored(Write(podStore[p], c)) = c
  BY <1>3, <1>4, WriteAddsVersion
<1>6. Write(podStore[p], c) \in Histories(Annotations)
  BY <1>4, WriteAddsVersion
<1>7. Told(podStore[p]) => Told(Write(podStore[p], c))
  BY <1>3, <1>5 DEF Told
<1>8. KeepsProvenance(Write(podStore[p], c))
  BY <1>1, <1>5, <1>7 DEF KeepsProvenance, TypeInv, PodsInv, Told
<1>9. podStore'[p] = Write(podStore[p], c)
      /\ \A q \in Pods : q # p => podStore'[q] = podStore[q]
  BY <1>1 DEF TypeInv, PodsInv
<1>10. podStore' \in [Pods -> Histories(Annotations)]
  BY <1>1, <1>6 DEF TypeInv, PodsInv
<1>11. \A q \in Pods : /\ podStore'[q] \in Histories(GoodAnn(q))
                       /\ KeepsProvenance(podStore'[q])
                       /\ Told(podStore[q]) => Told(podStore'[q])
  BY <1>5, <1>7, <1>8, <1>9 DEF TypeInv, PodsInv
<1>12. PodsInv'
  BY <1>10, <1>11, GoodStays DEF PodsInv
<1>13. key = "provenance" => Told(podStore'[p])
  BY <1>3, <1>5, <1>9 DEF Told
<1> QED BY <1>11, <1>12, <1>13 DEF PodsMove

LEMMA DeliveryMoves ==
  ASSUME TypeInv, outputs' = outputs, podStore' \in [Pods -> Histories(Annotations)],
         \A p \in Pods : /\ podStore'[p] \in Histories(GoodAnn(p))
                         /\ Versions(podStore'[p]) \subseteq Versions(podStore[p])
                         /\ Stored(podStore'[p]) = Stored(podStore[p])
  PROVE  PodsMove
<1>1. \A p \in Pods : (Told(podStore'[p]) <=> Told(podStore[p]))
                      /\ KeepsProvenance(podStore'[p])
  BY DEF Told, KeepsProvenance, TypeInv, PodsInv
<1> QED BY <1>1, GoodStays DEF PodsMove, PodsInv

LEMMA SetMem ==
  ASSUME TypeInv, outputs' = outputs, NEW p \in Pods, NEW m \in GoodMem(p),
         mem' = [mem EXCEPT ![p] = m]
  PROVE  MemInv'
<1>1. m \in Statuses
  BY DEF GoodMem
<1>2. \A q \in Pods : mem'[q] \in GoodMem(q)
  BY DEF TypeInv, MemInv
<1> QED BY <1>1, <1>2, GoodStays DEF TypeInv, MemInv

LEMMA PatchMoves ==
  ASSUME TypeInv, outputs' = outputs, NEW p, NEW m \in GoodMem(p), NEW key, NEW val,
         MayWrite(p, key, val), PatchAnnotations(p, m, key, val)
  PROVE  /\ PodsMove /\ MemInv'
         /\ key = "provenance" => Told(podStore'[p])
         /\ UNCHANGED <<todo, current, wf, read, faults>>
<1>0. p \in Pods /\ UNCHANGED <<todo, current, wf, read, faults>>
  BY DEF MayWrite, PatchAnnotations
<1>1. \A c \in GoodAnn(p) : [m EXCEPT !.ann = c] \in GoodMem(p)
  BY DEF GoodMem, GoodAnn, Statuses
<1>2. CASE /\ Cached(podStore[p])[key] = val /\ UNCHANGED podStore
           /\ mem' = [mem EXCEPT ![p] = [m EXCEPT !.ann = Cached(podStore[p])]]
  <2>1. MemInv'
    BY <1>0, <1>1, <1>2, StoredType, SetMem
  <2>2. PodsMove
    BY <1>2, PodsUnmoved
  <2>3. key = "provenance" => Told(podStore'[p])
    BY <1>0, <1>2, StoredType DEF MayWrite, TypeInv, PodsInv, KeepsProvenance
  <2> QED BY <1>0, <2>1, <2>2, <2>3
<1>3. CASE /\ Patched(p, key, val)
           /\ mem' = [mem EXCEPT ![p] = [m EXCEPT !.ann =
                                          [Stored(podStore[p]) EXCEPT ![key] = val]]]
  <2>1. [Stored(podStore[p]) EXCEPT ![key] = val] \in GoodAnn(p)
    BY <1>0, StoredType, WrittenAnn
  <2>2. MemInv'
    BY <1>0, <1>1, <1>3, <2>1, SetMem
  <2> QED BY <1>0, <1>3, <2>2, PatchedMoves
<1> QED BY <1>2, <1>3 DEF PatchAnnotations

LEMMA PatchFailsMoves ==
  ASSUME TypeInv, outputs' = outputs, NEW p, NEW key, NEW val, MayWrite(p, key, val),
         PatchFails(p, key, val)
  PROVE  PodsMove /\ faults' = faults + 1
BY PodsUnmoved, PatchedMoves DEF PatchFails, Fault

LEMMA EndTypes ==
  ASSUME TypeInv, outputs' = outputs, End
  PROVE  /\ pc' = "Idle" /\ todo' \subseteq Pods /\ current' \in Pods
         /\ wf' \in Workflows /\ read' = wf' /\ MemInv'
BY NewTypes, GoodStays DEF End, MemInv

\* What a step in the loop over the pods may do.
Moves(next) ==
  /\ PodsMove /\ MemInv'
  /\ \/ pc' = next /\ UNCHANGED <<todo, current, wf, read, faults>>
     \/ End /\ faults' = faults + 1

LEMMA AnnotateMoves ==
  ASSUME TypeInv, outputs' = outputs, NEW m \in GoodMem(current), NEW key, NEW val,
         NEW next, MayWrite(current, key, val), Annotate(m, key, val, next)
  PROVE  Moves(next)
<1>1. CASE PatchAnnotations(current, m, key, val) /\ pc' = next
  BY <1>1, PatchMoves DEF Moves
<1>2. CASE PatchFails(current, key, val) /\ End
  BY <1>2, PatchFailsMoves, EndTypes DEF Moves
<1> QED BY <1>1, <1>2 DEF Annotate

LEMMA CurrentMem ==
  ASSUME TypeInv
  PROVE  current \in Pods /\ mem[current] \in GoodMem(current)
BY DEF TypeInv, MemInv

LEMMA MarkInProgressMoves ==
  ASSUME TypeInv, MarkInProgress PROVE Moves("Artifacts")
<1>1. MayWrite(current, "status", "In-Progress")
  BY CurrentMem DEF MayWrite, AnnKeys, Values
<1> QED BY <1>1, CurrentMem, AnnotateMoves DEF MarkInProgress, input

LEMMA HandleArtifactInfoMoves ==
  ASSUME TypeInv, HandleArtifactInfo PROVE Moves("Signing")
<1> DEFINE m == mem[current]
           info == Named(current)
           found == [m EXCEPT !.found = info # "NotFound", !.info = info]
<1>0. outputs' = outputs /\ current \in Pods /\ m \in GoodMem(current)
  BY CurrentMem DEF HandleArtifactInfo, input
<1>1. info \in Digests \cup {"NotFound"} /\ "none" \notin Digests
  BY <1>0, InputFacts DEF TypeInv
<1>2. CASE Annotate(found, "artifacts", info, "Signing")
  <2>1. found \in GoodMem(current)
    BY <1>0, <1>1 DEF GoodMem, Statuses, Values
  <2>2. MayWrite(current, "artifacts", info)
    BY <1>0, <1>1 DEF MayWrite, AnnKeys, Values
  <2> HIDE DEF found, info
  <2> QED BY <1>0, <1>2, <2>1, <2>2, AnnotateMoves
<1>3. CASE /\ m.ann["artifacts"] # "none"
           /\ mem' = [mem EXCEPT ![current].found = m.ann["artifacts"] # "NotFound"]
           /\ pc' = "Signing"
           /\ UNCHANGED <<podStore, todo, current, wf, read, faults>>
  <2> DEFINE half == [m EXCEPT !.found = m.ann["artifacts"] # "NotFound"]
  <2>1. half \in GoodMem(current)
    BY <1>0, <1>3 DEF GoodMem, GoodAnn, Statuses
  <2>2. mem' = [mem EXCEPT ![current] = half]
    BY <1>3
  <2> HIDE DEF half
  <2>3. MemInv'
    BY <1>0, <2>1, <2>2, SetMem
  <2> QED BY <1>0, <1>3, <2>3, PodsUnmoved DEF Moves
<1> QED BY <1>2, <1>3 DEF HandleArtifactInfo, Named

LEMMA HandleArtifactSigningMoves ==
  ASSUME TypeInv, HandleArtifactSigning
  PROVE  /\ Moves("Final") \/ Moves("Signed")
         /\ \/ signed' = signed
            \/ /\ CheckOCI(mem[current].info)
               /\ signed' = [signed EXCEPT ![current] = @ \cup {mem[current].info}]
<1> DEFINE m == mem[current]
<1>0. outputs' = outputs /\ current \in Pods /\ m \in GoodMem(current)
  BY CurrentMem DEF HandleArtifactSigning, input
<1>1. \A b \in BOOLEAN : [m EXCEPT !.signed = b] \in GoodMem(current)
  BY <1>0 DEF GoodMem, Statuses
<1>2. ASSUME NEW b \in BOOLEAN, mem' = [mem EXCEPT ![current].signed = b],
             UNCHANGED <<podStore, todo, current, wf, read, faults>>,
             pc' = "Signed" \/ pc' = "Final"
      PROVE  Moves("Final") \/ Moves("Signed")
  <2>1. mem' = [mem EXCEPT ![current] = [m EXCEPT !.signed = b]]
    BY <1>2
  <2>2. MemInv'
    BY <1>0, <1>1, <2>1, SetMem
  <2> QED BY <1>0, <1>2, <2>2, PodsUnmoved DEF Moves
<1>3. CASE Annotate(m, "signed", "Skipped", "Final") /\ UNCHANGED signed
  <2>1. MayWrite(current, "signed", "Skipped")
    BY <1>0 DEF MayWrite, AnnKeys, Values
  <2> QED BY <1>0, <1>3, <2>1, AnnotateMoves
<1>4. CASE /\ \E ok \in BOOLEAN :
                /\ \/ /\ CheckOCI(m.info)
                      /\ signed' = [signed EXCEPT ![current] = @ \cup {m.info}]
                   \/ UNCHANGED signed
                /\ mem' = [mem EXCEPT ![current].signed = ok]
           /\ pc' = "Signed" /\ UNCHANGED <<podStore, todo, current, wf, read, faults>>
  BY <1>2, <1>4
<1>5. CASE /\ mem' = [mem EXCEPT ![current].signed = m.ann["signed"] = "Completed"]
           /\ pc' = "Final"
           /\ UNCHANGED <<podStore, signed, todo, current, wf, read, faults>>
  <2>1. (m.ann["signed"] = "Completed") \in BOOLEAN
    OBVIOUS
  <2> QED BY <1>2, <1>5, <2>1
<1> QED BY <1>3, <1>4, <1>5 DEF HandleArtifactSigning

LEMMA AnnotateSignedMoves ==
  ASSUME TypeInv, AnnotateSigned PROVE Moves("Final")
<1>1. MayWrite(current, "signed", "Completed") /\ MayWrite(current, "signed", "Error")
  BY CurrentMem DEF MayWrite, AnnKeys, Values
<1>2. \/ Annotate(mem[current], "signed", "Completed", "Final")
      \/ Annotate(mem[current], "signed", "Error", "Final")
  BY DEF AnnotateSigned
<1> QED BY <1>1, <1>2, CurrentMem, AnnotateMoves DEF AnnotateSigned, input

LEMMA UpdateFinalStatusMoves ==
  ASSUME TypeInv, UpdateFinalStatus PROVE Moves("Pods")
<1> DEFINE m == mem[current]
           final == [m EXCEPT !.reconciled = TRUE]
<1>1. MayWrite(current, "status", FinalStatus(m))
  BY CurrentMem DEF MayWrite, AnnKeys, Values, FinalStatus
<1>2. final \in GoodMem(current)
  BY CurrentMem DEF GoodMem, Statuses
<1> HIDE DEF final
<1> QED BY <1>1, <1>2, CurrentMem, AnnotateMoves DEF UpdateFinalStatus, input, final

LEMMA AnnotateProvenanceMoves ==
  ASSUME TypeInv, AnnotateProvenance
  PROVE  /\ PodsMove /\ MemInv' /\ UNCHANGED <<todo, current, wf, read>>
         /\ \/ pc' = "Attest" /\ faults' = faults /\ Told(podStore'[current])
            \/ pc' = "LabelError" /\ faults' = faults + 1
<1>0. outputs' = outputs /\ current \in Pods /\ mem[current] \in GoodMem(current)
  BY CurrentMem DEF AnnotateProvenance, input
<1>1. PICK val \in {"Attached", "Error", "Skipped"} : AnnotateProvenanceOf(current, val)
  BY DEF AnnotateProvenance
<1>2. MayWrite(current, "provenance", val)
  BY <1>0 DEF MayWrite, AnnKeys, Values
<1>3. CASE PatchAnnotations(current, mem[current], "provenance", val) /\ pc' = "Attest"
  BY <1>0, <1>2, <1>3, PatchMoves
<1>4. CASE /\ PatchFails(current, "provenance", val) /\ pc' = "LabelError"
           /\ UNCHANGED <<todo, current, wf, read, mem>>
  <2>1. MemInv'
    BY <1>0, <1>4, GoodStays DEF TypeInv, MemInv
  <2> QED BY <1>0, <1>2, <1>4, <2>1, PatchFailsMoves
<1> QED BY <1>1, <1>3, <1>4 DEF AnnotateProvenanceOf

LEMMA ReconcilePodMem ==
  ASSUME TypeInv, ReconcilePod PROVE PodsMove /\ MemInv' /\ current' \in Pods
<1>0. outputs' = outputs /\ podStore' = podStore
  BY DEF ReconcilePod, input, stores
<1>1. PICK p \in todo : current' = p /\ mem' = [mem EXCEPT ![p] = Load(Cached(podStore[p]))]
  BY DEF ReconcilePod
<1> DEFINE c == Cached(podStore[p])
<1>2. p \in Pods /\ c \in GoodAnn(p)
  BY <1>1, StoredType DEF TypeInv
<1> HIDE DEF c
<1>3. Load(c) \in GoodMem(p)
  <2>1. c["artifacts"] \in Values /\ c["artifacts"] \in {"none", Named(p)}
    BY <1>2 DEF GoodAnn, Annotations, AnnKeys
  <2> QED BY <1>2, <2>1 DEF Load, GoodMem, Statuses, GoodAnn, Values
<1>4. MemInv'
  BY <1>0, <1>1, <1>2, <1>3, SetMem DEF c
<1> QED BY <1>0, <1>1, <1>2, <1>4, PodsUnmoved

LEMMA CrashMoves ==
  ASSUME TypeInv, Crash PROVE PodsMove
<1>1. outputs' = outputs /\ podStore' = [p \in Pods |-> Relist(podStore[p])]
  BY DEF Crash, input
<1>2. \A p \in Pods : /\ Relist(podStore[p]) \in Histories(GoodAnn(p))
                      /\ Relist(podStore[p]) \in Histories(Annotations)
                      /\ Versions(Relist(podStore[p])) \subseteq Versions(podStore[p])
                      /\ Stored(Relist(podStore[p])) = Stored(podStore[p])
  BY DeliveryKeepsVersions DEF TypeInv, PodsInv
<1> QED BY <1>1, <1>2, DeliveryMoves

LEMMA SyncPodMoves ==
  ASSUME TypeInv, NEW p \in Pods, SyncPod(p) PROVE PodsMove
<1>1. /\ outputs' = outputs /\ ~ Synced(podStore[p])
      /\ podStore' = [podStore EXCEPT ![p] = Deliver(podStore[p])]
  BY DEF SyncPod, input
<1>2. /\ Deliver(podStore[p]) \in Histories(GoodAnn(p))
      /\ Deliver(podStore[p]) \in Histories(Annotations)
      /\ Versions(Deliver(podStore[p])) \subseteq Versions(podStore[p])
      /\ Stored(Deliver(podStore[p])) = Stored(podStore[p])
  BY <1>1, DeliveryKeepsVersions DEF TypeInv, PodsInv
<1>3. \A q \in Pods : podStore'[q] = IF q = p THEN Deliver(podStore[p]) ELSE podStore[q]
  BY <1>1 DEF TypeInv, PodsInv
<1>4. podStore' \in [Pods -> Histories(Annotations)]
  BY <1>1, <1>2 DEF TypeInv, PodsInv
<1>5. \A q \in Pods : /\ podStore'[q] \in Histories(GoodAnn(q))
                      /\ Versions(podStore'[q]) \subseteq Versions(podStore[q])
                      /\ Stored(podStore'[q]) = Stored(podStore[q])
  BY <1>2, <1>3 DEF TypeInv, PodsInv
<1> QED BY <1>1, <1>4, <1>5, DeliveryMoves

\* The pods and the memory, in every step.
LEMMA PodsStep ==
  ASSUME TypeInv, [Next]_vars
  PROVE  PodsMove /\ MemInv'
<1>0. outputs' = outputs
  BY InputsStay
<1>1. ASSUME podStore' = podStore, mem' = mem
      PROVE  PodsMove /\ MemInv'
  BY <1>0, <1>1, PodsUnmoved, GoodStays DEF TypeInv, MemInv
<1>2. CASE ReconcilePod
  BY <1>2, ReconcilePodMem
<1>3. CASE MarkInProgress \/ HandleArtifactInfo \/ AnnotateSigned \/ UpdateFinalStatus
  BY <1>3, MarkInProgressMoves, HandleArtifactInfoMoves, AnnotateSignedMoves,
     UpdateFinalStatusMoves DEF Moves
<1>4. CASE HandleArtifactSigning
  BY <1>4, HandleArtifactSigningMoves DEF Moves
<1>5. CASE HandleProvenanceAttachment
  <2>1. podStore' = podStore /\ mem' = mem
    BY <1>5 DEF HandleProvenanceAttachment, Attest
  <2> QED BY <1>1, <2>1
<1>6. CASE AnnotateProvenance
  BY <1>6, AnnotateProvenanceMoves
<1>7. CASE UpdateWorkflowStatus
  BY <1>0, <1>7, PodsUnmoved, EndTypes DEF UpdateWorkflowStatus
<1>8. CASE Crash
  BY <1>0, <1>8, CrashMoves, EndTypes DEF Crash
<1>9. CASE \E p \in Pods : SyncPod(p)
  <2>1. PICK p \in Pods : SyncPod(p)
    BY <1>9
  <2>2. mem' = mem
    BY <2>1 DEF SyncPod, worker
  <2>3. MemInv'
    BY <1>0, <2>2, GoodStays DEF TypeInv, MemInv
  <2> QED BY <2>1, <2>3, SyncPodMoves
<1>10. CASE Begin \/ BeginFails \/ ValidateAllPodsReconciled \/ Complete
  BY <1>1, <1>10 DEF Begin, BeginFails, ValidateAllPodsReconciled, Complete, stores, worker
<1>11. CASE Finish \/ Relabel \/ SyncWorkflow \/ UNCHANGED vars
  BY <1>1, <1>11 DEF Finish, Relabel, SyncWorkflow, vars, worker, stores
<1> QED
  BY <1>2, <1>3, <1>4, <1>5, <1>6, <1>7, <1>8, <1>9, <1>10, <1>11 DEF Next, Worker
------------------------------------------------------------------------------
(* The Workflow and the worker.                                               *)

LEMMA WriteTypes ==
  ASSUME TypeInv, NEW w \in Workflows, Writes(w)
  PROVE  store' \in Histories(Workflows)
BY WriteAddsVersion DEF TypeInv, Writes

LEMMA StatusTypes ==
  ASSUME TypeInv, NEW val \in States
  PROVE  /\ WithStatus(Stored(store), val) \in Workflows
         /\ WithStatus(Cached(store), val) \in Workflows
BY StoredType, LabelledType, ProvenanceAssumption

LEMMA BeginTypes ==
  ASSUME TypeInv, Begin
  PROVE  /\ store' \in Histories(Workflows) /\ wf' \in Workflows /\ read' = wf'
         /\ faults' \in Nat
<1> DEFINE labelled == WithStatus(Stored(store), "In-Progress")
           unanswered == WithStatus(Cached(store), "In-Progress")
<1>1. labelled \in Workflows /\ unanswered \in Workflows
  BY StatusTypes DEF States
<1> HIDE DEF labelled, unanswered
<1>2. \/ wf' = Cached(store) /\ UNCHANGED <<store, faults>>
      \/ wf' = labelled /\ Writes(labelled) /\ UNCHANGED faults
      \/ wf' = unanswered /\ Fault /\ UNCHANGED store
  BY DEF Begin, labelled, unanswered
<1> QED BY <1>1, <1>2, StoredType, WriteTypes DEF Begin, Fault, TypeInv

LEMMA StoreTypes ==
  ASSUME TypeInv, [Next]_vars
  PROVE  store' \in Histories(Workflows)
<1>1. CASE Begin
  BY <1>1, BeginTypes
<1>2. CASE BeginFails
  BY <1>2, StatusTypes, WriteTypes DEF BeginFails, States
<1>3. CASE UpdateWorkflowStatus
  BY <1>3, StatusTypes, WriteTypes DEF UpdateWorkflowStatus, States, TypeInv
<1>4. CASE Crash
  BY <1>4, DeliveryKeepsVersions DEF Crash, TypeInv
<1>5. CASE SyncWorkflow
  BY <1>5, DeliveryKeepsVersions DEF SyncWorkflow, TypeInv
<1>6. CASE Finish
  <2>1. PICK o \in FinalOutputs :
          Writes([Stored(store) EXCEPT !.finished = TRUE, !.outputs = o])
    BY <1>6 DEF Finish
  <2>2. [Stored(store) EXCEPT !.finished = TRUE, !.outputs = o] \in Workflows
    BY StoredType DEF Workflows, Outcomes
  <2> QED BY <2>1, <2>2, WriteTypes
<1>7. CASE Relabel
  BY <1>7, StoredType, LabelledType, WriteTypes DEF Relabel, States
<1>8. CASE UNCHANGED store
  BY <1>8 DEF TypeInv
<1> QED
  BY <1>1, <1>2, <1>3, <1>4, <1>5, <1>6, <1>7, <1>8
     DEF Next, Worker, vars, stores, ReconcilePod, MarkInProgress, HandleArtifactInfo,
         HandleArtifactSigning, AnnotateSigned, UpdateFinalStatus,
         ValidateAllPodsReconciled, HandleProvenanceAttachment, AnnotateProvenance,
         Complete, SyncPod

WorkerInv ==
  /\ pc \in Places /\ todo \subseteq Pods /\ current \in Pods
  /\ wf \in Workflows /\ read \in Workflows /\ faults \in Nat

LEMMA MovesTypes ==
  ASSUME TypeInv, outputs' = outputs, NEW next \in Places, Moves(next)
  PROVE  WorkerInv'
BY EndTypes DEF Moves, WorkerInv, TypeInv, Places

LEMMA WorkerTypes ==
  ASSUME TypeInv, [Next]_vars
  PROVE  WorkerInv'
<1>0. outputs' = outputs /\ "Idle" \in Places
  BY InputsStay DEF Places
<1>1. CASE Begin
  BY <1>1, BeginTypes DEF WorkerInv, TypeInv, Begin, Places
<1>2. CASE ReconcilePod
  BY <1>2, ReconcilePodMem DEF WorkerInv, TypeInv, ReconcilePod, Places
<1>3. CASE MarkInProgress \/ HandleArtifactInfo \/ AnnotateSigned \/ UpdateFinalStatus
           \/ HandleArtifactSigning
  BY <1>0, <1>3, MarkInProgressMoves, HandleArtifactInfoMoves, AnnotateSignedMoves,
     UpdateFinalStatusMoves, HandleArtifactSigningMoves, MovesTypes DEF Places
<1>4. CASE HandleProvenanceAttachment
  <2>1. WithoutOwn(wf) \in Workflows
    BY DEF WithoutOwn, TypeInv, Workflows, States
  <2>2. \/ wf' = wf \/ wf' = WithoutOwn(wf)
    BY <1>4 DEF HandleProvenanceAttachment, Attest
  <2>3. /\ pc' \in {"Attest", "Attached", "NotAttached", "LabelError", "Skipped"}
        /\ todo' \subseteq todo /\ (current' = current \/ current' \in todo)
        /\ read' = read /\ (faults' = faults \/ faults' = faults + 1)
    BY <1>4 DEF HandleProvenanceAttachment, Attest, Fault
  <2> QED BY <2>1, <2>2, <2>3 DEF WorkerInv, TypeInv, Places
<1>5. CASE AnnotateProvenance
  BY <1>5, AnnotateProvenanceMoves DEF WorkerInv, TypeInv, Places
<1>6. CASE UpdateWorkflowStatus \/ Crash
  <2>1. End /\ (faults' = faults \/ faults' = faults + 1)
    BY <1>6 DEF UpdateWorkflowStatus, Crash, Fault
  <2> QED BY <1>0, <2>1, EndTypes DEF WorkerInv, TypeInv
<1>7. CASE ValidateAllPodsReconciled \/ Complete
  BY <1>7 DEF ValidateAllPodsReconciled, Complete, WorkerInv, TypeInv, Places
<1>8. CASE UNCHANGED worker /\ (faults' = faults \/ faults' = faults + 1)
  BY <1>8 DEF worker, WorkerInv, TypeInv
<1> QED
  BY <1>1, <1>2, <1>3, <1>4, <1>5, <1>6, <1>7, <1>8
     DEF Next, Worker, vars, BeginFails, Fault, Finish, Relabel, SyncWorkflow, SyncPod

\* What a step may do to the statements: a new one is of a reconcile in order.
LEMMA StatementSteps ==
  ASSUME [Next]_vars
  PROVE  \/ statements' = statements
         \/ \E p \in todo : /\ HandleProvenanceAttachment /\ pc = "Attest"
                            /\ Attaches(mem[p]) /\ CheckOCI(mem[p].info)
                            /\ statements' = Append(statements, Statement(p))
                            /\ current' = p /\ pc' \in {"Attached", "NotAttached"}
                            /\ wf' = WithoutOwn(wf) /\ read' = read /\ faults' = faults
<1>1. CASE HandleProvenanceAttachment
  BY <1>1 DEF HandleProvenanceAttachment, Attest
<1>2. CASE ~ HandleProvenanceAttachment
  BY <1>2
     DEF Next, Worker, vars, registry, Begin, BeginFails, ReconcilePod, MarkInProgress,
         HandleArtifactInfo, HandleArtifactSigning, AnnotateSigned, UpdateFinalStatus,
         ValidateAllPodsReconciled, AnnotateProvenance, Complete, UpdateWorkflowStatus,
         Crash, Finish, Relabel, SyncWorkflow, SyncPod
<1> QED BY <1>1, <1>2

LEMMA SignedSteps ==
  ASSUME TypeInv, [Next]_vars
  PROVE  \/ signed' = signed
         \/ /\ CheckOCI(mem[current].info)
            /\ signed' = [signed EXCEPT ![current] = @ \cup {mem[current].info}]
<1>1. CASE HandleArtifactSigning
  BY <1>1, HandleArtifactSigningMoves
<1>2. CASE ~ HandleArtifactSigning
  BY <1>2
     DEF Next, Worker, vars, registry, Begin, BeginFails, ReconcilePod, MarkInProgress,
         HandleArtifactInfo, AnnotateSigned, UpdateFinalStatus,
         ValidateAllPodsReconciled, HandleProvenanceAttachment, AnnotateProvenance,
         Complete, UpdateWorkflowStatus, Crash, Finish, Relabel, SyncWorkflow, SyncPod
<1> QED BY <1>1, <1>2

LEMMA TypeInvariant == Spec => []TypeInv
<1> SUFFICES ASSUME TypeInv, [Next]_vars PROVE TypeInv'
  BY InitTypes, PTL DEF Spec
<1>1. PodsInv' /\ MemInv'
  BY PodsStep DEF PodsMove
<1>2. signed' \in [Pods -> SUBSET Values]
  <2>1. current \in Pods /\ mem[current].info \in Values
    BY DEF TypeInv, MemInv, Statuses
  <2> QED BY <2>1, SignedSteps DEF TypeInv
<1>3. IsSequence(statements')
  <2>1. statements' = statements \/ \E x : statements' = Append(statements, x)
    BY StatementSteps
  <2>2. \A x : IsSequence(Append(statements, x))
    BY AppendStaysSequence DEF TypeInv
  <2> QED BY <2>1, <2>2 DEF TypeInv
<1> QED BY <1>1, <1>2, <1>3, StoreTypes, WorkerTypes, InputsStay DEF TypeInv, WorkerInv

\* A new statement stands behind the others.
LEMMA NewStatement ==
  ASSUME TypeInv, NEW x, statements' = Append(statements, x)
  PROVE  /\ Len(statements) \in Nat /\ statements'[Len(statements) + 1] = x
         /\ \A n \in 1 .. Len(statements) : statements'[n] = statements[n]
         /\ 1 .. Len(statements') = (1 .. Len(statements)) \cup {Len(statements) + 1}
         /\ Len(statements) + 1 \notin 1 .. Len(statements)
<1>1. /\ Len(statements) \in Nat /\ Len(statements') = Len(statements) + 1
      /\ statements'[Len(statements) + 1] = x
      /\ \A n \in 1 .. Len(statements) : statements'[n] = statements[n]
  BY AppendStaysSequence DEF TypeInv
<1> QED BY <1>1
------------------------------------------------------------------------------
(* SignsNamedReference.                                                       *)

LEMMA InfoIsNamed ==
  ASSUME TypeInv, NEW p \in Pods, CheckOCI(mem[p].info)
  PROVE  NamedBy(outputs[p]) = {mem[p].info}
<1>1. mem[p].info \in {"none", Named(p)} /\ mem[p].info \in Digests
  BY DEF TypeInv, MemInv, GoodMem, CheckOCI
<1> QED BY <1>1, InputFacts DEF TypeInv

LEMMA SubjectsAreNamed ==
  ASSUME TypeInv, NEW p \in Pods, Attaches(mem[p]), CheckOCI(mem[p].info)
  PROVE  /\ NamedBy(outputs[p]) # {} /\ NamedBy(outputs[p]) \subseteq Subjects
         /\ Subjects \subseteq UNION {NamedBy(outputs[q]) : q \in Pods}
<1>1. NamedBy(outputs[p]) = {mem[p].info} /\ mem[p].info \in Subjects
  BY InfoIsNamed DEF Subjects, Attaches
<1>2. ASSUME NEW x \in Subjects
      PROVE  x \in UNION {NamedBy(outputs[q]) : q \in Pods}
  <2>1. PICK q \in Pods : CheckOCI(mem[q].info) /\ x = mem[q].info
    BY <1>2 DEF Subjects
  <2>2. x \in NamedBy(outputs[q])
    BY <2>1, InfoIsNamed
  <2> QED BY <2>2
<1> QED BY <1>1, <1>2

(* handleArtifactInfo, handleArtifactSigning, AttestArtifacts, for any list   *)
(* of parameters and any age of the copies a reconcile works on: what is      *)
(* signed or attested is the value of the last match, whatever reconcile does *)
(* it, and a statement names the artifact it is attached to.                  *)
THEOREM SignedIsNamed == Spec => []SignsNamedReference
<1>1. Init => SignsNamedReference
  BY DEF Init, SignsNamedReference
<1>2. TypeInv /\ SignsNamedReference /\ [Next]_vars => SignsNamedReference'
  <2> SUFFICES ASSUME TypeInv, SignsNamedReference, [Next]_vars
               PROVE  SignsNamedReference'
    OBVIOUS
  <2>0. outputs' = outputs
    BY InputsStay
  <2>1. \A p \in Pods : signed'[p] \subseteq NamedBy(outputs[p])
    <3>1. CASE signed' = signed
      BY <3>1 DEF SignsNamedReference
    <3>2. CASE /\ CheckOCI(mem[current].info)
               /\ signed' = [signed EXCEPT ![current] = @ \cup {mem[current].info}]
      <4>1. mem[current].info \in NamedBy(outputs[current]) /\ current \in Pods
        BY <3>2, CurrentMem, InfoIsNamed
      <4> QED BY <3>2, <4>1 DEF SignsNamedReference, TypeInv
    <3> QED BY <3>1, <3>2, SignedSteps
  <2> DEFINE Good(s) == /\ NamedBy(outputs[s.pod]) # {}
                        /\ NamedBy(outputs[s.pod]) \subseteq s.subjects
                        /\ s.subjects \subseteq UNION {NamedBy(outputs[p]) : p \in Pods}
  <2>2. \A n \in 1 .. Len(statements) : Good(statements[n])
    BY DEF SignsNamedReference
  <2>3. \A n \in 1 .. Len(statements') : Good(statements'[n])
    <3>1. CASE statements' = statements
      BY <2>2, <3>1
    <3>2. ASSUME NEW p \in todo, Attaches(mem[p]), CheckOCI(mem[p].info),
                 statements' = Append(statements, Statement(p))
          PROVE  \A n \in 1 .. Len(statements') : Good(statements'[n])
      <4>1. p \in Pods
        BY DEF TypeInv
      <4>2. Statement(p).pod = p /\ Statement(p).subjects = Subjects
        BY DEF Statement
      <4>3. Good(Statement(p))
        BY <3>2, <4>1, <4>2, SubjectsAreNamed
      <4> HIDE DEF Good
      <4> QED BY <2>2, <3>2, <4>3, NewStatement
    <3> HIDE DEF Good
    <3> QED BY <3>1, <3>2, StatementSteps
  <2> QED BY <2>0, <2>1, <2>3 DEF SignsNamedReference
<1> QED BY <1>1, <1>2, TypeInvariant, PTL DEF Spec
------------------------------------------------------------------------------
(* DescribesWhatWasRead.                                                      *)

LEMMA ConcatenationHolds ==
  ASSUME NEW a, NEW b, IsSequence(a), IsSequence(b)
  PROVE  ToSet(a \o b) = ToSet(a) \cup ToSet(b)
<1>1. a \in Seq(ToSet(a) \cup ToSet(b)) /\ b \in Seq(ToSet(a) \cup ToSet(b))
  <2>1. \A S, T, s : s \in Seq(S) /\ S \subseteq T => s \in Seq(T)
    OBVIOUS
  <2> QED BY <2>1 DEF IsSequence
<1>2. /\ Len(a) \in Nat /\ Len(b) \in Nat /\ Len(a \o b) = Len(a) + Len(b)
      /\ DOMAIN a = 1 .. Len(a) /\ DOMAIN b = 1 .. Len(b)
      /\ DOMAIN (a \o b) = 1 .. Len(a) + Len(b)
      /\ \A n \in 1 .. Len(a) : (a \o b)[n] = a[n]
      /\ \A n \in 1 .. Len(b) : (a \o b)[Len(a) + n] = b[n]
  BY <1>1
<1>3. ASSUME NEW n \in 1 .. Len(a) + Len(b)
      PROVE  (a \o b)[n] \in ToSet(a) \cup ToSet(b)
  <2>1. n \in 1 .. Len(a) \/ n - Len(a) \in 1 .. Len(b)
    BY <1>2
  <2>2. n - Len(a) \in 1 .. Len(b) => (a \o b)[n] = b[n - Len(a)]
    BY <1>2
  <2> QED BY <1>2, <2>1, <2>2 DEF ToSet
<1>4. \A n \in 1 .. Len(a) : n \in 1 .. Len(a) + Len(b)
  BY <1>2
<1>5. \A n \in 1 .. Len(b) : Len(a) + n \in 1 .. Len(a) + Len(b)
  BY <1>2
<1>6. ToSet(a) \subseteq ToSet(a \o b)
  BY <1>2, <1>4 DEF ToSet
<1>7. ToSet(b) \subseteq ToSet(a \o b)
  BY <1>2, <1>5 DEF ToSet
<1> QED BY <1>2, <1>3, <1>6, <1>7 DEF ToSet

Described(s) ==
  /\ s.finished = s.of.finished
  /\ \A l \in Labels : s.internal[l] = IF l \in Own THEN "none" ELSE s.of.labels[l]
  /\ DOMAIN s.external = {arguments[k].name : k \in 1 .. Len(arguments)} \cup {"runSpec"}
  /\ \A x \in DOMAIN s.external :
       s.external[x] = IF x = "runSpec" THEN "spec" ELSE LastValue(x)
  /\ ToSet(s.byproducts) = ToSet(s.of.outputs.artifacts) \cup ToSet(s.of.outputs.parameters)

LEMMA StatementDescribes ==
  ASSUME TypeInv, CopyInv, NEW p
  PROVE  Described(Statement(p))
<1>1. /\ Statement(p).of = read
      /\ Statement(p).finished = wf.finished
      /\ Statement(p).internal = WithoutOwn(wf).labels
      /\ Statement(p).external = ExternalParams(arguments)
      /\ Statement(p).byproducts = wf.outputs.artifacts \o wf.outputs.parameters
  BY DEF Statement, FinishedOn, InternalParams, Byproducts
<1>2. /\ wf.finished = read.finished /\ wf.outputs = read.outputs
      /\ WithoutOwn(wf).labels = [l \in Labels |-> IF l \in Own THEN "none"
                                                               ELSE read.labels[l]]
  <2>1. \A w \in Workflows :
          /\ WithoutOwn(w).labels = [l \in Labels |-> IF l \in Own THEN "none"
                                                                 ELSE w.labels[l]]
          /\ WithoutOwn(w).finished = w.finished
          /\ WithoutOwn(w).outputs = w.outputs
    BY DEF Workflows, WithoutOwn
  <2> QED BY <2>1 DEF CopyInv, TypeInv
<1>3. IsSequence(read.outputs.artifacts) /\ IsSequence(read.outputs.parameters)
  <2>1. read.outputs \in FinalOutputs \/ read.outputs = NewWorkflow.outputs
    BY DEF TypeInv, Workflows, Outcomes
  <2>2. IsSequence(<<>>)
    BY DEF IsSequence
  <2>3. NewWorkflow.outputs.artifacts = <<>> /\ NewWorkflow.outputs.parameters = <<>>
    BY DEF NewWorkflow
  <2> QED BY <2>1, <2>2, <2>3, ProvenanceAssumption
<1>4. IsSequence(arguments)
  BY InputFacts DEF TypeInv
<1> QED BY <1>1, <1>2, <1>3, <1>4, ConcatenationHolds, ExternalParamsHold DEF Described

LEMMA CopySteps ==
  ASSUME [Next]_vars
  PROVE  \/ UNCHANGED <<wf, read>> \/ wf' = read' \/ (wf' = WithoutOwn(wf) /\ read' = read)
<1>1. CASE MarkInProgress \/ HandleArtifactInfo \/ AnnotateSigned \/ UpdateFinalStatus
           \/ HandleArtifactSigning
  BY <1>1 DEF MarkInProgress, HandleArtifactInfo, AnnotateSigned, UpdateFinalStatus,
              HandleArtifactSigning, Annotate, PatchAnnotations, End
<1>2. CASE Begin \/ UpdateWorkflowStatus \/ Crash
  BY <1>2 DEF Begin, UpdateWorkflowStatus, Crash, End
<1>3. CASE HandleProvenanceAttachment \/ AnnotateProvenance
  BY <1>3 DEF HandleProvenanceAttachment, Attest, AnnotateProvenance,
              AnnotateProvenanceOf, PatchAnnotations
<1>4. CASE UNCHANGED <<wf, read>>
  BY <1>4
<1> QED
  BY <1>1, <1>2, <1>3, <1>4
     DEF Next, Worker, vars, worker, BeginFails, ReconcilePod,
         ValidateAllPodsReconciled, Complete, Finish, Relabel, SyncWorkflow, SyncPod

LEMMA CopyStep ==
  ASSUME TypeInv, CopyInv, [Next]_vars
  PROVE  CopyInv'
<1>1. arguments' = arguments
  BY InputsStay
<1>2. \A n \in 1 .. Len(statements) : Described(statements[n])
  BY DEF CopyInv, DescribesWhatWasRead, Described
<1>3. WithoutOwn(wf') = WithoutOwn(read')
  <2>1. WithoutOwn(WithoutOwn(wf)) = WithoutOwn(wf)
    BY DEF WithoutOwn, TypeInv, Workflows
  <2> QED BY <2>1, CopySteps DEF CopyInv
<1>4. \A n \in 1 .. Len(statements') : Described(statements'[n])
  <2>1. ASSUME NEW p, statements' = Append(statements, Statement(p))
        PROVE  \A n \in 1 .. Len(statements') : Described(statements'[n])
    BY <1>2, <2>1, NewStatement, StatementDescribes
  <2> QED BY <1>2, <2>1, StatementSteps
<1>5. WithoutOwn(wf)' = WithoutOwn(wf') /\ WithoutOwn(read)' = WithoutOwn(read')
  BY DEF WithoutOwn
<1>6. DescribesWhatWasRead' = \A n \in 1 .. Len(statements') : Described(statements'[n])
  BY <1>1 DEF DescribesWhatWasRead, Described, LastValue
<1> QED BY <1>3, <1>4, <1>5, <1>6 DEF CopyInv

(* GetInternalParams, GetExternalParams, GetByproducts, for any labels,       *)
(* arguments and outputs: every statement describes one read of the Workflow. *)
THEOREM StatementsDescribe == Spec => []DescribesWhatWasRead
<1>1. Init => CopyInv
  <2> SUFFICES ASSUME Init PROVE CopyInv
    OBVIOUS
  <2>1. wf = read /\ Len(statements) = 0
    BY DEF Init
  <2> QED BY <2>1 DEF CopyInv, DescribesWhatWasRead
<1>2. CopyInv => DescribesWhatWasRead
  BY DEF CopyInv
<1> QED BY <1>1, <1>2, CopyStep, TypeInvariant, PTL DEF Spec
------------------------------------------------------------------------------
(* RepeatsAreExplained.                                                       *)

LEMMA CountsAreFinite ==
  ASSUME TypeInv
  PROVE  /\ IsFiniteSet(FreshOnes) /\ Cardinality(FreshOnes) \in Nat
         /\ IsFiniteSet(Annotated \cup Making)
         /\ Cardinality(Annotated \cup Making) \in Nat
         /\ Annotated \cup Making \subseteq Pods
<1>1. Annotated \cup Making \subseteq Pods
  BY DEF Annotated, Making, TypeInv
<1>2. Len(statements) \in Nat
  BY AppendStaysSequence DEF TypeInv
<1>3. IsFiniteSet(1 .. Len(statements)) /\ FreshOnes \subseteq 1 .. Len(statements)
  BY <1>2, FS_Interval DEF FreshOnes
<1> QED BY <1>1, <1>3, ProvenanceAssumption, FS_Subset, FS_CardinalityType

LEMMA NextCountsAreFinite ==
  ASSUME TypeInv'
  PROVE  /\ IsFiniteSet((Annotated \cup Making)')
         /\ Cardinality((Annotated \cup Making)') \in Nat
         /\ faults' \in Nat
<1>1. (Annotated \cup Making)' \subseteq Pods
  BY DEF Annotated, Making, TypeInv
<1> QED BY <1>1, ProvenanceAssumption, FS_Subset, FS_CardinalityType DEF TypeInv

\* Nothing is made and nothing is lost.
LEMMA CountKept ==
  ASSUME TypeInv, TypeInv', CountInv, statements' = statements, faults' >= faults,
         Annotated \cup Making \subseteq (Annotated \cup Making)'
  PROVE  CountInv'
<1>1. FreshOnes' = FreshOnes
  BY DEF FreshOnes
<1>2. Cardinality(Annotated \cup Making) <= Cardinality((Annotated \cup Making)')
  BY CountsAreFinite, NextCountsAreFinite, FS_Subset
<1>3. /\ Cardinality(FreshOnes) \in Nat /\ Cardinality(Annotated \cup Making) \in Nat
      /\ Cardinality((Annotated \cup Making)') \in Nat /\ faults \in Nat /\ faults' \in Nat
  BY CountsAreFinite, NextCountsAreFinite DEF TypeInv
<1> QED BY <1>1, <1>2, <1>3 DEF CountInv

\* A crash or a failing call may lose the annotation of one pod.
LEMMA CountLost ==
  ASSUME TypeInv, TypeInv', CountInv, statements' = statements, faults' = faults + 1,
         \A p \in Annotated : p \in Annotated'
  PROVE  CountInv'
<1>1. FreshOnes' = FreshOnes
  BY DEF FreshOnes
<1>2. Annotated \cup Making \subseteq (Annotated \cup Making)' \cup {current}
  BY DEF Making
<1> DEFINE now == (Annotated \cup Making)'
<1>3. IsFiniteSet(now) /\ Cardinality(now) \in Nat
  BY CountsAreFinite, NextCountsAreFinite
<1>4. Cardinality(now \cup {current}) <= Cardinality(now) + 1
      /\ IsFiniteSet(now \cup {current}) /\ Cardinality(now \cup {current}) \in Nat
  BY <1>3, FS_AddElement, FS_CardinalityType
<1>5. Cardinality(Annotated \cup Making) <= Cardinality(now \cup {current})
  BY <1>2, <1>4, FS_Subset
<1>6. /\ Cardinality(FreshOnes) \in Nat /\ Cardinality(Annotated \cup Making) \in Nat
      /\ faults \in Nat
  BY CountsAreFinite, NextCountsAreFinite DEF TypeInv
<1> QED BY <1>1, <1>3, <1>4, <1>5, <1>6 DEF CountInv

\* A statement that is not stale is of a pod without an annotation.
LEMMA CountMade ==
  ASSUME TypeInv, TypeInv', CountInv, NEW p \in todo, pc = "Attest", Attaches(mem[p]),
         statements' = Append(statements, Statement(p)), current' = p,
         pc' \in {"Attached", "NotAttached"}, faults' = faults, PodsMove
  PROVE  CountInv'
<1> DEFINE L == Len(statements)
<1>1. Annotated \cup Making = Annotated /\ p \in Pods
  BY DEF Making, TypeInv
<1>2. Annotated \cup {p} \subseteq (Annotated \cup Making)'
  BY <1>1 DEF Annotated, Making, PodsMove
<1>3. L \in Nat /\ L + 1 \notin FreshOnes /\ 1 .. Len(statements') = (1 .. L) \cup {L + 1}
      /\ statements'[L + 1] = Statement(p) /\ \A n \in 1 .. L : statements'[n] = statements[n]
  BY NewStatement DEF FreshOnes
<1>4. /\ IsFiniteSet(FreshOnes) /\ Cardinality(FreshOnes) \in Nat
      /\ IsFiniteSet(Annotated) /\ Cardinality(Annotated) \in Nat
      /\ IsFiniteSet((Annotated \cup Making)') /\ Cardinality((Annotated \cup Making)') \in Nat
      /\ faults \in Nat
  BY <1>1, CountsAreFinite, NextCountsAreFinite DEF TypeInv
<1>5. Cardinality(Annotated) <= Cardinality((Annotated \cup Making)')
  BY <1>2, <1>4, FS_Subset
<1>6. Cardinality(FreshOnes) <= Cardinality(Annotated) + faults
  BY <1>1 DEF CountInv
<1> DEFINE now == Cardinality((Annotated \cup Making)')
<1>7. SUFFICES Cardinality(FreshOnes') <= now + faults
  BY DEF CountInv
<1> HIDE DEF now
<1>8. CASE Statement(p).stale
  <2>1. FreshOnes' = FreshOnes
    BY <1>3, <1>8 DEF FreshOnes
  <2> QED BY <1>6, <1>4, <1>5, <2>1 DEF now
<1>9. CASE ~ Statement(p).stale
  <2>1. FreshOnes' = FreshOnes \cup {L + 1}
    BY <1>3, <1>9 DEF FreshOnes
  <2>2. Cardinality(FreshOnes') = Cardinality(FreshOnes) + 1
    BY <1>3, <1>4, <2>1, FS_AddElement
  <2>3. p \notin Annotated
    BY <1>9 DEF Statement, Attaches, Annotated, Told
  <2>4. Cardinality(Annotated \cup {p}) = Cardinality(Annotated) + 1
    BY <1>4, <2>3, FS_AddElement
  <2>5. Cardinality(Annotated \cup {p}) <= Cardinality((Annotated \cup Making)')
    BY <1>2, <1>4, FS_Subset
  <2> QED BY <1>6, <1>4, <2>2, <2>4, <2>5 DEF now
<1> QED BY <1>8, <1>9

\* What ends the making of a statement.
LEMMA MakingSteps ==
  ASSUME TypeInv, [Next]_vars, pc \in {"Attached", "NotAttached"}
  PROVE  \/ AnnotateProvenance
         \/ statements' = statements /\ faults' = faults + 1
         \/ UNCHANGED <<pc, current, statements, faults>>
BY DEF Next, Worker, vars, worker, registry, Begin, BeginFails, ReconcilePod,
       MarkInProgress, HandleArtifactInfo, HandleArtifactSigning, AnnotateSigned,
       UpdateFinalStatus, ValidateAllPodsReconciled, HandleProvenanceAttachment,
       Complete, UpdateWorkflowStatus, Crash, Fault, Finish, Relabel, SyncWorkflow, SyncPod

LEMMA FaultsGrow ==
  ASSUME TypeInv, [Next]_vars
  PROVE  faults' >= faults
<1>1. faults' = faults \/ faults' = faults + 1
  <2>1. CASE MarkInProgress \/ HandleArtifactInfo \/ AnnotateSigned \/ UpdateFinalStatus
             \/ HandleArtifactSigning
    BY <2>1, MarkInProgressMoves, HandleArtifactInfoMoves, AnnotateSignedMoves,
       UpdateFinalStatusMoves, HandleArtifactSigningMoves DEF Moves
  <2>2. CASE AnnotateProvenance
    BY <2>2, AnnotateProvenanceMoves
  <2>3. CASE HandleProvenanceAttachment
    BY <2>3 DEF HandleProvenanceAttachment, Attest, Fault
  <2>4. CASE Begin \/ BeginFails \/ UpdateWorkflowStatus \/ Crash
    BY <2>4 DEF Begin, BeginFails, UpdateWorkflowStatus, Crash, Fault
  <2>5. CASE faults' = faults
    BY <2>5
  <2> QED
    BY <2>1, <2>2, <2>3, <2>4, <2>5
       DEF Next, Worker, vars, ReconcilePod, ValidateAllPodsReconciled, Complete,
           Finish, Relabel, SyncWorkflow, SyncPod
<1> QED BY <1>1 DEF TypeInv

LEMMA CountStep ==
  ASSUME TypeInv, TypeInv', CountInv, [Next]_vars
  PROVE  CountInv'
<1>1. PodsMove
  BY PodsStep
<1>2. \A p \in Annotated : p \in Annotated'
  BY <1>1 DEF PodsMove, Annotated
<1>3. CASE statements' # statements
  BY <1>1, <1>3, StatementSteps, CountMade
<1>4. CASE statements' = statements /\ pc \notin {"Attached", "NotAttached"}
  <2>1. Annotated \cup Making \subseteq (Annotated \cup Making)'
    BY <1>2, <1>4 DEF Making
  <2> QED BY <1>4, <2>1, CountKept, FaultsGrow
<1>5. CASE statements' = statements /\ pc \in {"Attached", "NotAttached"}
  <2>1. CASE AnnotateProvenance
    <3>1. CASE faults' = faults /\ Told(podStore'[current])
      <4>1. Annotated \cup Making \subseteq (Annotated \cup Making)'
        BY <1>2, <3>1 DEF Making, Annotated, TypeInv
      <4> QED BY <1>5, <4>1, CountKept, FaultsGrow
    <3>2. CASE faults' = faults + 1
      BY <1>2, <1>5, <3>2, CountLost
    <3> QED BY <2>1, <3>1, <3>2, AnnotateProvenanceMoves
  <2>2. CASE faults' = faults + 1
    BY <1>2, <1>5, <2>2, CountLost
  <2>3. CASE UNCHANGED <<pc, current, faults>>
    <3>1. Annotated \cup Making \subseteq (Annotated \cup Making)'
      BY <1>2, <2>3 DEF Making
    <3> QED BY <1>5, <3>1, CountKept, FaultsGrow
  <2> QED BY <1>5, <2>1, <2>2, <2>3, MakingSteps
<1> QED BY <1>3, <1>4, <1>5

(* handleProveneceAttachment, for any number of pods, crashes and failing     *)
(* calls and any lag: but for those made from a stale copy, there are no more *)
(* statements than pods, crashes and failing calls.                           *)
THEOREM RepeatsCostFaults == Spec => []RepeatsAreExplained
<1>1. Init => CountInv
  <2> SUFFICES ASSUME Init PROVE CountInv
    OBVIOUS
  <2>1. FreshOnes = {} /\ Making = {} /\ faults = 0
    BY DEF Init, FreshOnes, Making
  <2>2. Annotated = {}
    BY DEF Init, Annotated, Told, Stored, NoAnn, AnnKeys
  <2> QED BY <2>1, <2>2, FS_EmptySet DEF CountInv
<1>2. TypeInv /\ CountInv => RepeatsAreExplained
  <2> SUFFICES ASSUME TypeInv, CountInv PROVE RepeatsAreExplained
    OBVIOUS
  <2>1. /\ Cardinality(Annotated \cup Making) <= Cardinality(Pods)
        /\ Cardinality(Annotated \cup Making) \in Nat /\ Cardinality(Pods) \in Nat
        /\ Cardinality(FreshOnes) \in Nat /\ faults \in Nat
    BY CountsAreFinite, NextCountsAreFinite, ProvenanceAssumption, FS_Subset, FS_CardinalityType DEF TypeInv
  <2> QED BY <2>1 DEF CountInv, RepeatsAreExplained, FreshOnes
<1> QED BY <1>1, <1>2, CountStep, TypeInvariant, PTL DEF Spec
==============================================================================
