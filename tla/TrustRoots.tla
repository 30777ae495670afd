------------------------------ MODULE TrustRoots ------------------------------
(* The Fulcio trust roots of package fulcioroots: two pools and an error in   *)
(* package variables, filled by whichever goroutine comes first and read by   *)
(* all of them. The program links the package and calls it from tests only,   *)
(* which also replace the roots by ReInit.                                    *)
EXTENDS Naturals, FiniteSets

CONSTANTS
  Callers,    \* goroutines
  Files,      \* what the file of SIGSTORE_ROOT_FILE may hold: its certificates
  MaxReInits  \* bound: calls of ReInit

(* A certificate is its subject and its issuer. Unset stands for an empty     *)
(* SIGSTORE_ROOT_FILE, where sigstore's own roots are taken, which are there  *)
(* or not; Unreadable for a file that is missing or no PEM.                   *)
CONSTANTS Certs, Unset, Unreadable

ASSUME TrustRootsAssumption ==
  /\ \A c \in Certs : c = [subject |-> c.subject, issuer |-> c.issuer]
  /\ Files \subseteq SUBSET Certs
  /\ Unset # Unreadable /\ "file" \notin {Unset, Unreadable}
  /\ MaxReInits \in Nat

VARIABLES
  source,   \* what the environment names now
  once,     \* rootsOnce
  globals,  \* roots, intermediates and singletonRootErr
  pc, op,   \* where every goroutine is, and in which function
  todo,     \* the variables it has still to assign or to read
  got,      \* what it has read: the source, or its answer
  reinits,  \* calls of ReInit so far
  raced     \* history: whether a ReInit ran before or beside a Get

vars == <<source, once, globals, pc, op, todo, got, reinits, raced>>

Globals == {"roots", "intermediates", "err"}
Gets == {"Get", "GetIntermediates"}
------------------------------------------------------------------------------
(* initRoots. A nil pool is no pool of certificates, not an empty one.        *)
Nil == [nil |-> TRUE, certs |-> {}]
Pool(certs) == [nil |-> FALSE, certs |-> certs]
SelfSigned(c) == c.subject = c.issuer

InitFails == [roots |-> Nil, intermediates |-> Nil, err |-> TRUE]
Split(certs) ==
  LET own == {c \in certs : SelfSigned(c)} IN
  [roots |-> Pool(own),
   intermediates |-> IF certs = own THEN Nil ELSE Pool(certs \ own),
   err |-> FALSE]
\* What sigstore's package answers when the variable is empty.
Default == [roots |-> Pool({}), intermediates |-> Pool({}), err |-> FALSE]

Sources == Files \X {"file"} \cup {<<{}, Unset>>, <<{}, Unreadable>>}
InitRoots(s) ==
  CASE s[2] = "file" -> {Split(s[1])}
    [] s[2] = Unset -> {Default, InitFails}
    [] OTHER -> {InitFails}
------------------------------------------------------------------------------
Resting(c) == pc[c] \in {"Idle", "Returned"}

CallGet(c) ==
  /\ Resting(c)
  /\ \E f \in Gets : op' = [op EXCEPT ![c] = f]
  /\ pc' = [pc EXCEPT ![c] = "Once"]
  /\ got' = [got EXCEPT ![c] = InitFails]
  /\ raced' = (raced \/ \E d \in Callers : op[d] = "ReInit" /\ ~ Resting(d))
  /\ UNCHANGED <<source, once, globals, todo, reinits>>

(* "This is only to be used for tests, where the trust root environment       *)
(* variables may change after the roots are initialized": nothing in ReInit   *)
(* sees to it. Answers given before it are not used any more.                 *)
CallReInit(c) ==
  /\ Resting(c) /\ reinits < MaxReInits
  /\ reinits' = reinits + 1
  /\ op' = [op EXCEPT ![c] = "ReInit"]
  /\ pc' = [d \in Callers |-> CASE d = c -> "Init"
                               [] d # c /\ Resting(d) -> "Idle"
                               [] OTHER -> pc[d]]
  /\ raced' = (raced \/ once # "done" \/ \E d \in Callers : ~ Resting(d))
  /\ UNCHANGED <<source, once, globals, todo, got>>

\* Mutant: the flag is set before the roots are there.
TakeOnceFlag == "done"
\* rootsOnce while its function runs.
TakeOnce == "running"

(* rootsOnce.Do: the first caller runs initRoots, those that come meanwhile   *)
(* wait for it, later ones go on.                                             *)
DoFirst(c) ==
  /\ pc[c] = "Once" /\ once = "new"
  /\ once' = TakeOnce
  /\ pc' = [pc EXCEPT ![c] = "Init"]
  /\ UNCHANGED <<source, globals, op, todo, got, reinits, raced>>

DoDone(c) ==
  /\ pc[c] = "Once" /\ once = "done"
  /\ pc' = [pc EXCEPT ![c] = "Answer"]
  /\ todo' = [todo EXCEPT ![c] = Globals]
  /\ UNCHANGED <<source, once, globals, op, got, reinits, raced>>

ReadSource(c) ==
  /\ pc[c] = "Init"
  /\ \E result \in InitRoots(source) : got' = [got EXCEPT ![c] = result]
  /\ pc' = [pc EXCEPT ![c] = "Assign"]
  /\ todo' = [todo EXCEPT ![c] = Globals]
  /\ UNCHANGED <<source, once, globals, op, reinits, raced>>

(* The assignment of the three variables, in any order.                       *)
Assign(c) ==
  /\ pc[c] = "Assign"
  /\ \E v \in todo[c] :
       /\ globals' = [globals EXCEPT ![v] = got[c][v]]
       /\ todo' = [todo EXCEPT ![c] = @ \ {v}]
  /\ UNCHANGED <<source, once, pc, op, got, reinits, raced>>

(* The once is released whatever its function returned.                       *)
Assigned(c) ==
  /\ pc[c] = "Assign" /\ todo[c] = {}
  /\ once' = IF op[c] = "ReInit" THEN once ELSE "done"
  /\ pc' = [pc EXCEPT ![c] = "Answer"]
  /\ todo' = [todo EXCEPT ![c] = Globals]
  /\ UNCHANGED <<source, globals, op, got, reinits, raced>>

(* The return statement reads the variables again, outside the once.          *)
Answer(c) ==
  /\ pc[c] = "Answer"
  /\ \E v \in todo[c] :
       /\ got' = [got EXCEPT ![c][v] = globals[v]]
       /\ todo' = [todo EXCEPT ![c] = @ \ {v}]
       /\ pc' = [pc EXCEPT ![c] = IF todo[c] = {v} THEN "Returned" ELSE @]
  /\ UNCHANGED <<source, once, globals, op, reinits, raced>>

ChangeSource == \* the variable, or the file it names
  /\ source' \in Sources \ {source}
  /\ UNCHANGED <<once, globals, pc, op, todo, got, reinits, raced>>

Step(c) == \/ DoFirst(c) \/ DoDone(c) \/ ReadSource(c)
           \/ Assign(c) \/ Assigned(c) \/ Answer(c)
------------------------------------------------------------------------------
Init ==
  /\ source \in Sources
  /\ once = "new"
  /\ globals = [roots |-> Nil, intermediates |-> Nil, err |-> FALSE]
  /\ pc = [c \in Callers |-> "Idle"]
  /\ op = [c \in Callers |-> "Get"]
  /\ todo = [c \in Callers |-> {}]
  /\ got = [c \in Callers |-> InitFails]
  /\ reinits = 0 /\ raced = FALSE

Next == \/ \E c \in Callers : CallGet(c) \/ CallReInit(c) \/ Step(c)
        \/ ChangeSource

Spec == Init /\ [][Next]_vars
------------------------------------------------------------------------------
(* Get and GetIntermediates are called one after the other, by several        *)
(* goroutines, and their pools are used together: whatever the environment    *)
(* does meanwhile, all the answers, also an error, are those of one reading   *)
(* of one source. After ReInit they are those of what it read, provided it    *)
(* was called as its comment says, once the roots were there, and alone.      *)
Pools(c) == IF op[c] = "ReInit" THEN {"err"}
            ELSE {"err", IF op[c] = "Get" THEN "roots" ELSE "intermediates"}
OneReading ==
  ~ raced =>
    \E reading \in UNION {InitRoots(s) : s \in Sources} :
      \A c \in Callers : pc[c] = "Returned" =>
        \A v \in Pools(c) : got[c][v] = reading[v]
==============================================================================
