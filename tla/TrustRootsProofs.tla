---------------------------- MODULE TrustRootsProofs ----------------------------
(* Every answer comes from one reading of the roots, for every number of      *)
(* goroutines, every content of the file and any number of calls of ReInit.   *)
EXTENDS TrustRoots, TLAPS

Readings == UNION {InitRoots(s) : s \in Sources}
Pooled == [nil : BOOLEAN, certs : SUBSET Certs]
Read == [roots : Pooled, intermediates : Pooled, err : BOOLEAN]
Phases == {"Idle", "Once", "Init", "Assign", "Answer", "Returned"}

TypeInv ==
  /\ source \in Sources
  /\ once \in {"new", "running", "done"}
  /\ globals \in Read
  /\ pc \in [Callers -> Phases]
  /\ op \in [Callers -> Gets \cup {"ReInit"}]
  /\ todo \in [Callers -> SUBSET Globals]
  /\ got \in [Callers -> Read]
  /\ raced \in BOOLEAN

Filling(c) == pc[c] \in {"Init", "Assign"}
Answering(c) == pc[c] \in {"Answer", "Returned"}

(* One goroutine fills the variables, while nobody reads them; the once is    *)
(* released when they are filled.                                             *)
OnceInv ==
  /\ \A c, d \in Callers : Filling(c) /\ c # d => ~ Filling(d) /\ ~ Answering(d)
  /\ \A c, d \in Callers :
       Filling(c) /\ c # d /\ op[c] = "ReInit" => pc[d] = "Idle"
  /\ \A c \in Callers :
       Filling(c) => once = IF op[c] = "ReInit" THEN "done" ELSE "running"
  /\ once # "done" => \A c \in Callers : ~ Answering(c) /\ op[c] # "ReInit"

(* What has been assigned, and what has been read, is the same everywhere.    *)
CopyInv ==
  /\ (once = "done" /\ \A c \in Callers : ~ Filling(c)) => globals \in Readings
  /\ \A c \in Callers :
       /\ pc[c] = "Assign" => got[c] \in Readings
       /\ pc[c] = "Assign" \/ Answering(c) =>
            \A v \in Globals \ todo[c] : got[c][v] = globals[v]
       /\ pc[c] = "Returned" => todo[c] = {}

RootsInv == ~ raced => OnceInv /\ CopyInv
------------------------------------------------------------------------------
(* A reading assigns each of the three variables a pool or an error.          *)
LEMMA ReadingValues == Readings \subseteq Read
<1>1. Default \in Read /\ InitFails \in Read
  BY DEF Default, InitFails, Read, Pooled, Pool, Nil
<1>2. ASSUME NEW certs \in SUBSET Certs PROVE Split(certs) \in Read
  BY DEF Split, Read, Pooled, Pool, Nil
<1>3. ASSUME NEW s \in Sources PROVE InitRoots(s) \subseteq Read
  BY <1>1, <1>2, <1>3, TrustRootsAssumption DEF Sources, InitRoots
<1> QED
  BY <1>3 DEF Readings

LEMMA RootsInit == Init => TypeInv /\ RootsInv
<1>1. /\ InitFails \in Read
      /\ [roots |-> Nil, intermediates |-> Nil, err |-> FALSE] \in Read
  BY DEF InitFails, Read, Pooled, Nil
<1> QED
  BY <1>1
  DEF Init, TypeInv, RootsInv, OnceInv, CopyInv, Filling, Answering, Phases, Gets

(* A race is not forgotten.                                                   *)
LEMMA RaceStays == TypeInv /\ [Next]_vars /\ ~ raced' => ~ raced
BY DEF TypeInv, Next, Step, CallGet, CallReInit, DoFirst, DoDone, ReadSource,
       Assign, Assigned, Answer, ChangeSource, vars

LEMMA RootsTypes == TypeInv /\ [Next]_vars => TypeInv'
<1> SUFFICES ASSUME TypeInv, [Next]_vars PROVE TypeInv'
  OBVIOUS
<1> USE DEF TypeInv, Phases, Gets
<1>1. ASSUME NEW c \in Callers, CallGet(c) PROVE TypeInv'
  <2>1. InitFails \in Read
    BY DEF InitFails, Read, Pooled, Nil
  <2>2. QED
    BY <1>1, <2>1 DEF CallGet
<1>2. ASSUME NEW c \in Callers, CallReInit(c) PROVE TypeInv'
  BY <1>2 DEF CallReInit
<1>3. ASSUME NEW c \in Callers, DoFirst(c) PROVE TypeInv'
  BY <1>3 DEF DoFirst, TakeOnce
<1>4. ASSUME NEW c \in Callers, DoDone(c) PROVE TypeInv'
  BY <1>4 DEF DoDone
<1>5. ASSUME NEW c \in Callers, ReadSource(c) PROVE TypeInv'
  BY <1>5, ReadingValues DEF ReadSource, Readings
<1>6. ASSUME NEW c \in Callers, Assign(c) PROVE TypeInv'
  <2>1. \A v \in Globals :
          /\ [globals EXCEPT ![v] = got[c][v]] \in Read
          /\ todo[c] \ {v} \in SUBSET Globals
    BY DEF Globals, Read
  <2>2. QED
    BY <1>6, <2>1 DEF Assign
<1>7. ASSUME NEW c \in Callers, Assigned(c) PROVE TypeInv'
  BY <1>7 DEF Assigned
<1>8. ASSUME NEW c \in Callers, Answer(c) PROVE TypeInv'
  <2>1. \A v \in Globals :
          /\ [got[c] EXCEPT ![v] = globals[v]] \in Read
          /\ todo[c] \ {v} \in SUBSET Globals
    BY DEF Globals, Read
  <2>2. PICK v \in todo[c] :
          /\ got' = [got EXCEPT ![c] = [got[c] EXCEPT ![v] = globals[v]]]
          /\ todo' = [todo EXCEPT ![c] = todo[c] \ {v}]
          /\ pc' = [pc EXCEPT ![c] = IF todo[c] = {v} THEN "Returned" ELSE pc[c]]
    BY <1>8 DEF Answer
  <2>3. QED
    BY <1>8, <2>1, <2>2 DEF Answer
<1>9. CASE ChangeSource
  BY <1>9 DEF ChangeSource
<1>10. CASE UNCHANGED vars
  BY <1>10 DEF vars
<1> QED
  BY <1>1, <1>2, <1>3, <1>4, <1>5, <1>6, <1>7, <1>8, <1>9, <1>10 DEF Next, Step

(* sync.Once: nobody reads the variables while they are filled, and a ReInit  *)
(* is alone from its call to the last of its assignments.                     *)
LEMMA RootsOnce == TypeInv /\ OnceInv /\ [Next]_vars /\ ~ raced' => OnceInv'
<1> SUFFICES ASSUME TypeInv, OnceInv, [Next]_vars, ~ raced' PROVE OnceInv'
  OBVIOUS
<1> USE DEF TypeInv, Phases, Gets, OnceInv, Filling, Answering
<1>1. ASSUME NEW c \in Callers, CallGet(c) PROVE OnceInv'
  BY <1>1 DEF CallGet, Resting
<1>2. ASSUME NEW c \in Callers, CallReInit(c) PROVE OnceInv'
  BY <1>2 DEF CallReInit, Resting
<1>3. ASSUME NEW c \in Callers, DoFirst(c) PROVE OnceInv'
  BY <1>3 DEF DoFirst, TakeOnce
<1>4. ASSUME NEW c \in Callers, DoDone(c) PROVE OnceInv'
  BY <1>4 DEF DoDone
<1>5. ASSUME NEW c \in Callers, ReadSource(c) PROVE OnceInv'
  BY <1>5 DEF ReadSource
<1>6. ASSUME NEW c \in Callers, Assign(c) PROVE OnceInv'
  BY <1>6 DEF Assign
<1>7. ASSUME NEW c \in Callers, Assigned(c) PROVE OnceInv'
  BY <1>7 DEF Assigned
<1>8. ASSUME NEW c \in Callers, Answer(c) PROVE OnceInv'
  BY <1>8 DEF Answer
<1>9. CASE ChangeSource \/ UNCHANGED vars
  BY <1>9 DEF ChangeSource, vars
<1> QED
  BY <1>1, <1>2, <1>3, <1>4, <1>5, <1>6, <1>7, <1>8, <1>9 DEF Next, Step

(* A variable holds what the one that filled it read, and an answer what the  *)
(* variables hold.                                                            *)
LEMMA RootsCopies ==
  TypeInv /\ OnceInv /\ CopyInv /\ [Next]_vars /\ ~ raced' => CopyInv'
<1> SUFFICES ASSUME TypeInv, OnceInv, CopyInv, [Next]_vars, ~ raced' PROVE CopyInv'
  OBVIOUS
<1> USE DEF TypeInv, Phases, Gets, OnceInv, CopyInv, Filling, Answering
<1>1. ASSUME NEW c \in Callers, CallGet(c) PROVE CopyInv'
  BY <1>1 DEF CallGet, Resting
<1>2. ASSUME NEW c \in Callers, CallReInit(c) PROVE CopyInv'
  BY <1>2 DEF CallReInit, Resting
<1>3. ASSUME NEW c \in Callers, DoFirst(c) PROVE CopyInv'
  BY <1>3 DEF DoFirst, TakeOnce
<1>4. ASSUME NEW c \in Callers, DoDone(c) PROVE CopyInv'
  BY <1>4 DEF DoDone
<1>5. ASSUME NEW c \in Callers, ReadSource(c) PROVE CopyInv'
  BY <1>5 DEF ReadSource, Readings
<1>6. ASSUME NEW c \in Callers, Assign(c) PROVE CopyInv'
  <2>1. PICK v \in todo[c] :
          /\ globals' = [globals EXCEPT ![v] = got[c][v]]
          /\ todo' = [todo EXCEPT ![c] = todo[c] \ {v}]
    BY <1>6 DEF Assign
  <2>2. \A w \in Globals : globals'[w] = IF w = v THEN got[c][v] ELSE globals[w]
    BY <2>1 DEF Globals, Read
  <2>3. \A d \in Callers \ {c} : ~ Answering(d) /\ pc[d] # "Assign"
    BY <1>6 DEF Assign
  <2>4. QED
    BY <1>6, <2>1, <2>2, <2>3 DEF Assign
<1>7. ASSUME NEW c \in Callers, Assigned(c) PROVE CopyInv'
  <2>1. \A v \in Globals : got[c][v] = globals[v]
    BY <1>7 DEF Assigned
  <2>2. got[c] = globals
    BY <2>1 DEF Globals, Read
  <2>3. globals \in Readings
    BY <1>7, <2>2 DEF Assigned
  <2>4. QED
    BY <1>7, <2>3 DEF Assigned
<1>8. ASSUME NEW c \in Callers, Answer(c) PROVE CopyInv'
  <2>1. PICK v \in todo[c] :
          /\ got' = [got EXCEPT ![c] = [got[c] EXCEPT ![v] = globals[v]]]
          /\ todo' = [todo EXCEPT ![c] = todo[c] \ {v}]
          /\ pc' = [pc EXCEPT ![c] = IF todo[c] = {v} THEN "Returned" ELSE pc[c]]
    BY <1>8 DEF Answer
  <2>2. \A w \in Globals :
          [got[c] EXCEPT ![v] = globals[v]][w]
            = IF w = v THEN globals[v] ELSE got[c][w]
    BY DEF Globals, Read
  <2>3. QED
    BY <1>8, <2>1, <2>2 DEF Answer
<1>9. CASE ChangeSource \/ UNCHANGED vars
  BY <1>9 DEF ChangeSource, vars
<1> QED
  BY <1>1, <1>2, <1>3, <1>4, <1>5, <1>6, <1>7, <1>8, <1>9 DEF Next, Step

(* Get and GetIntermediates, called by any number of goroutines: all answers  *)
(* are those of one reading of one source, until a ReInit runs beside them.   *)
THEOREM AnswersAgree == Spec => []OneReading
<1>1. TypeInv /\ RootsInv => OneReading
  <2> SUFFICES ASSUME TypeInv, OnceInv, CopyInv PROVE OneReading
    BY DEF RootsInv, OneReading
  <2>1. CASE \E c \in Callers : pc[c] = "Returned"
    <3>1. \A c \in Callers : ~ Filling(c)
      BY <2>1 DEF OnceInv, Filling, Answering
    <3>2. globals \in Readings
      BY <2>1, <3>1 DEF OnceInv, CopyInv, Answering, TypeInv
    <3>3. \A c \in Callers : Pools(c) \subseteq Globals
      BY DEF Pools, Globals
    <3>4. QED
      BY <3>2, <3>3 DEF OneReading, CopyInv, Answering, Readings
  <2>2. CASE \A c \in Callers : pc[c] # "Returned"
    <3>1. InitFails \in InitRoots(<<{}, Unset>>) /\ <<{}, Unset>> \in Sources
      BY TrustRootsAssumption DEF InitRoots, Sources
    <3>2. QED
      BY <2>2, <3>1 DEF OneReading
  <2>3. QED
    BY <2>1, <2>2
<1>2. TypeInv /\ RootsInv /\ [Next]_vars => RootsInv'
  BY RaceStays, RootsOnce, RootsCopies DEF RootsInv
<1> QED
  BY RootsInit, RootsTypes, <1>1, <1>2, PTL DEF Spec
==============================================================================
