------------------------------ MODULE LockedMap ------------------------------
(***************************************************************************)
(* utils/map.go: a map that goroutines share behind a read-write lock.      *)
(*                                                                          *)
(* An operation takes the lock, runs its unlocked body, and gives the lock  *)
(* back; a range visits one entry at a time, in no fixed order.  Callbacks  *)
(* of a range do not use the map: Go's lock is not reentrant.               *)
(***************************************************************************)
EXTENDS FiniteSets, Functions

CONSTANTS Goroutines, MapKeys, Values, nil

ASSUME MapAssumption == nil \notin Values \cup Goroutines

VARIABLES
  m,         \* the entries: a function from some keys to values
  readers, writer,  \* the goroutines that hold the lock
  call,      \* the operation each goroutine is in
  told       \* history: who was told that a key was free, since it last was

mapVars == <<m, readers, writer, call, told>>

Reads == {"Get", "Len", "RLockRange"}
Writes == {"Set", "TestAndSet", "Del", "LockRange"}
Ranges == {"RLockRange", "LockRange"}

notCalled == [op |-> "none", key |-> nil, value |-> nil, at |-> "idle",
         visited |-> {}, snapshot |-> {}]

\* A map that has not been written to reads like an empty one (init).
empty == [k \in {} |-> nil]

MapInit ==
  /\ m = empty /\ readers = {} /\ writer = nil
  /\ call = [g \in Goroutines |-> notCalled]
  /\ told = [k \in MapKeys |-> {}]

UnsafeGet(key) == IF key \in DOMAIN m THEN m[key] ELSE nil
UnsafeSet(key, value) == [k \in DOMAIN m \cup {key} |-> IF k = key THEN value ELSE m[k]]
UnsafeDel(key) == Restrict(m, DOMAIN m \ {key})
entries == {<<k, m[k]>> : k \in DOMAIN m}

-----------------------------------------------------------------------------

Call(g, op, key, value) ==
  /\ call[g].at = "idle"
  /\ call' = [call EXCEPT ![g] = [notCalled EXCEPT !.op = op, !.key = key, !.value = value, !.at = "lock"]]
  /\ UNCHANGED <<m, readers, writer, told>>

\* External: sync.RWMutex, without the order in which it lets waiters in.
RLock(g) ==
  /\ call[g].at = "lock" /\ call[g].op \in Reads /\ writer = nil
  /\ readers' = readers \cup {g}
  /\ call' = [call EXCEPT ![g].at = "body", ![g].snapshot = entries]
  /\ UNCHANGED <<m, writer, told>>

Lock(g) ==
  /\ call[g].at = "lock" /\ call[g].op \in Writes /\ writer = nil /\ readers = {}
  /\ writer' = g
  /\ call' = [call EXCEPT ![g].at = "body", ![g].snapshot = entries]
  /\ UNCHANGED <<m, readers, told>>

In(g, op) == call[g].at = "body" /\ call[g].op = op
Done(g) == call' = [call EXCEPT ![g].at = "unlock"]

Return(g, value) == call' = [call EXCEPT ![g].at = "unlock", ![g].value = value]

Get(g) == In(g, "Get") /\ Return(g, UnsafeGet(call[g].key)) /\ UNCHANGED <<m, readers, writer, told>>
MapLen(g) == In(g, "Len") /\ Return(g, Cardinality(DOMAIN m)) /\ UNCHANGED <<m, readers, writer, told>>

Set(g) ==
  /\ In(g, "Set") /\ Done(g)
  /\ m' = UnsafeSet(call[g].key, call[g].value)
  /\ UNCHANGED <<readers, writer, told>>

\* A faulty test gives the lock back before it sets the value.
TestThenSet(g) ==
  /\ In(g, "TestAndSet")
  /\ IF call[g].key \in DOMAIN m
     THEN Done(g) /\ UNCHANGED <<m, writer, told>>
     ELSE /\ told' = [told EXCEPT ![call[g].key] = @ \cup {g}]
          /\ call' = [call EXCEPT ![g].op = "Set", ![g].at = "lock"]
          /\ writer' = nil /\ UNCHANGED m
  /\ UNCHANGED readers

\* nil, and the value set, if the key was free.
TestAndSet(g) ==
  /\ In(g, "TestAndSet") /\ Return(g, UnsafeGet(call[g].key))
  /\ IF call[g].key \in DOMAIN m
     THEN UNCHANGED <<m, told>>
     ELSE /\ m' = UnsafeSet(call[g].key, call[g].value)
          /\ told' = [told EXCEPT ![call[g].key] = @ \cup {g}]
  /\ UNCHANGED <<readers, writer>>

Del(g) ==
  /\ In(g, "Del") /\ Done(g)
  /\ m' = UnsafeDel(call[g].key)
  /\ told' = [told EXCEPT ![call[g].key] = {}]
  /\ UNCHANGED <<readers, writer>>

\* A turn of a range: an entry that has not been visited, or the end.
UnsafeRange(g) ==
  /\ call[g].at = "body" /\ call[g].op \in Ranges
  /\ \/ /\ \E e \in entries \ call[g].visited : call' = [call EXCEPT ![g].visited = @ \cup {e}]
     \/ entries \subseteq call[g].visited /\ Done(g)
  /\ UNCHANGED <<m, readers, writer, told>>

Unlock(g) ==
  /\ call[g].at = "unlock"
  /\ readers' = readers \ {g}
  /\ writer' = IF writer = g THEN nil ELSE writer
  /\ call' = [call EXCEPT ![g] = notCalled]
  /\ UNCHANGED <<m, told>>

Step(g) ==
  RLock(g) \/ Lock(g) \/ Get(g) \/ MapLen(g) \/ Set(g) \/ TestAndSet(g) \/ Del(g)
    \/ UnsafeRange(g) \/ Unlock(g)

MapNext ==
  \E g \in Goroutines :
    \/ \E op \in Reads \cup Writes, key \in MapKeys, value \in Values : Call(g, op, key, value)
    \/ Step(g)

MapSpec == MapInit /\ [][MapNext]_mapVars

-----------------------------------------------------------------------------
(* Properties.                                                              *)

\* Of the goroutines that test a key and set it, one is told that it was free
\* until the key is deleted: TestAndSet can guard what is to be done once.
OneTakesKey == \A k \in MapKeys : Cardinality(told[k]) <= 1

\* A range visits the entries there were when it began, each once and no other,
\* under either lock (RLockRange, LockRange).
RangeIsSnapshot ==
  \A g \in Goroutines :
    call[g].op \in Ranges =>
      /\ call[g].at = "body" => call[g].visited \subseteq call[g].snapshot
      /\ call[g].at = "unlock" => call[g].visited = call[g].snapshot
=============================================================================
