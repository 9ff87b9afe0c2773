-------------------------------- MODULE RawTable --------------------------------
(***************************************************************************)
(* The open-addressing hash table of the standard library                  *)
(* (libs/external/alloc/raw_table.ln) under HashMap and HashSet: linear    *)
(* probing, deletion by tombstone, reuse of the first tombstone of a       *)
(* chain, and growth by rehashing into new storage, one entry per step.    *)
(*                                                                         *)
(* The four parallel arrays are one function of slots.  A capacity is a    *)
(* power of two, so `hash & (cap - 1)` is hash % cap.  The ledgers         *)
(* dueKeys and dueValues count, for every key and value, the instances the *)
(* table has been given and has neither dropped nor handed back.           *)
(***************************************************************************)
EXTENDS Integers, FiniteSets

CONSTANTS
  Keys, Values,
  Pairs,           \* the keys and values that are inserted, of Keys \X Values
  HashFunctions,   \* the hashes the runs try, functions from the keys that are used
  Capacities,      \* the capacities a table is created with
  Sizes            \* bound: the sizes of storage there is memory for

ASSUME HashesAssumption ==
  \A h \in HashFunctions : DOMAIN h \subseteq Keys /\ \A k \in DOMAIN h : h[k] \in Nat
ASSUME SizesAssumption == \A n \in Sizes : n \in Nat /\ n >= 8 /\ \E e \in 3 .. n : n = 2 ^ e
ASSUME CapacitiesAssumption == \A c \in Capacities : c = 0 \/ (c \in Nat /\ \E n \in Sizes : n >= c)

VARIABLES
  hash,          \* the hash of every key that is used
  slots,         \* the slots, numbered from 0
  cap,           \* the capacity
  len,           \* the number of entries
  tombstones,    \* the number of tombstones
  pc,            \* "none", "idle", "growing", "placing", "iterating", "consuming"
  pending,       \* the key and value an insertion holds
  fresh,         \* the slots the table grows into
  moved,         \* how many old slots the growth has gone through
  cursor,        \* the position of the iterator
  visited,       \* the keys the iterator has returned
  answer,        \* what the last operation returned
  dueKeys, dueValues

storage   == <<slots, cap, len, tombstones>>
growth    == <<fresh, moved>>
iterator  == <<cursor, visited>>
ledgers   == <<dueKeys, dueValues>>
vars      == <<hash, storage, pc, pending, growth, iterator, answer, ledgers>>

Nothing == <<>>
Truth(b) == IF b THEN 1 ELSE 0   \* a bool that is returned
Empty == [state |-> 0]
Deleted == [state |-> 2]
Entry(k, v) == [state |-> 1, hash |-> hash[k], key |-> k, value |-> v]

Vacant(n) == [i \in 0 .. n - 1 |-> Empty]
Full(table) == {i \in DOMAIN table : table[i].state = 1}
Tombs(table) == {i \in DOMAIN table : table[i].state = 2}

LeastOf(S) == CHOOSE n \in S : \A m \in S : n <= m

\* The table is usable, and the caller has taken the answer of the operation before.
Ready == pc = "idle" /\ answer = Nothing

TakeAnswer ==
  /\ answer # Nothing
  /\ answer' = Nothing
  /\ UNCHANGED <<hash, storage, pc, pending, growth, iterator, ledgers>>

-----------------------------------------------------------------------------
(***************************************************************************)
(* Probing.                                                                *)
(***************************************************************************)
Position(h, step, n) == (h + step) % n

\* Mistake: a tombstone ends the search.
StopsAtTombstone(k, step) ==
  LET s == slots[Position(hash[k], step, cap)] IN s.state # 1 \/ (s.hash = hash[k] /\ s.key = k)

\* The search for k ends at an empty slot or at the entry of k.
Stops(k, step) ==
  LET s == slots[Position(hash[k], step, cap)]
  IN  s.state = 0 \/ (s.state = 1 /\ s.hash = hash[k] /\ s.key = k)

\* Where k is, or the slot a new entry for k takes: `cap` when there is none.
Find(k) ==
  IF cap = 0 THEN [found |-> FALSE, at |-> 0]
  ELSE LET ends  == {s \in 0 .. cap - 1 : Stops(k, s)}
           last  == IF ends = {} THEN cap ELSE LeastOf(ends)
           tombs == {s \in 0 .. last - 1 : slots[Position(hash[k], s, cap)].state = 2}
           end   == Position(hash[k], last, cap)
       IN  IF ends # {} /\ slots[end].state = 1 THEN [found |-> TRUE, at |-> end]
           ELSE [found |-> FALSE,
                 at |-> IF tombs # {} THEN Position(hash[k], LeastOf(tombs), cap)
                        ELSE IF ends # {} THEN end ELSE cap]

\* Mistake: only entries count.
NeedsRoomForEntries == cap = 0 \/ (len + 1) * 4 >= cap * 3

\* The load the table may not reach; tombstones lengthen chains like entries do.
NeedsRoom == cap = 0 \/ (len + tombstones + 1) * 4 >= cap * 3

NewCapacity == IF cap = 0 THEN 8 ELSE IF len * 2 <= cap THEN cap ELSE cap * 2

-----------------------------------------------------------------------------
(***************************************************************************)
(* Creation, and the end of the table.                                     *)
(***************************************************************************)
Rounded(capacity) == IF capacity = 0 THEN 0 ELSE LeastOf({n \in Sizes : n >= capacity})

Create(capacity) ==
  /\ pc = "none"
  /\ cap' = Rounded(capacity)
  /\ slots' = Vacant(Rounded(capacity))
  /\ len' = 0 /\ tombstones' = 0
  /\ pc' = "idle"
  /\ answer' = Nothing
  /\ UNCHANGED <<hash, pending, growth, iterator, ledgers>>

\* What is left when the entries at the given slots are dropped.
Released(at) ==
  /\ dueKeys' = [k \in Keys |-> dueKeys[k] - Cardinality({i \in at : slots[i].key = k})]
  /\ dueValues' = [v \in Values |-> dueValues[v] - Cardinality({i \in at : slots[i].value = v})]

DropTable ==
  /\ pc \in {"idle", "consuming"} /\ answer = Nothing
  /\ Released(Full(slots))
  /\ slots' = Vacant(0) /\ cap' = 0 /\ len' = 0 /\ tombstones' = 0
  /\ cursor' = 0 /\ visited' = {}
  /\ pc' = "none"
  /\ answer' = Nothing
  /\ UNCHANGED <<hash, pending, growth>>

-----------------------------------------------------------------------------
(***************************************************************************)
(* Insertion: the table grows first if it must, then the entry is placed.  *)
(***************************************************************************)
\* Mistake: the states of the new storage are not zeroed.
NotZeroed(n) == [i \in 0 .. n - 1 |-> Deleted]

NewStorage(n) == Vacant(n)

BeginInsert(k, v) ==
  /\ Ready
  /\ NeedsRoom => NewCapacity \in Sizes
  /\ pending' = <<k, v>>
  /\ dueKeys' = [dueKeys EXCEPT ![k] = @ + 1]
  /\ dueValues' = [dueValues EXCEPT ![v] = @ + 1]
  /\ IF NeedsRoom
     THEN pc' = "growing" /\ fresh' = NewStorage(NewCapacity) /\ moved' = 0
     ELSE pc' = "placing" /\ UNCHANGED growth
  /\ UNCHANGED <<hash, storage, iterator, answer>>

\* The steps from the home of hash h at which the new storage has an empty slot.
Room(h, n) == {s \in 0 .. n - 1 : fresh[Position(h, s, n)].state = 0}

\* The entries of the old storage that the growth has not gone through.
Waiting == {i \in Full(slots) : i >= moved}

\* The next entry moves to the first empty slot after its home; without one, the search goes round for ever.
MoveSlot ==
  /\ pc = "growing"
  /\ Waiting # {}
  /\ \E i \in {LeastOf(Waiting)}, n \in {Cardinality(DOMAIN fresh)} :
        IF Room(slots[i].hash, n) = {} THEN UNCHANGED growth
        ELSE /\ fresh' = [fresh EXCEPT ![Position(slots[i].hash, LeastOf(Room(slots[i].hash, n)), n)] = slots[i]]
             /\ moved' = i + 1
  /\ UNCHANGED <<hash, storage, pc, pending, iterator, answer, ledgers>>

FinishGrow ==
  /\ pc = "growing"
  /\ Waiting = {}
  /\ slots' = fresh /\ cap' = Cardinality(DOMAIN fresh) /\ tombstones' = 0
  /\ fresh' = Vacant(0) /\ moved' = 0
  /\ pc' = "placing"
  /\ UNCHANGED <<hash, len, pending, iterator, answer, ledgers>>

\* An entry of the key gets the new value: its old value and the new key are dropped.
ReplaceValue(i, k, v) ==
  /\ slots' = [slots EXCEPT ![i].value = v]
  /\ dueKeys' = [dueKeys EXCEPT ![k] = @ - 1]
  /\ dueValues' = [dueValues EXCEPT ![slots[i].value] = @ - 1]
  /\ answer' = <<Truth(FALSE)>>
  /\ UNCHANGED <<cap, len, tombstones>>

PlaceEntry(i, k, v) ==
  /\ slots' = [slots EXCEPT ![i] = Entry(k, v)]
  /\ len' = len + 1
  /\ tombstones' = IF slots[i].state = 2 THEN tombstones - 1 ELSE tombstones
  /\ answer' = <<Truth(TRUE)>>
  /\ UNCHANGED <<cap, ledgers>>

Place ==
  /\ pc = "placing"
  /\ \E k \in {pending[1]}, v \in {pending[2]} : \E probe \in {Find(k)} :
        IF probe.found THEN ReplaceValue(probe.at, k, v) ELSE PlaceEntry(probe.at, k, v)
  /\ pc' = "idle"
  /\ pending' = Nothing
  /\ UNCHANGED <<hash, growth, iterator>>

-----------------------------------------------------------------------------
(***************************************************************************)
(* The other operations.                                                   *)
(***************************************************************************)
Found(k) == len # 0 /\ Find(k).found

\* Lookups while an iterator borrows the table change nothing and are left out.
Lookup(k) ==
  /\ Ready
  /\ answer' = IF Found(k) THEN <<slots[Find(k).at].value>> ELSE Nothing
  /\ UNCHANGED <<hash, storage, pc, pending, growth, iterator, ledgers>>

Length ==
  /\ Ready
  /\ answer' = <<len>>
  /\ UNCHANGED <<hash, storage, pc, pending, growth, iterator, ledgers>>

\* get_mut: the caller exchanges the value.
Exchange(k, v) ==
  /\ Ready
  /\ IF Found(k)
     THEN LET i == Find(k).at
              old == slots[i].value
          IN  /\ slots' = [slots EXCEPT ![i].value = v]
              /\ answer' = <<old>>
              /\ dueValues' = [w \in Values |-> dueValues[w] + (IF w = v THEN 1 ELSE 0) - (IF w = old THEN 1 ELSE 0)]
     ELSE answer' = Nothing /\ UNCHANGED <<slots, dueValues>>
  /\ UNCHANGED <<hash, cap, len, tombstones, pc, pending, growth, iterator, dueKeys>>

\* Mistake: the slot of a removed entry becomes empty.
RemovedIsEmpty(i) == [slots EXCEPT ![i] = Empty]

\* Mistake: the tombstone is not counted.
UncountedTombstone == tombstones' = tombstones

CountTombstone == tombstones' = tombstones + 1

WithoutEntry(i) == [slots EXCEPT ![i] = Deleted]

Remove(k) ==
  /\ Ready
  /\ answer' = <<Truth(Found(k))>>
  /\ IF Found(k)
     THEN LET i == Find(k).at
          IN  /\ Released({i})
              /\ slots' = WithoutEntry(i)
              /\ len' = len - 1
              /\ CountTombstone
     ELSE UNCHANGED <<slots, len, tombstones, ledgers>>
  /\ UNCHANGED <<hash, cap, pc, pending, growth, iterator>>

\* Nothing happens to a table without entries, its tombstones stay.
Clear ==
  /\ Ready
  /\ answer' = Nothing
  /\ IF len > 0
     THEN Released(Full(slots)) /\ slots' = Vacant(cap) /\ len' = 0 /\ tombstones' = 0
     ELSE UNCHANGED <<slots, len, tombstones, ledgers>>
  /\ UNCHANGED <<hash, cap, pc, pending, growth, iterator>>

-----------------------------------------------------------------------------
(***************************************************************************)
(* Iteration, by reference and by value.                                   *)
(***************************************************************************)
Iterate(how) ==
  /\ Ready
  /\ pc' = how
  /\ cursor' = 0 /\ visited' = {}
  /\ answer' = Nothing
  /\ UNCHANGED <<hash, storage, pending, growth, ledgers>>

Ahead == {i \in Full(slots) : i >= cursor}

\* Mistake: an entry that was handed out stays in its slot.
TakenStays(i) == UNCHANGED slots

\* An owning iterator empties the slot of the entry it hands out; the lengths are not kept.
TakeFrom(i) == slots' = [slots EXCEPT ![i] = Empty]

NextEntry ==
  /\ pc \in {"iterating", "consuming"} /\ answer = Nothing
  /\ IF Ahead = {}
     THEN cursor' = cap /\ answer' = Nothing /\ UNCHANGED <<slots, visited, ledgers>>
     ELSE LET i == LeastOf(Ahead)
          IN  /\ cursor' = i + 1
              /\ answer' = <<slots[i].key, slots[i].value>>
              /\ visited' = visited \cup {slots[i].key}
              /\ IF pc = "consuming" THEN TakeFrom(i) /\ Released({i}) ELSE UNCHANGED <<slots, ledgers>>
  /\ UNCHANGED <<hash, cap, len, tombstones, pc, pending, growth>>

EndIteration ==
  /\ pc = "iterating" /\ answer = Nothing
  /\ pc' = "idle"
  /\ cursor' = 0 /\ visited' = {}
  /\ answer' = Nothing
  /\ UNCHANGED <<hash, storage, pending, growth, ledgers>>

-----------------------------------------------------------------------------
Init ==
  /\ hash \in HashFunctions
  /\ slots = Vacant(0) /\ cap = 0 /\ len = 0 /\ tombstones = 0
  /\ pc = "none" /\ pending = Nothing
  /\ fresh = Vacant(0) /\ moved = 0
  /\ cursor = 0 /\ visited = {}
  /\ answer = Nothing
  /\ dueKeys = [k \in Keys |-> 0] /\ dueValues = [v \in Values |-> 0]

Insertion == MoveSlot \/ FinishGrow \/ Place

Next ==
  \/ \E capacity \in Capacities : Create(capacity)
  \/ Insertion \/ TakeAnswer \/ Length \/ Clear \/ NextEntry \/ EndIteration \/ DropTable
  \/ \E how \in {"iterating", "consuming"} : Iterate(how)
  \/ \E k \in DOMAIN hash :
        \/ Lookup(k) \/ Remove(k)
        \/ \E v \in {u \in Values : <<k, u>> \in Pairs} : BeginInsert(k, v) \/ Exchange(k, v)

\* The program may stop using the table, but an operation it called runs to its end.
Spec == Init /\ [][Next]_vars /\ WF_vars(Insertion)

-----------------------------------------------------------------------------
\* The entries the table holds, in the new storage or still in the old one while it grows.
Stored ==
  IF pc = "growing"
  THEN {fresh[i] : i \in Full(fresh)} \cup {slots[i] : i \in Waiting}
  ELSE {slots[i] : i \in Full(slots)}

Contents == [k \in {s.key : s \in Stored} |-> (CHOOSE s \in Stored : s.key = k).value]

Mode == CASE pc = "none" -> "none"
          [] pc = "iterating" -> "borrowed"
          [] pc = "consuming" -> "owned"
          [] OTHER -> "open"

Map == INSTANCE OwnedMap WITH map <- Contents, mode <- Mode

\* Counters, capacities and positions stay in their ranges; a capacity is a power of two.
TableTypeOK ==
  /\ pc \in {"none", "idle", "growing", "placing", "iterating", "consuming"}
  /\ cap \in {0} \cup Sizes
  /\ DOMAIN slots = 0 .. cap - 1
  /\ \A i \in DOMAIN slots : slots[i].state \in {0, 1, 2}
  /\ len \in Nat /\ tombstones \in Nat
  /\ moved \in 0 .. cap /\ cursor \in 0 .. cap
  /\ visited \subseteq Keys

(***************************************************************************)
(* The table is a map: whatever the hashes, the collisions, the tombstones *)
(* and the growth steps, every operation answers as a map would.           *)
(***************************************************************************)
ImplementsMap == Map!MapSpec

\* Every key and value the table was given is either still stored or was dropped or handed back, once.
InFlight(n) == IF pending = Nothing THEN {} ELSE {pending[n]}
NothingLeaksOrDropsTwice ==
  /\ \A k \in Keys :
        dueKeys[k] = Cardinality({s \in Stored : s.key = k}) + (IF k \in InFlight(1) THEN 1 ELSE 0)
  /\ \A v \in Values :
        dueValues[v] = Cardinality({s \in Stored : s.value = v}) + (IF v \in InFlight(2) THEN 1 ELSE 0)

(***************************************************************************)
(* The counters are exact and leave an empty slot, so that every search    *)
(* for a key ends at one and an insertion always finds a slot.             *)
(***************************************************************************)
RoomIsLeft ==
  pc \in {"idle", "placing", "iterating"} =>
    /\ len = Cardinality(Full(slots))
    /\ tombstones = Cardinality(Tombs(slots))
    /\ cap > 0 => len + tombstones < cap

\* Every entry is where the search for its key ends, and no key has two entries.
EntriesAreReachable ==
  pc \in {"idle", "placing", "iterating"} =>
    \A i \in Full(slots) : Find(slots[i].key) = [found |-> TRUE, at |-> i]

\* An insertion that was called ends: the rehashing loop always finds an empty slot.
InsertionEnds == pc \in {"growing", "placing"} ~> pc = "idle"
=============================================================================
