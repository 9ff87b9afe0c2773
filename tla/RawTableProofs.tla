----------------------------- MODULE RawTableProofs -----------------------------
(***************************************************************************)
(* Proofs about the hash table, for any keys, values and hashes, any sizes *)
(* of storage and any sequence of calls: the counters are exact and leave  *)
(* room, every entry is found, nothing leaks or is dropped twice, and the  *)
(* table implements a map.                                                 *)
(*                                                                         *)
(* The first half is about any function T from the slots 0 .. n - 1 of a   *)
(* table and any hashes h; the second half goes through the operations.    *)
(***************************************************************************)
EXTENDS RawTable, IterationLemmas, FunctionTheorems

-----------------------------------------------------------------------------
(* Natural numbers.                                                        *)

LEMMA LeastOfIsLeast ==
  ASSUME NEW S \in SUBSET Nat, S # {}
  PROVE  LeastOf(S) \in S /\ \A n \in S : LeastOf(S) <= n
BY LeastExists DEF LeastOf

\* Division with remainder has one result.
LEMMA RemainderUnique ==
  ASSUME NEW n \in Nat \ {0}, NEW a \in Nat, NEW q \in Nat, NEW r \in 0 .. n - 1, a = n * q + r
  PROVE  a % n = r
<1> DEFINE p == a \div n
           s == a % n
<1>1. a = n * p + s /\ s \in 0 .. n - 1 /\ p \in Int
  OBVIOUS
<1> HIDE DEF p, s
<1>2. n * (p - q) = r - s
  BY <1>1
<1>3. CASE p - q >= 1
  <2>1. n * (p - q) >= n
    BY <1>1, <1>3
  <2> QED
    BY <1>1, <1>2, <2>1
<1>4. CASE p - q <= -1
  <2>1. n * (p - q) <= -n
    BY <1>1, <1>4
  <2> QED
    BY <1>1, <1>2, <2>1
<1>5. CASE p = q
  BY <1>1, <1>5, <1>2 DEF s
<1> QED
  BY <1>1, <1>3, <1>4, <1>5

\* Probing goes from the home of a hash to the end of the table and on from its start.
LEMMA PositionStep ==
  ASSUME NEW n \in Nat \ {0}, NEW h \in Nat, NEW d \in 0 .. n - 1
  PROVE  /\ h % n \in 0 .. n - 1
         /\ Position(h, d, n) = IF (h % n) + d < n THEN (h % n) + d ELSE (h % n) + d - n
<1> DEFINE r == h % n
           q == h \div n
<1>1. h = n * q + r /\ r \in 0 .. n - 1 /\ q \in Nat
  OBVIOUS
<1> HIDE DEF r, q
<1>2. CASE r + d < n
  <2>1. h + d = n * q + (r + d)
    BY <1>1
  <2> QED
    BY <1>1, <1>2, <2>1, RemainderUnique DEF Position, r
<1>3. CASE ~ (r + d < n)
  <2>1. h + d = n * (q + 1) + (r + d - n)
    BY <1>1
  <2>2. r + d - n \in 0 .. n - 1 /\ q + 1 \in Nat /\ h + d \in Nat
    BY <1>1, <1>3
  <2>3. (h + d) % n = r + d - n
    BY <2>1, <2>2, RemainderUnique
  <2> QED
    BY <1>1, <1>3, <2>3 DEF Position, r
<1> QED
  BY <1>1, <1>2, <1>3 DEF r

\* Every slot is probed once.
LEMMA EverySlotIsProbed ==
  ASSUME NEW n \in Nat \ {0}, NEW h \in Nat
  PROVE  /\ \A d \in 0 .. n - 1 : Position(h, d, n) \in 0 .. n - 1
         /\ \A i \in 0 .. n - 1 : \E d \in 0 .. n - 1 : Position(h, d, n) = i
         /\ \A c, d \in 0 .. n - 1 : Position(h, c, n) = Position(h, d, n) => c = d
<1> DEFINE r == h % n
<1>1. r \in 0 .. n - 1
  BY PositionStep
<1>2. \A d \in 0 .. n - 1 : Position(h, d, n) = IF r + d < n THEN r + d ELSE r + d - n
  BY PositionStep
<1> HIDE DEF r
<1>3. ASSUME NEW i \in 0 .. n - 1 PROVE \E d \in 0 .. n - 1 : Position(h, d, n) = i
  <2>1. CASE i >= r
    <3>1. i - r \in 0 .. n - 1 /\ r + (i - r) = i
      BY <1>1, <2>1
    <3> QED
      BY <1>2, <3>1
  <2>2. CASE i < r
    <3>1. i - r + n \in 0 .. n - 1 /\ r + (i - r + n) = i + n
      BY <1>1, <2>2
    <3> QED
      BY <1>1, <1>2, <3>1
  <2> QED
    BY <1>1, <2>1, <2>2
<1> QED
  BY <1>1, <1>2, <1>3

-----------------------------------------------------------------------------
(* Tables.                                                                 *)

\* An entry as Entry makes it, for any hashes.
EntryOf(h, k, v) == [state |-> 1, hash |-> h[k], key |-> k, value |-> v]
Entries(h) == {EntryOf(h, k, v) : k \in DOMAIN h, v \in Values}
Hashes(h) == DOMAIN h \subseteq Keys /\ \A k \in DOMAIN h : h[k] \in Nat

\* A table with another slot or another value.
Updated(T, i, e) == [T EXCEPT ![i] = e]
Revalued(T, i, v) == [T EXCEPT ![i].value = v]

IsTable(T, n, h) == T \in [0 .. n - 1 -> {Empty, Deleted} \cup Entries(h)]
UniqueKeys(T) == \A i, j \in Full(T) : T[i].key = T[j].key => i = j

\* Slot i is on the way of a search that starts at the home of g, no empty slot lies before it.
Reachable(T, n, g, i) ==
  \E d \in 0 .. n - 1 : i = Position(g, d, n) /\ \A s \in 0 .. d - 1 : T[Position(g, s, n)].state # 0
Chained(T, n) == \A i \in Full(T) : Reachable(T, n, T[i].hash, i)

LEMMA EntryFacts ==
  ASSUME NEW h, NEW e \in {Empty, Deleted} \cup Entries(h)
  PROVE  /\ e.state \in {0, 1, 2}
         /\ e.state = 0 <=> e = Empty
         /\ e.state = 1 => /\ e \in Entries(h) /\ e.key \in DOMAIN h /\ e.value \in Values
                           /\ e.hash = h[e.key] /\ e = EntryOf(h, e.key, e.value)
         /\ e \in Entries(h) => e.state = 1
BY DEF Empty, Deleted, Entries, EntryOf

TableProps(T, n, h) ==
  /\ DOMAIN T = 0 .. n - 1
  /\ \A i \in 0 .. n - 1 : T[i] \in {Empty, Deleted} \cup Entries(h) /\ T[i].state \in {0, 1, 2}
  /\ \A i \in Full(T) : /\ i \in 0 .. n - 1 /\ T[i].state = 1 /\ T[i] \in Entries(h)
                         /\ T[i].key \in DOMAIN h /\ T[i].value \in Values /\ T[i].hash = h[T[i].key]
                         /\ T[i] = EntryOf(h, T[i].key, T[i].value)
  /\ Full(T) \subseteq 0 .. n - 1 /\ Tombs(T) \subseteq 0 .. n - 1 /\ Full(T) \cap Tombs(T) = {}
  /\ IsFiniteSet(Full(T)) /\ IsFiniteSet(Tombs(T))
  /\ Cardinality(Full(T)) \in Nat /\ Cardinality(Tombs(T)) \in Nat
  /\ Cardinality(Full(T)) + Cardinality(Tombs(T)) <= n

LEMMA TableFacts ==
  ASSUME NEW h, NEW n \in Nat, NEW T, IsTable(T, n, h)
  PROVE  TableProps(T, n, h)
<1>1. DOMAIN T = 0 .. n - 1 /\ \A i \in 0 .. n - 1 : T[i] \in {Empty, Deleted} \cup Entries(h)
  BY DEF IsTable
<1>2. \A i \in 0 .. n - 1 : T[i].state \in {0, 1, 2}
  BY <1>1, EntryFacts
<1>3. \A i \in Full(T) : /\ i \in 0 .. n - 1 /\ T[i].state = 1 /\ T[i] \in Entries(h)
                         /\ T[i].key \in DOMAIN h /\ T[i].value \in Values /\ T[i].hash = h[T[i].key]
                         /\ T[i] = EntryOf(h, T[i].key, T[i].value)
  BY <1>1, EntryFacts DEF Full
<1>4. Full(T) \subseteq 0 .. n - 1 /\ Tombs(T) \subseteq 0 .. n - 1 /\ Full(T) \cap Tombs(T) = {}
  BY <1>1 DEF Full, Tombs
<1>5. IsFiniteSet(0 .. n - 1) /\ Cardinality(0 .. n - 1) = n
  BY FS_Interval
<1>6. /\ IsFiniteSet(Full(T)) /\ IsFiniteSet(Tombs(T))
      /\ Cardinality(Full(T)) \in Nat /\ Cardinality(Tombs(T)) \in Nat
  BY <1>4, <1>5, FS_Subset, FS_CardinalityType
<1>7. Cardinality(Full(T) \cup Tombs(T)) = Cardinality(Full(T)) + Cardinality(Tombs(T))
  BY <1>4, <1>6, FS_Union, FS_EmptySet
<1>8. Cardinality(Full(T) \cup Tombs(T)) <= n
  BY <1>4, <1>5, FS_Subset
<1> QED
  BY <1>1, <1>2, <1>3, <1>4, <1>6, <1>7, <1>8 DEF TableProps

LEMMA HashFacts ==
  ASSUME NEW h, Hashes(h), NEW n \in Nat \ {0}, NEW T, IsTable(T, n, h)
  PROVE  \A i \in Full(T) : /\ T[i].hash \in Nat
                             /\ \A d \in 0 .. n - 1 : Position(T[i].hash, d, n) \in 0 .. n - 1
<1> SUFFICES ASSUME NEW i \in Full(T)
             PROVE  T[i].hash \in Nat /\ \A d \in 0 .. n - 1 : Position(T[i].hash, d, n) \in 0 .. n - 1
  OBVIOUS
<1>0. TableProps(T, n, h)
  BY TableFacts
<1>1. T[i].key \in DOMAIN h /\ T[i].hash = h[T[i].key]
  BY <1>0 DEF TableProps
<1>2. T[i].hash \in Nat
  BY <1>1 DEF Hashes
<1> QED
  BY <1>2, EverySlotIsProbed

\* A table that is neither full nor choked by tombstones has an empty slot.
LEMMA EmptySlotExists ==
  ASSUME NEW h, NEW n \in Nat, NEW T, IsTable(T, n, h), Cardinality(Full(T)) + Cardinality(Tombs(T)) < n
  PROVE  \E i \in 0 .. n - 1 : T[i].state = 0
<1>0. TableProps(T, n, h)
  BY TableFacts
<1> SUFFICES ASSUME \A i \in 0 .. n - 1 : T[i].state # 0 PROVE FALSE
  OBVIOUS
<1>1. Full(T) \cup Tombs(T) = 0 .. n - 1
  BY <1>0 DEF Full, Tombs, TableProps
<1>2. Cardinality(Full(T) \cup Tombs(T)) = n
  <2>1. Cardinality(0 .. n - 1) = n
    BY FS_Interval
  <2> QED
    BY <1>1, <2>1
<1>3. Cardinality(Full(T) \cup Tombs(T)) = Cardinality(Full(T)) + Cardinality(Tombs(T))
  <2>1. /\ Cardinality(Full(T) \cup Tombs(T))
              = Cardinality(Full(T)) + Cardinality(Tombs(T)) - Cardinality(Full(T) \cap Tombs(T))
        /\ Cardinality(Full(T)) \in Nat /\ Cardinality(Tombs(T)) \in Nat
    BY <1>0, FS_Union DEF TableProps
  <2>2. Cardinality(Full(T) \cap Tombs(T)) = 0
    BY <1>0, FS_EmptySet DEF TableProps
  <2> QED
    BY <2>1, <2>2
<1> QED
  BY <1>2, <1>3, <1>0 DEF TableProps

LEMMA VacantTable ==
  ASSUME NEW h, NEW n \in Nat
  PROVE  /\ IsTable(Vacant(n), n, h) /\ UniqueKeys(Vacant(n)) /\ Chained(Vacant(n), n)
         /\ Full(Vacant(n)) = {} /\ Tombs(Vacant(n)) = {}
<1>1. \A i \in 0 .. n - 1 : Vacant(n)[i].state = 0
  BY DEF Vacant, Empty
<1>2. Full(Vacant(n)) = {} /\ Tombs(Vacant(n)) = {}
  BY <1>1 DEF Full, Tombs, Vacant
<1> QED
  BY <1>2 DEF IsTable, Vacant, UniqueKeys, Chained

\* A new entry in a slot without entry, where a search for its key comes by.
LEMMA PutEntry ==
  ASSUME NEW h, Hashes(h), NEW n \in Nat \ {0}, NEW T, IsTable(T, n, h), UniqueKeys(T), Chained(T, n),
         NEW k \in DOMAIN h, NEW v \in Values, NEW i \in 0 .. n - 1, T[i].state # 1,
         \A j \in Full(T) : T[j].key # k,
         Reachable(T, n, h[k], i),
         NEW U, U = Updated(T, i, EntryOf(h, k, v))
  PROVE  /\ IsTable(U, n, h) /\ UniqueKeys(U) /\ Chained(U, n)
         /\ Full(U) = Full(T) \cup {i} /\ Tombs(U) = Tombs(T) \ {i} /\ i \notin Full(T)
         /\ U[i] = EntryOf(h, k, v) /\ \A j \in Full(T) : U[j] = T[j]
<1> USE DEF Updated
<1>0. TableProps(T, n, h)
  BY TableFacts
<1> DEFINE e == EntryOf(h, k, v)
<1>1. e \in Entries(h) /\ e.state = 1 /\ e.key = k /\ e.hash = h[k] /\ e.value = v
  BY DEF Entries, EntryOf
<1>2. DOMAIN T = 0 .. n - 1 /\ DOMAIN U = 0 .. n - 1 /\ U[i] = e /\ \A j \in 0 .. n - 1 : j # i => U[j] = T[j]
  BY <1>0 DEF TableProps
<1> HIDE DEF e
<1>3. IsTable(U, n, h)
  BY <1>1, <1>2 DEF IsTable, e
<1>4. /\ Full(U) = Full(T) \cup {i} /\ Tombs(U) = Tombs(T) \ {i} /\ i \notin Full(T)
  BY <1>1, <1>2 DEF Full, Tombs
<1>5. \A j \in Full(T) : j \in 0 .. n - 1 /\ U[j] = T[j]
  BY <1>2, <1>4 DEF Full
<1>6. UniqueKeys(U)
  BY <1>1, <1>2, <1>4, <1>5 DEF UniqueKeys
<1>7. \A j \in 0 .. n - 1 : T[j].state # 0 => U[j].state # 0
  BY <1>1, <1>2
<1>8. ASSUME NEW g \in Nat, NEW j, Reachable(T, n, g, j)
      PROVE  Reachable(U, n, g, j)
  <2>1. PICK d \in 0 .. n - 1 : j = Position(g, d, n) /\ \A s \in 0 .. d - 1 : T[Position(g, s, n)].state # 0
    BY <1>8 DEF Reachable
  <2>2. \A s \in 0 .. n - 1 : Position(g, s, n) \in 0 .. n - 1
    BY EverySlotIsProbed
  <2>3. \A s \in 0 .. d - 1 : U[Position(g, s, n)].state # 0
    BY <1>7, <2>1, <2>2
  <2> QED
    BY <2>1, <2>3 DEF Reachable
<1>9. Chained(U, n)
  <2> SUFFICES ASSUME NEW j \in Full(U) PROVE Reachable(U, n, U[j].hash, j)
    BY DEF Chained
  <2>1. CASE j = i
    BY <1>1, <1>2, <1>8, <2>1 DEF Hashes
  <2>2. CASE j # i
    <3>1. j \in Full(T) /\ U[j] = T[j] /\ T[j].hash \in Nat
      BY <1>4, <1>5, <2>2, HashFacts
    <3> QED
      BY <1>8, <3>1 DEF Chained
  <2> QED
    BY <2>1, <2>2
<1> QED
  BY <1>2, <1>3, <1>4, <1>5, <1>6, <1>9 DEF e

\* The value of an entry changes.
LEMMA ReplaceEntry ==
  ASSUME NEW h, Hashes(h), NEW n \in Nat, NEW T, IsTable(T, n, h),
         NEW i \in Full(T), NEW v \in Values,
         NEW U, U = Revalued(T, i, v)
  PROVE  /\ IsTable(U, n, h) /\ (UniqueKeys(T) => UniqueKeys(U)) /\ (Chained(T, n) => Chained(U, n))
         /\ Full(U) = Full(T) /\ Tombs(U) = Tombs(T)
         /\ U[i] = EntryOf(h, T[i].key, v) /\ \A j \in Full(T) : j # i => U[j] = T[j]
         /\ \A j \in Full(T) : U[j].key = T[j].key
<1> USE DEF Revalued
<1>0. TableProps(T, n, h)
  BY TableFacts
<1>1. /\ i \in 0 .. n - 1 /\ DOMAIN T = 0 .. n - 1 /\ T[i].key \in DOMAIN h /\ T[i].state = 1
      /\ T[i] = EntryOf(h, T[i].key, T[i].value) /\ T[i].hash = h[T[i].key]
  BY <1>0 DEF TableProps
<1>2. [T[i] EXCEPT !.value = v] = EntryOf(h, T[i].key, v)
  <2> DEFINE k == T[i].key
             w == T[i].value
  <2>1. T[i] = EntryOf(h, k, w)
    BY <1>1
  <2> HIDE DEF k, w
  <2>2. [EntryOf(h, k, w) EXCEPT !.value = v] = EntryOf(h, k, v)
    BY DEF EntryOf
  <2> QED
    BY <2>1, <2>2 DEF k
<1>3. DOMAIN U = 0 .. n - 1 /\ U[i] = EntryOf(h, T[i].key, v) /\ \A j \in 0 .. n - 1 : j # i => U[j] = T[j]
  BY <1>1, <1>2
<1>4. U[i] \in Entries(h) /\ U[i].state = 1 /\ U[i].key = T[i].key /\ U[i].hash = T[i].hash
  <2>1. U[i].state = 1 /\ U[i].key = T[i].key /\ U[i].hash = h[T[i].key]
    BY <1>3 DEF EntryOf
  <2> QED
    BY <1>1, <1>3, <2>1 DEF Entries
<1>5. IsTable(U, n, h)
  BY <1>1, <1>2, <1>3, <1>4 DEF IsTable
<1>6. \A j \in 0 .. n - 1 : U[j].state = T[j].state
  BY <1>1, <1>3, <1>4
<1>7. Full(U) = Full(T) /\ Tombs(U) = Tombs(T)
  BY <1>1, <1>3, <1>6 DEF Full, Tombs
<1>8. \A j \in Full(T) : j \in 0 .. n - 1 /\ U[j].key = T[j].key /\ U[j].hash = T[j].hash
  BY <1>1, <1>3, <1>4 DEF Full
<1>9. UniqueKeys(T) => UniqueKeys(U)
  BY <1>7, <1>8 DEF UniqueKeys
<1>10. ASSUME Chained(T, n) PROVE Chained(U, n)
  <2> SUFFICES ASSUME NEW j \in Full(T) PROVE Reachable(U, n, T[j].hash, j)
    BY <1>7, <1>8 DEF Chained
  <2>1. PICK d \in 0 .. n - 1 : /\ j = Position(T[j].hash, d, n)
                                /\ \A s \in 0 .. d - 1 : T[Position(T[j].hash, s, n)].state # 0
    BY <1>10 DEF Chained, Reachable
  <2>2. \A s \in 0 .. d - 1 : Position(T[j].hash, s, n) \in 0 .. n - 1
    BY HashFacts
  <2> QED
    BY <1>6, <2>1, <2>2 DEF Reachable
<1> QED
  BY <1>3, <1>5, <1>7, <1>8, <1>9, <1>10 DEF Full

\* An entry becomes a tombstone.
LEMMA DeleteEntry ==
  ASSUME NEW h, Hashes(h), NEW n \in Nat, NEW T, IsTable(T, n, h), UniqueKeys(T),
         NEW i \in Full(T), NEW U, U = Updated(T, i, Deleted)
  PROVE  /\ IsTable(U, n, h) /\ UniqueKeys(U) /\ (Chained(T, n) => Chained(U, n))
         /\ Full(U) = Full(T) \ {i} /\ Tombs(U) = Tombs(T) \cup {i} /\ i \notin Tombs(T)
         /\ \A j \in Full(T) \ {i} : U[j] = T[j]
<1> USE DEF Updated
<1>0. TableProps(T, n, h)
  BY TableFacts
<1>1. i \in 0 .. n - 1 /\ DOMAIN T = 0 .. n - 1 /\ T[i].state = 1
  BY <1>0 DEF TableProps
<1>2. DOMAIN U = 0 .. n - 1 /\ U[i] = Deleted /\ U[i].state = 2 /\ \A j \in 0 .. n - 1 : j # i => U[j] = T[j]
  BY <1>1 DEF Deleted
<1>3. IsTable(U, n, h)
  BY <1>1 DEF IsTable
<1>4. Full(U) = Full(T) \ {i} /\ Tombs(U) = Tombs(T) \cup {i} /\ i \notin Tombs(T)
  BY <1>1, <1>2 DEF Full, Tombs
<1>5. \A j \in Full(T) \ {i} : j \in 0 .. n - 1 /\ U[j] = T[j]
  BY <1>1, <1>2 DEF Full
<1>6. UniqueKeys(U)
  BY <1>4, <1>5 DEF UniqueKeys
<1>7. \A j \in 0 .. n - 1 : T[j].state # 0 => U[j].state # 0
  BY <1>1, <1>2
<1>8. ASSUME Chained(T, n) PROVE Chained(U, n)
  <2> SUFFICES ASSUME NEW j \in Full(T) \ {i} PROVE Reachable(U, n, T[j].hash, j)
    BY <1>4, <1>5 DEF Chained
  <2>1. PICK d \in 0 .. n - 1 : /\ j = Position(T[j].hash, d, n)
                                /\ \A s \in 0 .. d - 1 : T[Position(T[j].hash, s, n)].state # 0
    BY <1>8 DEF Chained, Reachable
  <2>2. \A s \in 0 .. d - 1 : Position(T[j].hash, s, n) \in 0 .. n - 1
    BY HashFacts
  <2> QED
    BY <1>7, <2>1, <2>2 DEF Reachable
<1> QED
  BY <1>3, <1>4, <1>5, <1>6, <1>8

\* An entry is taken out and leaves an empty slot, which breaks chains.
LEMMA TakeEntry ==
  ASSUME NEW h, NEW n \in Nat, NEW T, IsTable(T, n, h), UniqueKeys(T),
         NEW i \in Full(T), NEW U, U = Updated(T, i, Empty)
  PROVE  /\ IsTable(U, n, h) /\ UniqueKeys(U) /\ Full(U) = Full(T) \ {i}
         /\ \A j \in Full(T) \ {i} : U[j] = T[j]
<1> USE DEF Updated
<1>0. TableProps(T, n, h)
  BY TableFacts
<1>1. i \in 0 .. n - 1 /\ DOMAIN T = 0 .. n - 1
  BY <1>0 DEF TableProps
<1>2. DOMAIN U = 0 .. n - 1 /\ U[i].state = 0 /\ \A j \in 0 .. n - 1 : j # i => U[j] = T[j]
  BY <1>1 DEF Empty
<1>3. IsTable(U, n, h)
  BY <1>1 DEF IsTable
<1>4. Full(U) = Full(T) \ {i}
  BY <1>1, <1>2 DEF Full
<1>5. \A j \in Full(T) \ {i} : U[j] = T[j]
  BY <1>1, <1>2 DEF Full
<1> QED
  BY <1>3, <1>4, <1>5 DEF UniqueKeys

-----------------------------------------------------------------------------
(* Searching.                                                              *)

\* The search for the key of an entry ends at the entry, whatever lies before it.
LEMMA FindEntry ==
  ASSUME Hashes(hash), cap \in Nat \ {0}, IsTable(slots, cap, hash), UniqueKeys(slots), Chained(slots, cap),
         NEW i \in Full(slots)
  PROVE  Find(slots[i].key) = [found |-> TRUE, at |-> i]
<1>0. TableProps(slots, cap, hash)
  BY TableFacts
<1> DEFINE k == slots[i].key
           g == hash[k]
           ends == {s \in 0 .. cap - 1 : Stops(k, s)}
<1>1. k \in DOMAIN hash /\ g \in Nat /\ slots[i].hash = g /\ slots[i].state = 1
  BY <1>0 DEF TableProps, Hashes
<1>2. \A s \in 0 .. cap - 1 : Position(g, s, cap) \in 0 .. cap - 1
  BY <1>1, EverySlotIsProbed
<1>3. PICK d \in 0 .. cap - 1 : i = Position(g, d, cap) /\ \A s \in 0 .. d - 1 : slots[Position(g, s, cap)].state # 0
  BY <1>1 DEF Chained, Reachable
<1>4. Stops(k, d)
  BY <1>1, <1>3 DEF Stops
<1>5. ASSUME NEW s \in 0 .. d - 1, Stops(k, s) PROVE FALSE
  <2>1. slots[Position(g, s, cap)].state = 1 /\ slots[Position(g, s, cap)].key = k
    BY <1>3, <1>5 DEF Stops
  <2>2. Position(g, s, cap) \in 0 .. cap - 1 /\ Position(g, s, cap) \in DOMAIN slots
    BY <1>0, <1>2 DEF TableProps
  <2>3. Position(g, s, cap) = i
    BY <2>1, <2>2 DEF UniqueKeys, Full
  <2>4. \A a, b \in 0 .. cap - 1 : Position(g, a, cap) = Position(g, b, cap) => a = b
    BY <1>1, EverySlotIsProbed
  <2>5. s \in 0 .. cap - 1 /\ s < d
    BY <1>3
  <2> QED
    BY <1>3, <2>3, <2>4, <2>5
<1>6. ends \subseteq Nat /\ d \in ends
  BY <1>4
<1>7. LeastOf(ends) = d
  <2>1. LeastOf(ends) \in ends /\ LeastOf(ends) <= d
    BY <1>6, LeastOfIsLeast
  <2> QED
    BY <1>5, <2>1
<1> HIDE DEF k, g
<1> QED
  BY <1>1, <1>3, <1>6, <1>7 DEF Find, g, k

\* The search for a key without entry ends at a slot a new entry may take, if some slot is empty.
LEMMA FindVacant ==
  ASSUME Hashes(hash), cap \in Nat \ {0}, IsTable(slots, cap, hash),
         NEW k \in DOMAIN hash, \A i \in Full(slots) : slots[i].key # k,
         \E i \in 0 .. cap - 1 : slots[i].state = 0
  PROVE  /\ ~ Find(k).found /\ Find(k).at \in 0 .. cap - 1
         /\ slots[Find(k).at].state # 1
         /\ Reachable(slots, cap, hash[k], Find(k).at)
<1>0. TableProps(slots, cap, hash)
  BY TableFacts
<1> DEFINE g == hash[k]
           At(s) == Position(g, s, cap)
           ends == {s \in 0 .. cap - 1 : Stops(k, s)}
           last == LeastOf(ends)
           tombs == {s \in 0 .. last - 1 : slots[At(s)].state = 2}
<1>1. g \in Nat
  BY DEF Hashes
<1>2. \A s \in 0 .. cap - 1 : At(s) \in 0 .. cap - 1
  BY <1>1, EverySlotIsProbed
<1>3. \A i \in 0 .. cap - 1 : i \in DOMAIN slots
  BY <1>0 DEF TableProps
<1>4. \A s \in 0 .. cap - 1 : Stops(k, s) <=> slots[At(s)].state = 0
  BY <1>2, <1>3 DEF Stops, Full
<1>5. \E s \in 0 .. cap - 1 : slots[At(s)].state = 0
  <2>1. PICK i \in 0 .. cap - 1 : slots[i].state = 0
    OBVIOUS
  <2>2. \E s \in 0 .. cap - 1 : Position(g, s, cap) = i
    BY <1>1, EverySlotIsProbed
  <2> QED
    BY <2>1, <2>2
<1>6. ends \subseteq Nat /\ ends # {}
  BY <1>4, <1>5
<1>7. last \in ends /\ \A s \in ends : last <= s
  BY <1>6, LeastOfIsLeast
<1>8. slots[At(last)].state = 0 /\ last \in 0 .. cap - 1 /\ \A s \in 0 .. last - 1 : slots[At(s)].state # 0
  BY <1>4, <1>7
<1>9. CASE tombs = {}
  <2>1. Find(k) = [found |-> FALSE, at |-> At(last)]
    <3> HIDE DEF last, ends
    <3>1. Find(k) = IF ends # {} /\ slots[At(last)].state = 1 THEN [found |-> TRUE, at |-> At(last)]
                    ELSE [found |-> FALSE, at |-> At(last)]
      <4>1. tombs = {s \in 0 .. last - 1 : slots[Position(hash[k], s, cap)].state = 2}
        OBVIOUS
      <4> QED
        BY <1>6, <1>9, <4>1 DEF Find, ends, last
    <3> QED
      BY <1>8, <3>1
  <2>2. ~ Find(k).found /\ Find(k).at = At(last)
    BY <2>1
  <2> HIDE DEF last
  <2> QED
    BY <1>2, <1>8, <2>2 DEF Reachable
<1>10. CASE tombs # {}
  <2> DEFINE d == LeastOf(tombs)
  <2>1. tombs \subseteq Nat
    BY <1>8
  <2>2. d \in tombs
    BY <1>10, <2>1, LeastOfIsLeast
  <2> HIDE DEF d, last
  <2>3. d \in 0 .. cap - 1 /\ slots[At(d)].state = 2 /\ \A s \in 0 .. d - 1 : slots[At(s)].state # 0
    BY <1>8, <2>2
  <2>4. Find(k) = [found |-> FALSE, at |-> At(d)]
    <3> HIDE DEF ends
    <3>1. tombs = {s \in 0 .. last - 1 : slots[Position(hash[k], s, cap)].state = 2}
      OBVIOUS
    <3> QED
      BY <1>6, <1>8, <1>10, <3>1 DEF Find, ends, last, d
  <2>5. ~ Find(k).found /\ Find(k).at = At(d)
    BY <2>4
  <2> QED
    BY <1>2, <2>3, <2>5 DEF Reachable
<1> QED
  BY <1>9, <1>10

-----------------------------------------------------------------------------
(* What a table holds: its entries, how many they are, and the map.        *)

EntriesOf(T, I) == {T[i] : i \in I}
Records(T) == EntriesOf(T, Full(T))
Distinct(S) == \A s, t \in S : s.key = t.key => s = t
MapOf(S) == [k \in {s.key : s \in S} |-> (CHOOSE s \in S : s.key = k).value]

LEMMA RecordsAreDistinct ==
  ASSUME NEW T, UniqueKeys(T)
  PROVE  Distinct(Records(T))
BY DEF UniqueKeys, Distinct, Records, EntriesOf

LEMMA MapOfFacts ==
  ASSUME NEW S, Distinct(S)
  PROVE  /\ DOMAIN MapOf(S) = {s.key : s \in S}
         /\ \A s \in S : s.key \in DOMAIN MapOf(S) /\ MapOf(S)[s.key] = s.value
<1>1. DOMAIN MapOf(S) = {s.key : s \in S}
  BY DEF MapOf
<1>2. ASSUME NEW s \in S PROVE MapOf(S)[s.key] = s.value
  <2>1. MapOf(S)[s.key] = (CHOOSE t \in S : t.key = s.key).value
    BY DEF MapOf
  <2>2. (CHOOSE t \in S : t.key = s.key) = s
    BY DEF Distinct
  <2> QED
    BY <2>1, <2>2
<1> QED
  BY <1>1, <1>2

\* A function with the keys and values of S is its map.
LEMMA MapOfIs ==
  ASSUME NEW S, Distinct(S), NEW D, NEW f, f = [k \in D |-> f[k]],
         \A s \in S : s.key \in D /\ f[s.key] = s.value,
         \A k \in D : \E s \in S : s.key = k
  PROVE  f = MapOf(S)
<1>1. D = {s.key : s \in S}
  OBVIOUS
<1>2. ASSUME NEW k \in D PROVE f[k] = MapOf(S)[k]
  <2>1. PICK s \in S : s.key = k
    OBVIOUS
  <2>2. MapOf(S)[s.key] = s.value
    BY MapOfFacts
  <2> QED
    BY <2>1, <2>2
<1>3. MapOf(S) = [k \in D |-> MapOf(S)[k]]
  BY <1>1 DEF MapOf
<1> QED
  BY <1>2, <1>3

\* Slots and their entries, and entries and their keys, are equally many.
LEMMA CountEntries ==
  ASSUME NEW T, UniqueKeys(T), IsFiniteSet(Full(T)), NEW I \in SUBSET Full(T)
  PROVE  /\ IsFiniteSet(I) /\ IsFiniteSet(EntriesOf(T, I))
         /\ Cardinality(EntriesOf(T, I)) = Cardinality(I)
         /\ Cardinality({T[i].key : i \in I}) = Cardinality(I)
<1>1. IsFiniteSet(I)
  BY FS_Subset
<1>2. ExistsBijection(I, EntriesOf(T, I))
  <2> DEFINE f == [i \in I |-> T[i]]
  <2>1. f \in Bijection(I, EntriesOf(T, I))
    <3>1. f \in [I -> EntriesOf(T, I)] /\ \A a, b \in I : f[a] = f[b] => a = b
      BY DEF EntriesOf, UniqueKeys
    <3>2. \A t \in EntriesOf(T, I) : \E i \in I : f[i] = t
      BY DEF EntriesOf
    <3> HIDE DEF f
    <3> QED
      BY <3>1, <3>2, Fun_IsBij
  <2> QED
    BY <2>1 DEF ExistsBijection
<1>3. ExistsBijection(I, {T[i].key : i \in I})
  <2> DEFINE f == [i \in I |-> T[i].key]
             R == {T[i].key : i \in I}
  <2>1. f \in Bijection(I, R)
    <3>1. f \in [I -> R] /\ \A a, b \in I : f[a] = f[b] => a = b
      BY DEF UniqueKeys
    <3>2. \A t \in R : \E i \in I : f[i] = t
      OBVIOUS
    <3> HIDE DEF f, R
    <3> QED
      BY <3>1, <3>2, Fun_IsBij
  <2> QED
    BY <2>1 DEF ExistsBijection
<1> HIDE DEF EntriesOf
<1> QED
  BY <1>1, <1>2, <1>3, FS_Bijection

-----------------------------------------------------------------------------
(* The invariant, and what it says of the properties.                      *)

Shape ==
  /\ hash \in HashFunctions
  /\ pc \in {"none", "idle", "growing", "placing", "iterating", "consuming"}
  /\ cap \in {0} \cup Sizes /\ IsTable(slots, cap, hash) /\ UniqueKeys(slots)
  /\ len \in Nat /\ tombstones \in Nat
  /\ pc = "none" => cap = 0
  /\ IF pc \in {"growing", "placing"} THEN \E k \in DOMAIN hash, v \in Values : pending = <<k, v>> ELSE pending = Nothing

\* While the table grows, its old storage is untouched.
Exact ==
  /\ pc \in {"idle", "growing", "placing", "iterating"} =>
       /\ Chained(slots, cap)
       /\ len = Cardinality(Full(slots)) /\ tombstones = Cardinality(Tombs(slots))
       /\ cap > 0 => len + tombstones < cap
  /\ pc = "placing" => cap > 0 /\ len + tombstones + 1 < cap

\* The new storage has the entries the growth has gone through, and room for them all and one more.
Growing ==
  /\ moved \in 0 .. cap
  /\ pc # "growing" => moved = 0
  /\ pc = "growing" =>
       \E n \in Sizes :
         /\ IsTable(fresh, n, hash) /\ UniqueKeys(fresh) /\ Chained(fresh, n) /\ Tombs(fresh) = {}
         /\ len + 1 < n
         /\ Records(fresh) = EntriesOf(slots, {i \in Full(slots) : i < moved})

Iterating ==
  /\ cursor \in 0 .. cap /\ visited \subseteq Keys
  /\ pc \notin {"iterating", "consuming"} => cursor = 0 /\ visited = {}
  /\ pc = "iterating" => visited = {slots[i].key : i \in {j \in Full(slots) : j < cursor}}
  /\ pc = "consuming" => \A i \in Full(slots) : i >= cursor /\ slots[i].key \notin visited

With(T, k) == {i \in Full(T) : T[i].key = k}
Holding(T, v) == {i \in Full(T) : T[i].value = v}
Due ==
  /\ dueKeys \in [Keys -> Int] /\ dueValues \in [Values -> Int]
  /\ \A k \in Keys : dueKeys[k] = Cardinality(With(slots, k)) + (IF k \in InFlight(1) THEN 1 ELSE 0)
  /\ \A v \in Values : dueValues[v] = Cardinality(Holding(slots, v)) + (IF v \in InFlight(2) THEN 1 ELSE 0)

TableInv == Shape /\ Exact /\ Growing /\ Iterating /\ Due

LEMMA SizeFacts == /\ \A n \in Sizes : n \in Nat /\ n >= 8
                   /\ hash \in HashFunctions => Hashes(hash)
BY SizesAssumption, HashesAssumption DEF Hashes

LEMMA ShapeFacts ==
  ASSUME Shape
  PROVE  /\ Hashes(hash) /\ cap \in Nat /\ TableProps(slots, cap, hash)
         /\ cap # 0 => cap >= 8
         /\ \A i \in Full(slots) : i \in 0 .. cap - 1 /\ cap # 0
<1>1. Hashes(hash) /\ cap \in Nat /\ (cap # 0 => cap >= 8)
  BY SizeFacts DEF Shape
<1>2. TableProps(slots, cap, hash)
  BY <1>1, TableFacts DEF Shape
<1>3. \A i \in Full(slots) : i \in 0 .. cap - 1
  BY <1>2 DEF TableProps
<1> QED
  BY <1>1, <1>2, <1>3

\* Growth moves entries but neither makes nor loses one.
LEMMA StoredRecords ==
  ASSUME Shape, Growing
  PROVE  Stored = Records(slots)
<1>1. CASE pc # "growing"
  BY <1>1 DEF Stored, Records, EntriesOf
<1>2. CASE pc = "growing"
  <2>1. Records(fresh) = EntriesOf(slots, {i \in Full(slots) : i < moved})
    BY <1>2 DEF Growing
  <2>2. \A i \in Full(slots) : i \in Int /\ moved \in Int
    BY ShapeFacts DEF Growing
  <2>3. Stored = EntriesOf(slots, {i \in Full(slots) : i < moved}) \cup EntriesOf(slots, Waiting)
    BY <1>2, <2>1 DEF Stored, Records, EntriesOf
  <2> QED
    BY <2>2, <2>3 DEF Records, EntriesOf, Waiting
<1> QED
  BY <1>1, <1>2

LEMMA ContentsRecords ==
  ASSUME Shape, Growing
  PROVE  Contents = MapOf(Records(slots))
BY StoredRecords DEF Contents, MapOf

LEMMA InvImpliesType == TableInv => TableTypeOK
<1> SUFFICES ASSUME TableInv PROVE TableTypeOK
  OBVIOUS
<1>1. DOMAIN slots = 0 .. cap - 1 /\ \A i \in DOMAIN slots : slots[i].state \in {0, 1, 2}
  BY ShapeFacts DEF TableInv, TableProps
<1> QED
  BY <1>1 DEF TableInv, Shape, Growing, Iterating, TableTypeOK

LEMMA InvImpliesRoom == TableInv => RoomIsLeft
BY DEF TableInv, Exact, RoomIsLeft

LEMMA InvImpliesReachable == TableInv => EntriesAreReachable
<1> SUFFICES ASSUME TableInv, pc \in {"idle", "placing", "iterating"}, NEW i \in Full(slots)
             PROVE  Find(slots[i].key) = [found |-> TRUE, at |-> i]
  BY DEF EntriesAreReachable
<1>1. Hashes(hash) /\ cap \in Nat /\ IsTable(slots, cap, hash) /\ UniqueKeys(slots) /\ Chained(slots, cap)
  BY ShapeFacts DEF TableInv, Shape, Exact
<1>2. cap # 0
  BY ShapeFacts DEF TableInv
<1> QED
  BY <1>1, <1>2, FindEntry

LEMMA InvImpliesNoLeak == TableInv => NothingLeaksOrDropsTwice
<1> SUFFICES ASSUME TableInv PROVE NothingLeaksOrDropsTwice
  OBVIOUS
<1>1. Stored = Records(slots)
  BY StoredRecords DEF TableInv
<1>2. UniqueKeys(slots) /\ IsFiniteSet(Full(slots))
  BY ShapeFacts DEF TableInv, Shape, TableProps
<1>3. ASSUME NEW k \in Keys
      PROVE  Cardinality({s \in Stored : s.key = k}) = Cardinality(With(slots, k))
  <2>1. {s \in Stored : s.key = k} = EntriesOf(slots, With(slots, k))
    BY <1>1 DEF Records, EntriesOf, With
  <2>2. With(slots, k) \in SUBSET Full(slots)
    BY DEF With
  <2> QED
    BY <1>2, <2>1, <2>2, CountEntries
<1>4. ASSUME NEW v \in Values
      PROVE  Cardinality({s \in Stored : s.value = v}) = Cardinality(Holding(slots, v))
  <2>1. {s \in Stored : s.value = v} = EntriesOf(slots, Holding(slots, v))
    BY <1>1 DEF Records, EntriesOf, Holding
  <2>2. Holding(slots, v) \in SUBSET Full(slots)
    BY DEF Holding
  <2> QED
    BY <1>2, <2>1, <2>2, CountEntries
<1> QED
  BY <1>3, <1>4 DEF TableInv, Due, NothingLeaksOrDropsTwice

-----------------------------------------------------------------------------
(* What a step changes in the counts that the invariant speaks of.         *)

\* A part of a finite set, and one element that is not in it.
LEMMA PartMore ==
  ASSUME NEW F, IsFiniteSet(F), NEW R \in SUBSET F, NEW i, i \notin F
  PROVE  /\ Cardinality(R) \in Nat /\ Cardinality(R \cup {i}) = Cardinality(R) + 1
<1>1. IsFiniteSet(R) /\ i \notin R
  BY FS_Subset
<1> QED
  BY <1>1, FS_AddElement, FS_CardinalityType

\* One entry more.
LEMMA CountMore ==
  ASSUME NEW T, NEW U, IsFiniteSet(Full(T)), NEW i, i \notin Full(T), Full(U) = Full(T) \cup {i},
         \A j \in Full(T) : U[j] = T[j]
  PROVE  /\ Cardinality(Full(T)) \in Nat /\ Cardinality(Full(U)) = Cardinality(Full(T)) + 1
         /\ \A k : /\ Cardinality(With(T, k)) \in Nat
                   /\ Cardinality(With(U, k)) = Cardinality(With(T, k)) + (IF U[i].key = k THEN 1 ELSE 0)
         /\ \A v : /\ Cardinality(Holding(T, v)) \in Nat
                   /\ Cardinality(Holding(U, v)) = Cardinality(Holding(T, v)) + (IF U[i].value = v THEN 1 ELSE 0)
<1>1. Cardinality(Full(T)) \in Nat /\ Cardinality(Full(U)) = Cardinality(Full(T)) + 1
  BY FS_AddElement, FS_CardinalityType
<1>2. ASSUME NEW k
      PROVE  /\ Cardinality(With(T, k)) \in Nat
             /\ Cardinality(With(U, k)) = Cardinality(With(T, k)) + (IF U[i].key = k THEN 1 ELSE 0)
  <2>1. With(T, k) \in SUBSET Full(T)
    BY DEF With
  <2>2. With(U, k) = IF U[i].key = k THEN With(T, k) \cup {i} ELSE With(T, k)
    BY DEF With
  <2>3. Cardinality(With(T, k)) \in Nat /\ Cardinality(With(T, k) \cup {i}) = Cardinality(With(T, k)) + 1
    BY <2>1, PartMore
  <2> QED
    BY <2>2, <2>3
<1>3. ASSUME NEW v
      PROVE  /\ Cardinality(Holding(T, v)) \in Nat
             /\ Cardinality(Holding(U, v)) = Cardinality(Holding(T, v)) + (IF U[i].value = v THEN 1 ELSE 0)
  <2>1. Holding(T, v) \in SUBSET Full(T)
    BY DEF Holding
  <2>2. Holding(U, v) = IF U[i].value = v THEN Holding(T, v) \cup {i} ELSE Holding(T, v)
    BY DEF Holding
  <2>3. Cardinality(Holding(T, v)) \in Nat /\ Cardinality(Holding(T, v) \cup {i}) = Cardinality(Holding(T, v)) + 1
    BY <2>1, PartMore
  <2> QED
    BY <2>2, <2>3
<1> QED
  BY <1>1, <1>2, <1>3

\* One entry less.
LEMMA CountLess ==
  ASSUME NEW T, NEW U, IsFiniteSet(Full(T)), NEW i \in Full(T), Full(U) = Full(T) \ {i},
         \A j \in Full(T) \ {i} : U[j] = T[j]
  PROVE  /\ Cardinality(Full(U)) \in Nat /\ Cardinality(Full(T)) = Cardinality(Full(U)) + 1
         /\ \A k : /\ Cardinality(With(U, k)) \in Nat
                   /\ Cardinality(With(T, k)) = Cardinality(With(U, k)) + (IF T[i].key = k THEN 1 ELSE 0)
         /\ \A v : /\ Cardinality(Holding(U, v)) \in Nat
                   /\ Cardinality(Holding(T, v)) = Cardinality(Holding(U, v)) + (IF T[i].value = v THEN 1 ELSE 0)
<1>1. IsFiniteSet(Full(U))
  BY FS_Subset
<1>2. i \notin Full(U) /\ Full(T) = Full(U) \cup {i}
  OBVIOUS
<1>3. Cardinality(Full(U)) \in Nat /\ Cardinality(Full(T)) = Cardinality(Full(U)) + 1
  BY <1>1, <1>2, FS_AddElement, FS_CardinalityType
<1>4. ASSUME NEW k
      PROVE  /\ Cardinality(With(U, k)) \in Nat
             /\ Cardinality(With(T, k)) = Cardinality(With(U, k)) + (IF T[i].key = k THEN 1 ELSE 0)
  <2>1. With(U, k) \in SUBSET Full(U)
    BY DEF With
  <2>2. With(T, k) = IF T[i].key = k THEN With(U, k) \cup {i} ELSE With(U, k)
    BY DEF With
  <2>3. Cardinality(With(U, k)) \in Nat /\ Cardinality(With(U, k) \cup {i}) = Cardinality(With(U, k)) + 1
    BY <1>1, <1>2, <2>1, PartMore
  <2> QED
    BY <2>2, <2>3
<1>5. ASSUME NEW v
      PROVE  /\ Cardinality(Holding(U, v)) \in Nat
             /\ Cardinality(Holding(T, v)) = Cardinality(Holding(U, v)) + (IF T[i].value = v THEN 1 ELSE 0)
  <2>1. Holding(U, v) \in SUBSET Full(U)
    BY DEF Holding
  <2>2. Holding(T, v) = IF T[i].value = v THEN Holding(U, v) \cup {i} ELSE Holding(U, v)
    BY DEF Holding
  <2>3. Cardinality(Holding(U, v)) \in Nat /\ Cardinality(Holding(U, v) \cup {i}) = Cardinality(Holding(U, v)) + 1
    BY <1>1, <1>2, <2>1, PartMore
  <2> QED
    BY <2>2, <2>3
<1> QED
  BY <1>3, <1>4, <1>5

\* One value exchanged: as if the entry had gone and another one come.
LEMMA CountExchanged ==
  ASSUME NEW T, NEW U, IsFiniteSet(Full(T)), NEW i \in Full(T), Full(U) = Full(T), NEW v,
         \A j \in Full(T) : U[j].key = T[j].key, \A j \in Full(T) : j # i => U[j] = T[j], U[i].value = v
  PROVE  /\ \A k : With(U, k) = With(T, k)
         /\ \A w : /\ Cardinality(Holding(T, w)) \in Nat
                   /\ Cardinality(Holding(U, w)) = Cardinality(Holding(T, w)) + (IF w = v THEN 1 ELSE 0)
                                                     - (IF w = T[i].value THEN 1 ELSE 0)
<1>1. \A k : With(U, k) = With(T, k)
  BY DEF With
<1>2. ASSUME NEW w
      PROVE  /\ Cardinality(Holding(T, w)) \in Nat
             /\ Cardinality(Holding(U, w)) = Cardinality(Holding(T, w)) + (IF w = v THEN 1 ELSE 0)
                                               - (IF w = T[i].value THEN 1 ELSE 0)
  <2> DEFINE R == {j \in Full(T) \ {i} : T[j].value = w}
  <2>1. R \subseteq Full(T) /\ i \notin R
    OBVIOUS
  <2>2. /\ Holding(T, w) = IF w = T[i].value THEN R \cup {i} ELSE R
        /\ Holding(U, w) = IF w = v THEN R \cup {i} ELSE R
    BY DEF Holding
  <2> HIDE DEF R
  <2>3. IsFiniteSet(R) /\ Cardinality(R) \in Nat
    BY <2>1, FS_Subset, FS_CardinalityType
  <2>4. Cardinality(R \cup {i}) = Cardinality(R) + 1
    BY <2>1, <2>3, FS_AddElement
  <2> QED
    BY <2>2, <2>3, <2>4
<1> QED
  BY <1>1, <1>2

\* Tables with the same entries have equally many of each kind.
LEMMA CountSame ==
  ASSUME NEW T, NEW U, IsFiniteSet(Full(T)), IsFiniteSet(Full(U)), UniqueKeys(T), UniqueKeys(U),
         NEW I \in SUBSET Full(U), Records(T) = EntriesOf(U, I)
  PROVE  /\ Cardinality(Full(T)) = Cardinality(I)
         /\ \A k : Cardinality(With(T, k)) = Cardinality({i \in I : U[i].key = k})
         /\ \A v : Cardinality(Holding(T, v)) = Cardinality({i \in I : U[i].value = v})
<1>1. Cardinality(Full(T)) = Cardinality(I)
  <2>1. Cardinality(EntriesOf(T, Full(T))) = Cardinality(Full(T))
    BY CountEntries
  <2>2. Cardinality(EntriesOf(U, I)) = Cardinality(I)
    BY CountEntries
  <2> QED
    BY <2>1, <2>2 DEF Records
<1>2. ASSUME NEW k PROVE Cardinality(With(T, k)) = Cardinality({i \in I : U[i].key = k})
  <2> DEFINE J == {i \in I : U[i].key = k}
  <2>1. EntriesOf(T, With(T, k)) = EntriesOf(U, J)
    BY DEF Records, EntriesOf, With
  <2>2. With(T, k) \in SUBSET Full(T) /\ J \in SUBSET Full(U)
    BY DEF With
  <2> HIDE DEF J
  <2>3. Cardinality(EntriesOf(T, With(T, k))) = Cardinality(With(T, k))
    BY <2>2, CountEntries
  <2>4. Cardinality(EntriesOf(U, J)) = Cardinality(J)
    BY <2>2, CountEntries
  <2> QED
    BY <2>1, <2>3, <2>4 DEF J
<1>3. ASSUME NEW v PROVE Cardinality(Holding(T, v)) = Cardinality({i \in I : U[i].value = v})
  <2> DEFINE J == {i \in I : U[i].value = v}
  <2>1. EntriesOf(T, Holding(T, v)) = EntriesOf(U, J)
    BY DEF Records, EntriesOf, Holding
  <2>2. Holding(T, v) \in SUBSET Full(T) /\ J \in SUBSET Full(U)
    BY DEF Holding
  <2> HIDE DEF J
  <2>3. Cardinality(EntriesOf(T, Holding(T, v))) = Cardinality(Holding(T, v))
    BY <2>2, CountEntries
  <2>4. Cardinality(EntriesOf(U, J)) = Cardinality(J)
    BY <2>2, CountEntries
  <2> QED
    BY <2>1, <2>3, <2>4 DEF J
<1> QED
  BY <1>1, <1>2, <1>3

-----------------------------------------------------------------------------
(* The invariant is inductive: one lemma per operation.                    *)

\* The states a program starts in.
LEMMA InitEstablishes == Init => TableInv
<1> SUFFICES ASSUME Init PROVE TableInv
  OBVIOUS
<1>1. /\ IsTable(Vacant(0), 0, hash) /\ UniqueKeys(Vacant(0)) /\ Full(Vacant(0)) = {}
  BY VacantTable
<1>2. slots = Vacant(0) /\ cap = 0
  BY DEF Init
<1>3. Shape
  BY <1>1, <1>2 DEF Init, Shape
<1>4. Exact
  BY DEF Init, Exact
<1>5. Growing
  BY DEF Init, Growing
<1>6. Iterating
  BY DEF Init, Iterating
<1>7. Due
  <2>1. \A k : With(slots, k) = {} /\ Holding(slots, k) = {}
    BY <1>1, <1>2 DEF With, Holding
  <2>2. Cardinality({}) = 0
    BY FS_EmptySet
  <2>3. InFlight(1) = {} /\ InFlight(2) = {}
    BY DEF Init, InFlight
  <2> QED
    BY <2>1, <2>2, <2>3 DEF Init, Due
<1> QED
  BY <1>3, <1>4, <1>5, <1>6, <1>7 DEF TableInv

\* An operation that only answers.
LEMMA AnswerStep ==
  ASSUME TableInv, UNCHANGED <<hash, storage, pc, pending, growth, iterator, ledgers>>
  PROVE  TableInv'
<1> USE DEF storage, growth, iterator, ledgers
<1>1. Shape'
  BY DEF TableInv, Shape, UniqueKeys, Full
<1>2. Exact'
  BY DEF TableInv, Exact
<1>3. Growing'
  BY DEF TableInv, Growing
<1>4. Iterating'
  BY DEF TableInv, Iterating
<1>5. Due'
  BY DEF TableInv, Due, InFlight
<1> QED
  BY <1>1, <1>2, <1>3, <1>4, <1>5 DEF TableInv

\* What the counts say of the keys and values that are due when nothing is in flight.
LEMMA DueWhenIdle ==
  ASSUME TableInv, pending = Nothing
  PROVE  /\ \A k \in Keys : dueKeys[k] = Cardinality(With(slots, k))
         /\ \A v \in Values : dueValues[v] = Cardinality(Holding(slots, v))
         /\ \A k : Cardinality(With(slots, k)) \in Nat
         /\ \A v : Cardinality(Holding(slots, v)) \in Nat
<1>1. InFlight(1) = {} /\ InFlight(2) = {}
  BY DEF InFlight
<1>2. IsFiniteSet(Full(slots))
  BY ShapeFacts DEF TableInv, TableProps
<1>3. ASSUME NEW k PROVE Cardinality(With(slots, k)) \in Nat /\ Cardinality(Holding(slots, k)) \in Nat
  <2>1. With(slots, k) \in SUBSET Full(slots) /\ Holding(slots, k) \in SUBSET Full(slots)
    BY DEF With, Holding
  <2> QED
    BY <1>2, <2>1, FS_Subset, FS_CardinalityType
<1> QED
  BY <1>1, <1>3 DEF TableInv, Due

LEMMA CreateStep ==
  ASSUME TableInv, NEW capacity \in Capacities, Create(capacity)
  PROVE  TableInv'
<1> DEFINE n == Rounded(capacity)
<1> USE DEF storage, growth, iterator, ledgers
<1>1. n \in {0} \cup Sizes
  <2>1. CASE capacity = 0
    BY <2>1 DEF Rounded
  <2>2. CASE capacity # 0
    <3> DEFINE S == {m \in Sizes : m >= capacity}
    <3>1. S \in SUBSET Nat /\ S # {}
      BY <2>2, CapacitiesAssumption, SizesAssumption
    <3>2. LeastOf(S) \in S
      BY <3>1, LeastOfIsLeast
    <3> QED
      BY <2>2, <3>2 DEF Rounded
  <2> QED
    BY <2>1, <2>2
<1>2. n \in Nat /\ (n = 0 \/ n >= 8)
  BY <1>1, SizeFacts
<1>3. cap' = n /\ slots' = Vacant(n) /\ len' = 0 /\ tombstones' = 0
  BY DEF Create
<1> HIDE DEF n
<1>4. /\ IsTable(Vacant(n), n, hash) /\ UniqueKeys(Vacant(n)) /\ Chained(Vacant(n), n)
      /\ Full(Vacant(n)) = {} /\ Tombs(Vacant(n)) = {} /\ Cardinality({}) = 0
  BY <1>2, VacantTable, FS_EmptySet
<1>5. Shape'
  BY <1>1, <1>3, <1>4 DEF Create, TableInv, Shape
<1>6. Exact'
  BY <1>2, <1>3, <1>4 DEF Create, Exact
<1>7. Growing'
  BY <1>2, <1>3 DEF Create, TableInv, Growing
<1>8. Iterating'
  BY <1>2, <1>3 DEF Create, TableInv, Iterating
<1>9. Due'
  <2>1. \A k : With(slots', k) = {} /\ Holding(slots', k) = {}
    BY <1>3, <1>4 DEF With, Holding
  <2>2. cap = 0 /\ pending = Nothing /\ pending' = Nothing
    BY DEF TableInv, Shape, Create
  <2>3. \A k : With(slots, k) = {} /\ Holding(slots, k) = {}
    BY <2>2, ShapeFacts DEF TableInv, With, Holding
  <2>4. InFlight(1)' = {} /\ InFlight(2)' = {}
    BY <2>2 DEF InFlight
  <2> QED
    BY <2>1, <2>2, <2>3, <2>4, <1>4, DueWhenIdle DEF Create, TableInv, Due
<1> QED
  BY <1>5, <1>6, <1>7, <1>8, <1>9 DEF TableInv

\* The end of the table and clear: every entry is dropped.
LEMMA ReleasedAll ==
  ASSUME TableInv, pending = Nothing, Released(Full(slots)), UNCHANGED pending,
         NEW n \in Nat, slots' = Vacant(n)
  PROVE  Due'
<1>1. \A k : With(slots', k) = {} /\ Holding(slots', k) = {}
  BY VacantTable DEF With, Holding
<1>2. InFlight(1)' = {} /\ InFlight(2)' = {}
  BY DEF InFlight
<1>3. /\ \A k : {i \in Full(slots) : slots[i].key = k} = With(slots, k)
      /\ \A v : {i \in Full(slots) : slots[i].value = v} = Holding(slots, v)
  BY DEF With, Holding
<1>4. /\ dueKeys' = [k \in Keys |-> dueKeys[k] - Cardinality(With(slots, k))]
      /\ dueValues' = [v \in Values |-> dueValues[v] - Cardinality(Holding(slots, v))]
  BY <1>3 DEF Released
<1>5. (\A k \in Keys : dueKeys'[k] = 0) /\ (\A v \in Values : dueValues'[v] = 0)
  BY <1>4, DueWhenIdle
<1>6. dueKeys' \in [Keys -> Int] /\ dueValues' \in [Values -> Int]
  BY <1>4, <1>5
<1>7. Cardinality({}) = 0
  BY FS_EmptySet
<1>8. \A k \in Keys : dueKeys'[k] = Cardinality(With(slots', k)) + (IF k \in InFlight(1)' THEN 1 ELSE 0)
  BY <1>1, <1>2, <1>5, <1>7
<1>9. \A v \in Values : dueValues'[v] = Cardinality(Holding(slots', v)) + (IF v \in InFlight(2)' THEN 1 ELSE 0)
  BY <1>1, <1>2, <1>5, <1>7
<1> QED
  BY <1>6, <1>8, <1>9 DEF Due

LEMMA DropTableStep ==
  ASSUME TableInv, DropTable
  PROVE  TableInv'
<1> USE DEF growth
<1>1. slots' = Vacant(0) /\ cap' = 0 /\ cap' \in Nat
  BY DEF DropTable
<1>2. /\ IsTable(Vacant(0), 0, hash) /\ UniqueKeys(Vacant(0))
  BY VacantTable
<1>3. pending = Nothing /\ pending' = pending
  BY DEF TableInv, Shape, DropTable
<1>4. Due'
  BY <1>1, <1>3, ReleasedAll DEF DropTable
<1>5. Shape'
  BY <1>1, <1>2 DEF DropTable, TableInv, Shape
<1>6. Exact'
  BY DEF DropTable, Exact
<1>7. Growing'
  BY <1>1 DEF DropTable, TableInv, Growing
<1>8. Iterating'
  BY <1>1 DEF DropTable, Iterating
<1> QED
  BY <1>4, <1>5, <1>6, <1>7, <1>8 DEF TableInv

LEMMA ClearStep ==
  ASSUME TableInv, Clear
  PROVE  TableInv'
<1> USE DEF growth, iterator, ledgers, storage
<1>1. CASE ~ (len > 0)
  BY <1>1, AnswerStep DEF Clear
<1>2. CASE len > 0
  <2>1. slots' = Vacant(cap) /\ cap' = cap /\ cap \in Nat /\ hash' = hash /\ len' = 0 /\ tombstones' = 0
    BY <1>2, ShapeFacts DEF Clear, TableInv
  <2>2. /\ IsTable(Vacant(cap), cap, hash) /\ UniqueKeys(Vacant(cap)) /\ Chained(Vacant(cap), cap)
        /\ Full(Vacant(cap)) = {} /\ Tombs(Vacant(cap)) = {} /\ Cardinality({}) = 0
    BY <2>1, VacantTable, FS_EmptySet
  <2>3. pc = "idle" /\ pc' = "idle" /\ pending = Nothing /\ pending' = pending
    BY DEF TableInv, Shape, Clear, Ready
  <2>4. Due'
    BY <1>2, <2>1, <2>3, ReleasedAll DEF Clear
  <2>5. Shape'
    BY <2>1, <2>2, <2>3 DEF Clear, TableInv, Shape
  <2>6. Exact'
    BY <2>1, <2>2, <2>3 DEF Clear, Exact
  <2>7. Growing'
    BY <2>1, <2>3 DEF Clear, TableInv, Growing
  <2>8. Iterating'
    BY <2>1, <2>3 DEF Clear, TableInv, Iterating
  <2> QED
    BY <2>4, <2>5, <2>6, <2>7, <2>8 DEF TableInv
<1> QED
  BY <1>1, <1>2

LEMMA IterateStep ==
  ASSUME TableInv, NEW how \in {"iterating", "consuming"}, Iterate(how)
  PROVE  TableInv'
<1> USE DEF growth, ledgers, storage
<1>1. pc = "idle" /\ cap \in Nat /\ \A i \in Full(slots) : i \in Nat
  BY ShapeFacts DEF Iterate, Ready, TableInv
<1>2. Shape'
  BY <1>1 DEF Iterate, TableInv, Shape
<1>3. Exact'
  BY <1>1 DEF Iterate, TableInv, Exact
<1>4. Growing'
  BY <1>1 DEF Iterate, TableInv, Growing
<1>5. Iterating'
  <2>1. {slots[i].key : i \in {j \in Full(slots) : j < 0}} = {}
    BY <1>1
  <2> QED
    BY <1>1, <2>1 DEF Iterate, Iterating
<1>6. Due'
  BY DEF Iterate, TableInv, Due, InFlight
<1> QED
  BY <1>2, <1>3, <1>4, <1>5, <1>6 DEF TableInv

LEMMA EndIterationStep ==
  ASSUME TableInv, EndIteration
  PROVE  TableInv'
<1> USE DEF growth, ledgers, storage
<1>1. pc = "iterating" /\ cap \in Nat
  BY ShapeFacts DEF EndIteration, TableInv
<1>2. Shape'
  BY <1>1 DEF EndIteration, TableInv, Shape
<1>3. Exact'
  BY <1>1 DEF EndIteration, TableInv, Exact
<1>4. Growing'
  BY <1>1 DEF EndIteration, TableInv, Growing
<1>5. Iterating'
  BY <1>1 DEF EndIteration, Iterating
<1>6. Due'
  BY DEF EndIteration, TableInv, Due, InFlight
<1> QED
  BY <1>2, <1>3, <1>4, <1>5, <1>6 DEF TableInv

\* One entry is dropped or handed out.
LEMMA ReleasedOne ==
  ASSUME TableInv, pending = Nothing, NEW i \in Full(slots), Released({i}), UNCHANGED pending,
         Full(slots') = Full(slots) \ {i}, \A j \in Full(slots) \ {i} : slots'[j] = slots[j]
  PROVE  Due'
<1>1. IsFiniteSet(Full(slots)) /\ slots[i].key \in Keys /\ slots[i].value \in Values
  BY ShapeFacts DEF TableInv, TableProps, Hashes
<1>2. /\ \A k : /\ Cardinality(With(slots', k)) \in Nat
                /\ Cardinality(With(slots, k)) = Cardinality(With(slots', k)) + (IF slots[i].key = k THEN 1 ELSE 0)
      /\ \A v : /\ Cardinality(Holding(slots', v)) \in Nat
                /\ Cardinality(Holding(slots, v)) = Cardinality(Holding(slots', v)) + (IF slots[i].value = v THEN 1 ELSE 0)
  BY <1>1, CountLess
<1>3. Cardinality({}) = 0 /\ Cardinality({i}) = 1
  BY FS_EmptySet, FS_Singleton
<1>4. /\ \A k : {j \in {i} : slots[j].key = k} = IF slots[i].key = k THEN {i} ELSE {}
      /\ \A v : {j \in {i} : slots[j].value = v} = IF slots[i].value = v THEN {i} ELSE {}
  OBVIOUS
<1>5. /\ dueKeys' = [k \in Keys |-> dueKeys[k] - Cardinality(IF slots[i].key = k THEN {i} ELSE {})]
      /\ dueValues' = [v \in Values |-> dueValues[v] - Cardinality(IF slots[i].value = v THEN {i} ELSE {})]
  BY <1>4 DEF Released
<1>6. /\ dueKeys' = [k \in Keys |-> dueKeys[k] - (IF slots[i].key = k THEN 1 ELSE 0)]
      /\ dueValues' = [v \in Values |-> dueValues[v] - (IF slots[i].value = v THEN 1 ELSE 0)]
  BY <1>3, <1>5
<1>7. InFlight(1)' = {} /\ InFlight(2)' = {}
  BY DEF InFlight
<1>8. \A k \in Keys : dueKeys'[k] = Cardinality(With(slots', k))
  BY <1>2, <1>6, DueWhenIdle
<1>9. \A v \in Values : dueValues'[v] = Cardinality(Holding(slots', v))
  BY <1>2, <1>6, DueWhenIdle
<1>10. dueKeys' \in [Keys -> Int] /\ dueValues' \in [Values -> Int]
  BY <1>2, <1>6, <1>8, <1>9
<1>11. \A k \in Keys : dueKeys'[k] = Cardinality(With(slots', k)) + (IF k \in InFlight(1)' THEN 1 ELSE 0)
  BY <1>2, <1>7, <1>8
<1>12. \A v \in Values : dueValues'[v] = Cardinality(Holding(slots', v)) + (IF v \in InFlight(2)' THEN 1 ELSE 0)
  BY <1>2, <1>7, <1>9
<1> QED
  BY <1>10, <1>11, <1>12 DEF Due

LEMMA AheadFacts ==
  ASSUME Shape, cursor \in Nat, Ahead # {}
  PROVE  /\ LeastOf(Ahead) \in Full(slots) /\ LeastOf(Ahead) >= cursor
         /\ LeastOf(Ahead) \in 0 .. cap - 1
         /\ \A j \in Full(slots) : j >= cursor => j >= LeastOf(Ahead)
<1>1. \A i \in Full(slots) : i \in 0 .. cap - 1
  BY ShapeFacts
<1>2. Ahead \in SUBSET Nat
  BY <1>1 DEF Ahead
<1>3. LeastOf(Ahead) \in Ahead /\ \A j \in Ahead : LeastOf(Ahead) <= j
  BY <1>2, LeastOfIsLeast
<1> QED
  BY <1>1, <1>3 DEF Ahead

LEMMA NextEntryStep ==
  ASSUME TableInv, NextEntry
  PROVE  TableInv'
<1> USE DEF growth, ledgers, storage
<1> DEFINE i == LeastOf(Ahead)
<1>1. /\ cap \in Nat /\ cursor \in 0 .. cap /\ visited \subseteq Keys /\ pc' = pc /\ pending' = pending
      /\ pending = Nothing /\ pc \in {"iterating", "consuming"} /\ cap' = cap /\ hash' = hash
      /\ UniqueKeys(slots)
  BY ShapeFacts DEF TableInv, Iterating, Shape, NextEntry
<1>2. \A j \in Full(slots) : j \in 0 .. cap - 1 /\ slots[j].key \in Keys
  BY ShapeFacts DEF TableInv, TableProps, Hashes
<1>3. Growing'
  BY <1>1 DEF NextEntry, TableInv, Growing
<1>4. CASE slots' = slots /\ UNCHANGED ledgers
  <2>1. Shape' /\ Exact'
    BY <1>1, <1>4 DEF NextEntry, TableInv, Shape, Exact
  <2>2. Due'
    BY <1>1, <1>4 DEF TableInv, Due, InFlight
  <2>3. Iterating'
    <3>1. CASE Ahead = {}
      <4>1. cursor' = cap /\ visited' = visited
        BY <3>1 DEF NextEntry
      <4>2. {j \in Full(slots) : j < cursor} = {j \in Full(slots) : j < cap}
        BY <1>1, <1>2, <3>1 DEF Ahead
      <4>3. pc = "consuming" => Full(slots) = {}
        BY <3>1 DEF TableInv, Iterating, Ahead
      <4> QED
        BY <1>1, <1>4, <4>1, <4>2, <4>3 DEF TableInv, Iterating
    <3>2. CASE Ahead # {}
      <4>1. /\ i \in Full(slots) /\ i >= cursor /\ i \in 0 .. cap - 1
            /\ \A j \in Full(slots) : j >= cursor => j >= i
        BY <1>1, <3>2, AheadFacts DEF TableInv
      <4>2. cursor' = i + 1 /\ visited' = visited \cup {slots[i].key}
        BY <3>2 DEF NextEntry
      <4>3. pc # "consuming"
        <5>1. pc = "consuming" => slots' = [slots EXCEPT ![i] = Empty]
          BY <3>2 DEF NextEntry, TakeFrom
        <5>2. slots[i].state = 1 /\ i \in DOMAIN slots
          BY <4>1 DEF Full
        <5> QED
          BY <1>4, <5>1, <5>2 DEF Empty
      <4> HIDE DEF i
      <4>4. {j \in Full(slots) : j < i + 1} = {j \in Full(slots) : j < cursor} \cup {i}
        <5>1. ASSUME NEW j \in Full(slots) PROVE j < i + 1 <=> j < cursor \/ j = i
          <6>1. j \in Nat /\ i \in Nat /\ cursor \in Nat
            BY <1>1, <1>2, <4>1
          <6> QED
            BY <4>1, <6>1
        <5> QED
          BY <4>1, <5>1
      <4>5. visited = {slots[j].key : j \in {m \in Full(slots) : m < cursor}}
        BY <1>1, <4>3 DEF TableInv, Iterating
      <4>6. visited' = {slots[j].key : j \in {m \in Full(slots) : m < i + 1}}
        BY <4>2, <4>4, <4>5
      <4> QED
        BY <1>1, <1>2, <1>4, <4>1, <4>2, <4>3, <4>6 DEF Iterating
    <3> QED
      BY <3>1, <3>2
  <2> QED
    BY <1>3, <2>1, <2>2, <2>3 DEF TableInv
<1>5. CASE pc = "consuming" /\ Ahead # {}
  <2>1. /\ i \in Full(slots) /\ i >= cursor /\ i \in 0 .. cap - 1
        /\ \A j \in Full(slots) : j >= cursor => j >= i
    BY <1>1, <1>5, AheadFacts DEF TableInv
  <2>2. /\ cursor' = i + 1 /\ visited' = visited \cup {slots[i].key}
        /\ slots' = [slots EXCEPT ![i] = Empty] /\ Released({i})
    BY <1>5 DEF NextEntry, TakeFrom
  <2> HIDE DEF i
  <2>3. IsTable(slots, cap, hash)
    BY DEF TableInv, Shape
  <2>4. /\ IsTable(slots', cap, hash) /\ UniqueKeys(slots') /\ Full(slots') = Full(slots) \ {i}
        /\ \A j \in Full(slots) \ {i} : slots'[j] = slots[j]
    <3>1. UniqueKeys(slots) /\ cap \in Nat
      BY <1>1
    <3>2. slots' = Updated(slots, i, Empty)
      BY <2>2 DEF Updated
    <3>3. i \in Full(slots)
      BY <2>1
    <3> QED
      BY <2>3, <3>1, <3>2, <3>3, TakeEntry
  <2>5. Due'
    BY <1>1, <2>1, <2>2, <2>4, ReleasedOne
  <2>6. Shape'
    BY <1>1, <1>5, <2>4 DEF NextEntry, TableInv, Shape
  <2>7. Exact'
    BY <1>1, <1>5 DEF Exact
  <2>8. ASSUME NEW j \in Full(slots') PROVE j >= cursor' /\ slots'[j].key \notin visited'
    <3>1. j \in Full(slots) /\ j # i /\ slots'[j] = slots[j] /\ j >= cursor /\ slots[j].key \notin visited
      BY <1>5, <2>4 DEF TableInv, Iterating
    <3>2. slots[j].key # slots[i].key
      BY <1>1, <2>1, <3>1 DEF UniqueKeys
    <3> QED
      BY <1>2, <2>1, <2>2, <3>1, <3>2
  <2>9. Iterating'
    <3>1. cursor' \in 0 .. cap' /\ visited' \subseteq Keys
      BY <1>1, <1>2, <2>1, <2>2
    <3> QED
      BY <1>1, <1>5, <2>8, <3>1 DEF Iterating
  <2> QED
    BY <1>3, <2>5, <2>6, <2>7, <2>9 DEF TableInv
<1> QED
  BY <1>4, <1>5 DEF NextEntry

LEMMA RoomBeforeInsert ==
  ASSUME TableInv, pc = "idle"
  PROVE  IF NeedsRoom THEN len + 1 < NewCapacity ELSE cap > 0 /\ len + tombstones + 1 < cap
<1>1. cap \in Nat /\ len \in Nat /\ tombstones \in Nat /\ (cap # 0 => cap >= 8 /\ len + tombstones < cap)
  BY ShapeFacts DEF TableInv, Shape, Exact
<1>2. cap = 0 => len = 0
  <2>1. cap = 0 => Full(slots) = {}
    BY ShapeFacts DEF TableInv
  <2> QED
    BY <2>1, FS_EmptySet DEF TableInv, Exact
<1> QED
  BY <1>1, <1>2 DEF NeedsRoom, NewCapacity

LEMMA BeginInsertStep ==
  ASSUME TableInv, NEW k \in DOMAIN hash, NEW v \in Values, BeginInsert(k, v)
  PROVE  TableInv'
<1> USE DEF iterator, storage
<1>1. /\ pc = "idle" /\ pending = Nothing /\ pending' = <<k, v>> /\ k \in Keys /\ cap \in Nat
      /\ hash' = hash /\ slots' = slots /\ cap' = cap /\ len' = len /\ tombstones' = tombstones
      /\ pc' = IF NeedsRoom THEN "growing" ELSE "placing"
  BY ShapeFacts DEF BeginInsert, Ready, TableInv, Shape, Hashes
<1>2. Shape'
  <2>1. pending' = <<k, v>> /\ k \in DOMAIN hash' /\ pc' \in {"growing", "placing"}
    BY <1>1
  <2>2. \E k1 \in DOMAIN hash', v1 \in Values : pending' = <<k1, v1>>
    BY <2>1
  <2> QED
    BY <1>1, <2>1, <2>2 DEF TableInv, Shape
<1>3. Exact'
  BY <1>1, RoomBeforeInsert DEF TableInv, Exact
<1>4. Iterating'
  BY <1>1 DEF BeginInsert, TableInv, Iterating
<1>5. Growing'
  <2>1. CASE ~ NeedsRoom
    BY <1>1, <2>1 DEF BeginInsert, growth, TableInv, Growing
  <2>2. CASE NeedsRoom
    <3> DEFINE n == NewCapacity
    <3>1. n \in Sizes /\ fresh' = Vacant(n) /\ moved' = 0 /\ len + 1 < n
      BY <1>1, <2>2, RoomBeforeInsert DEF BeginInsert, NewStorage
    <3> HIDE DEF n
    <3>2. n \in Nat
      BY <3>1, SizeFacts
    <3>3. /\ IsTable(Vacant(n), n, hash) /\ UniqueKeys(Vacant(n)) /\ Chained(Vacant(n), n)
          /\ Full(Vacant(n)) = {} /\ Tombs(Vacant(n)) = {}
      BY <3>2, VacantTable
    <3>4. Records(fresh') = EntriesOf(slots, {i \in Full(slots) : i < 0})
      <4>1. {i \in Full(slots) : i < 0} = {}
        BY ShapeFacts DEF TableInv
      <4> QED
        BY <3>1, <3>3, <4>1 DEF Records, EntriesOf
    <3> QED
      BY <1>1, <3>1, <3>3, <3>4 DEF Growing
  <2> QED
    BY <2>1, <2>2
<1>6. Due'
  <2>1. InFlight(1)' = {k} /\ InFlight(2)' = {v}
    BY <1>1 DEF InFlight, Nothing
  <2>2. dueKeys' = [dueKeys EXCEPT ![k] = @ + 1] /\ dueValues' = [dueValues EXCEPT ![v] = @ + 1]
    BY DEF BeginInsert
  <2>3. dueKeys \in [Keys -> Int] /\ dueValues \in [Values -> Int]
    BY DEF TableInv, Due
  <2>4. dueKeys' \in [Keys -> Int] /\ dueValues' \in [Values -> Int]
    <3>1. \A f \in [Keys -> Int] : [f EXCEPT ![k] = @ + 1] \in [Keys -> Int]
      BY <1>1
    <3>2. \A f \in [Values -> Int] : [f EXCEPT ![v] = @ + 1] \in [Values -> Int]
      OBVIOUS
    <3> QED
      BY <2>2, <2>3, <3>1, <3>2
  <2>5. \A j \in Keys : dueKeys'[j] = Cardinality(With(slots', j)) + (IF j \in InFlight(1)' THEN 1 ELSE 0)
    BY <1>1, <2>1, <2>2, <2>3, DueWhenIdle
  <2>6. \A w \in Values : dueValues'[w] = Cardinality(Holding(slots', w)) + (IF w \in InFlight(2)' THEN 1 ELSE 0)
    BY <1>1, <2>1, <2>2, <2>3, DueWhenIdle
  <2> QED
    BY <2>4, <2>5, <2>6 DEF Due
<1> QED
  BY <1>2, <1>3, <1>4, <1>5, <1>6 DEF TableInv

\* A lookup finds a key exactly if it has an entry.
LEMMA FoundFacts ==
  ASSUME TableInv, pc \in {"idle", "placing"}, NEW k \in DOMAIN hash
  PROVE  /\ cap = 0 => ~ Find(k).found
         /\ Find(k).found => /\ Find(k).at \in Full(slots) /\ slots[Find(k).at].key = k
                             /\ len # 0 /\ cap # 0
         /\ ~ Find(k).found => \A i \in Full(slots) : slots[i].key # k
<1>1. /\ Hashes(hash) /\ cap \in Nat /\ IsTable(slots, cap, hash) /\ UniqueKeys(slots) /\ Chained(slots, cap)
      /\ \A i \in Full(slots) : cap # 0
      /\ len = Cardinality(Full(slots)) /\ tombstones = Cardinality(Tombs(slots))
      /\ cap > 0 => len + tombstones < cap
  BY ShapeFacts DEF TableInv, Shape, Exact
<1>2. CASE cap = 0
  <2>1. Find(k) = [found |-> FALSE, at |-> 0]
    BY <1>2 DEF Find
  <2> QED
    BY <1>1, <1>2, <2>1
<1>3. CASE cap # 0 /\ \E i \in Full(slots) : slots[i].key = k
  <2>1. PICK i \in Full(slots) : slots[i].key = k
    BY <1>3
  <2>2. Find(k) = [found |-> TRUE, at |-> i]
    BY <1>1, <1>3, <2>1, FindEntry
  <2>3. Find(k).found /\ Find(k).at = i
    BY <2>2
  <2>4. len # 0
    <3>1. IsFiniteSet(Full(slots))
      BY ShapeFacts DEF TableInv, TableProps
    <3> QED
      BY <1>1, <2>1, <3>1, FS_EmptySet
  <2> QED
    BY <1>3, <2>1, <2>3, <2>4
<1>4. CASE cap # 0 /\ \A i \in Full(slots) : slots[i].key # k
  <2>1. \E i \in 0 .. cap - 1 : slots[i].state = 0
    BY <1>1, <1>4, EmptySlotExists
  <2>2. ~ Find(k).found
    BY <1>1, <1>4, <2>1, FindVacant
  <2> QED
    BY <1>4, <2>2
<1> QED
  BY <1>2, <1>3, <1>4

LEMMA RemoveStep ==
  ASSUME TableInv, NEW k \in DOMAIN hash, Remove(k)
  PROVE  TableInv'
<1> USE DEF growth, iterator
<1> DEFINE i == Find(k).at
<1>1. pc = "idle" /\ pc' = pc /\ pending = Nothing /\ pending' = pending /\ hash' = hash /\ cap' = cap
  BY DEF Remove, Ready, TableInv, Shape
<1>2. CASE ~ Found(k)
  BY <1>1, <1>2, AnswerStep DEF Remove, storage
<1>3. CASE Found(k)
  <2>1. i \in Full(slots)
    BY <1>1, <1>3, FoundFacts DEF Found
  <2>2. /\ Released({i}) /\ slots' = Updated(slots, i, Deleted) /\ len' = len - 1 /\ tombstones' = tombstones + 1
    BY <1>3 DEF Remove, WithoutEntry, CountTombstone, Updated
  <2> HIDE DEF i
  <2>3. Hashes(hash) /\ cap \in Nat /\ IsTable(slots, cap, hash) /\ UniqueKeys(slots) /\ Chained(slots, cap)
    BY <1>1, ShapeFacts DEF TableInv, Shape, Exact
  <2>4. /\ IsTable(slots', cap, hash) /\ UniqueKeys(slots') /\ Chained(slots', cap)
        /\ Full(slots') = Full(slots) \ {i} /\ Tombs(slots') = Tombs(slots) \cup {i} /\ i \notin Tombs(slots)
        /\ \A j \in Full(slots) \ {i} : slots'[j] = slots[j]
    BY <2>1, <2>2, <2>3, DeleteEntry
  <2>5. Due'
    BY <1>1, <2>1, <2>2, <2>4, ReleasedOne
  <2>6. /\ IsFiniteSet(Full(slots)) /\ IsFiniteSet(Tombs(slots))
        /\ len = Cardinality(Full(slots)) /\ tombstones = Cardinality(Tombs(slots))
        /\ cap > 0 => len + tombstones < cap
        /\ len \in Nat /\ tombstones \in Nat
    BY <1>1, ShapeFacts DEF TableInv, TableProps, Exact, Shape
  <2>7. Cardinality(Full(slots')) = len - 1 /\ len - 1 \in Nat
    <3>1. Cardinality(Full(slots')) \in Nat /\ Cardinality(Full(slots)) = Cardinality(Full(slots')) + 1
      BY <2>1, <2>4, <2>6, CountLess
    <3> QED
      BY <2>6, <3>1
  <2>8. Cardinality(Tombs(slots')) = tombstones + 1
    BY <2>4, <2>6, FS_AddElement
  <2>9. Shape'
    BY <1>1, <2>2, <2>4, <2>6, <2>7 DEF TableInv, Shape
  <2>10. Exact'
    BY <1>1, <2>2, <2>3, <2>4, <2>6, <2>7, <2>8 DEF Exact
  <2>11. Growing'
    BY <1>1 DEF Remove, TableInv, Growing
  <2>12. Iterating'
    BY <1>1 DEF Remove, TableInv, Iterating
  <2> QED
    BY <2>5, <2>9, <2>10, <2>11, <2>12 DEF TableInv
<1> QED
  BY <1>2, <1>3

LEMMA ExchangeStep ==
  ASSUME TableInv, NEW k \in DOMAIN hash, NEW v \in Values, Exchange(k, v)
  PROVE  TableInv'
<1> USE DEF growth, iterator
<1> DEFINE i == Find(k).at
<1>1. /\ pc = "idle" /\ pc' = pc /\ pending = Nothing /\ pending' = pending /\ hash' = hash /\ cap' = cap
      /\ len' = len /\ tombstones' = tombstones /\ dueKeys' = dueKeys
  BY DEF Exchange, Ready, TableInv, Shape
<1>2. CASE ~ Found(k)
  BY <1>1, <1>2, AnswerStep DEF Exchange, storage, ledgers
<1>3. CASE Found(k)
  <2>1. i \in Full(slots)
    BY <1>1, <1>3, FoundFacts DEF Found
  <2> DEFINE old == slots[i].value
  <2>2. /\ slots' = Revalued(slots, i, v)
        /\ dueValues' = [w \in Values |-> dueValues[w] + (IF w = v THEN 1 ELSE 0) - (IF w = old THEN 1 ELSE 0)]
    BY <1>3 DEF Exchange, Revalued
  <2> HIDE DEF i
  <2>3. Hashes(hash) /\ cap \in Nat /\ IsTable(slots, cap, hash) /\ UniqueKeys(slots) /\ Chained(slots, cap)
    BY <1>1, ShapeFacts DEF TableInv, Shape, Exact
  <2>4. /\ IsTable(slots', cap, hash) /\ UniqueKeys(slots') /\ Chained(slots', cap)
        /\ Full(slots') = Full(slots) /\ Tombs(slots') = Tombs(slots)
        /\ slots'[i] = EntryOf(hash, slots[i].key, v)
        /\ \A j \in Full(slots) : j # i => slots'[j] = slots[j]
        /\ \A j \in Full(slots) : slots'[j].key = slots[j].key
    BY <2>1, <2>2, <2>3, ReplaceEntry
  <2>5. Shape'
    BY <1>1, <2>4 DEF TableInv, Shape
  <2>6. Exact'
    BY <1>1, <2>4 DEF TableInv, Exact
  <2>7. Growing'
    BY <1>1 DEF Exchange, TableInv, Growing
  <2>8. Iterating'
    BY <1>1 DEF Exchange, TableInv, Iterating
  <2>9. Due'
    <3>1. slots'[i].value = v
      BY <2>4 DEF EntryOf
    <3>2. IsFiniteSet(Full(slots))
      BY ShapeFacts DEF TableInv, TableProps
    <3>3. /\ \A j : With(slots', j) = With(slots, j)
          /\ \A w : /\ Cardinality(Holding(slots, w)) \in Nat
                    /\ Cardinality(Holding(slots', w)) = Cardinality(Holding(slots, w)) + (IF w = v THEN 1 ELSE 0)
                                                           - (IF w = old THEN 1 ELSE 0)
      BY <2>1, <2>4, <3>1, <3>2, CountExchanged
    <3>4. InFlight(1)' = {} /\ InFlight(2)' = {}
      BY <1>1 DEF InFlight
    <3> HIDE DEF old
    <3>5. dueKeys \in [Keys -> Int] /\ dueValues \in [Values -> Int]
      BY DEF TableInv, Due
    <3>6. dueKeys' \in [Keys -> Int] /\ dueValues' \in [Values -> Int]
      BY <1>1, <2>2, <3>5
    <3>7. \A j \in Keys : dueKeys'[j] = Cardinality(With(slots', j)) + (IF j \in InFlight(1)' THEN 1 ELSE 0)
      BY <1>1, <3>3, <3>4, DueWhenIdle
    <3>8. \A w \in Values : dueValues'[w] = Cardinality(Holding(slots', w)) + (IF w \in InFlight(2)' THEN 1 ELSE 0)
      BY <1>1, <2>2, <3>3, <3>4, DueWhenIdle
    <3> QED
      BY <3>6, <3>7, <3>8 DEF Due
  <2> QED
    BY <2>5, <2>6, <2>7, <2>8, <2>9 DEF TableInv
<1> QED
  BY <1>2, <1>3

LEMMA WaitingFacts ==
  ASSUME TableInv, pc = "growing", Waiting # {}
  PROVE  /\ LeastOf(Waiting) \in Full(slots) /\ LeastOf(Waiting) >= moved /\ LeastOf(Waiting) \in 0 .. cap - 1
         /\ {j \in Full(slots) : j < LeastOf(Waiting) + 1} = {j \in Full(slots) : j < moved} \cup {LeastOf(Waiting)}
<1>1. moved \in Nat /\ \A i \in Full(slots) : i \in 0 .. cap - 1
  BY ShapeFacts DEF TableInv, Growing
<1>2. Waiting \in SUBSET Nat
  BY <1>1 DEF Waiting
<1> DEFINE i == LeastOf(Waiting)
<1>3. i \in Waiting /\ \A j \in Waiting : i <= j
  BY <1>2, LeastOfIsLeast
<1> HIDE DEF i
<1>4. i \in Full(slots) /\ i >= moved /\ i \in 0 .. cap - 1
  BY <1>1, <1>3 DEF Waiting
<1>5. ASSUME NEW j \in Full(slots) PROVE j < i + 1 <=> j < moved \/ j = i
  <2>1. j \in Nat /\ i \in Nat /\ moved \in Nat
    BY <1>1, <1>4
  <2>2. j >= moved => i <= j
    BY <1>3 DEF Waiting
  <2> QED
    BY <1>4, <2>1, <2>2
<1>6. {j \in Full(slots) : j < i + 1} = {j \in Full(slots) : j < moved} \cup {i}
  BY <1>4, <1>5
<1> QED
  BY <1>4, <1>6 DEF i

LEMMA RoomToMove ==
  ASSUME TableInv, pc = "growing", Waiting # {}
  PROVE  Room(slots[LeastOf(Waiting)].hash, Cardinality(DOMAIN fresh)) # {}
<1> DEFINE i == LeastOf(Waiting)
           Before == {j \in Full(slots) : j < moved}
<1>2. i \in Full(slots)
  BY WaitingFacts
<1>3. PICK n \in Sizes :
         /\ IsTable(fresh, n, hash) /\ UniqueKeys(fresh) /\ Chained(fresh, n) /\ Tombs(fresh) = {}
         /\ len + 1 < n
         /\ Records(fresh) = EntriesOf(slots, Before)
  BY DEF TableInv, Growing
<1>4. n \in Nat \ {0} /\ Hashes(hash) /\ UniqueKeys(slots) /\ len \in Nat /\ moved \in Nat
  BY SizeFacts DEF TableInv, Shape, Growing
<1>5. Cardinality(DOMAIN fresh) = n
  <2>1. DOMAIN fresh = 0 .. n - 1
    BY <1>3 DEF IsTable
  <2>2. Cardinality(0 .. n - 1) = n
    BY <1>4, FS_Interval
  <2> QED
    BY <2>1, <2>2
<1> DEFINE k == slots[i].key
           v == slots[i].value
           g == slots[i].hash
           R == Room(g, n)
<1>6. k \in DOMAIN hash /\ v \in Values /\ g = hash[k] /\ g \in Nat /\ slots[i] = EntryOf(hash, k, v)
  <2>1. TableProps(slots, cap, hash)
    BY ShapeFacts DEF TableInv
  <2>2. k \in DOMAIN hash /\ v \in Values /\ g = hash[k] /\ slots[i] = EntryOf(hash, k, v)
    BY <1>2, <2>1 DEF TableProps
  <2> QED
    BY <1>4, <2>2 DEF Hashes
<1>7. TableProps(fresh, n, hash)
  BY <1>3, <1>4, TableFacts
<1>8. Before \in SUBSET Full(slots) /\ IsFiniteSet(Full(slots)) /\ IsFiniteSet(Full(fresh))
  BY <1>7, ShapeFacts DEF TableInv, TableProps
<1>9. \E j \in 0 .. n - 1 : fresh[j].state = 0
  <2>1. Cardinality(Full(fresh)) = Cardinality(Before)
    BY <1>3, <1>4, <1>8, CountSame
  <2>2. Cardinality(Before) <= Cardinality(Full(slots)) /\ Cardinality(Full(slots)) = len
    BY <1>8, FS_Subset DEF TableInv, Exact
  <2>3. Cardinality(Tombs(fresh)) = 0
    BY <1>3, FS_EmptySet
  <2>4. Cardinality(Full(fresh)) \in Nat
    BY <1>7 DEF TableProps
  <2>5. Cardinality(Full(fresh)) + Cardinality(Tombs(fresh)) < n
    BY <1>3, <1>4, <2>1, <2>2, <2>3, <2>4
  <2> QED
    BY <1>3, <1>4, <2>5, EmptySlotExists
<1> HIDE DEF i, k, v, g, Before
<1>10. R # {}
  <2>1. PICK j \in 0 .. n - 1 : fresh[j].state = 0
    BY <1>9
  <2>2. \E d \in 0 .. n - 1 : Position(g, d, n) = j
    BY <1>4, <1>6, EverySlotIsProbed
  <2> QED
    BY <2>1, <2>2 DEF Room
<1> QED
  BY <1>5, <1>10 DEF R, g, i

LEMMA MoveSlotStep ==
  ASSUME TableInv, MoveSlot
  PROVE  TableInv'
<1> USE DEF iterator, ledgers, storage
<1> DEFINE i == LeastOf(Waiting)
           Before == {j \in Full(slots) : j < moved}
<1>1. /\ pc = "growing" /\ Waiting # {} /\ pc' = pc /\ pending' = pending /\ hash' = hash
      /\ slots' = slots /\ cap' = cap /\ len' = len /\ tombstones' = tombstones
  BY DEF MoveSlot
<1>2. /\ i \in Full(slots) /\ i >= moved /\ i \in 0 .. cap - 1
      /\ {j \in Full(slots) : j < i + 1} = Before \cup {i}
  BY <1>1, WaitingFacts
<1>3. PICK n \in Sizes :
         /\ IsTable(fresh, n, hash) /\ UniqueKeys(fresh) /\ Chained(fresh, n) /\ Tombs(fresh) = {}
         /\ len + 1 < n
         /\ Records(fresh) = EntriesOf(slots, Before)
  BY <1>1 DEF TableInv, Growing
<1>4. n \in Nat \ {0} /\ Hashes(hash) /\ UniqueKeys(slots) /\ len \in Nat /\ moved \in Nat
  BY SizeFacts DEF TableInv, Shape, Growing
<1>5. Cardinality(DOMAIN fresh) = n
  <2>1. DOMAIN fresh = 0 .. n - 1
    BY <1>3 DEF IsTable
  <2>2. Cardinality(0 .. n - 1) = n
    BY <1>4, FS_Interval
  <2> QED
    BY <2>1, <2>2
<1> DEFINE k == slots[i].key
           v == slots[i].value
           g == slots[i].hash
           R == Room(g, n)
<1>6. k \in DOMAIN hash /\ v \in Values /\ g = hash[k] /\ g \in Nat /\ slots[i] = EntryOf(hash, k, v)
  <2>1. TableProps(slots, cap, hash)
    BY ShapeFacts DEF TableInv
  <2>2. k \in DOMAIN hash /\ v \in Values /\ g = hash[k] /\ slots[i] = EntryOf(hash, k, v)
    BY <1>2, <2>1 DEF TableProps
  <2> QED
    BY <1>4, <2>2 DEF Hashes
<1> HIDE DEF i, k, v, g, Before
<1>10. R # {}
  BY <1>1, <1>5, RoomToMove DEF R, g, i
<1>11. LeastOf(R) \in R /\ \A s \in R : LeastOf(R) <= s
  <2>1. R \in SUBSET Nat
    BY DEF Room
  <2> QED
    BY <1>10, <2>1, LeastOfIsLeast
<1> DEFINE d == LeastOf(R)
           p == Position(g, d, n)
<1>12. fresh' = Updated(fresh, p, slots[i]) /\ moved' = i + 1
  BY <1>1, <1>5, <1>10 DEF MoveSlot, Updated, i, g
<1>13. d \in 0 .. n - 1 /\ fresh[p].state = 0 /\ \A s \in 0 .. d - 1 : fresh[Position(g, s, n)].state # 0
  <2> HIDE DEF d
  <2>1. d \in 0 .. n - 1 /\ fresh[p].state = 0
    BY <1>11 DEF Room, d
  <2>2. \A s \in 0 .. d - 1 : s \in 0 .. n - 1 /\ ~ (d <= s)
    BY <1>4, <2>1
  <2>3. \A s \in 0 .. d - 1 : fresh[Position(g, s, n)].state # 0
    BY <1>11, <2>2 DEF Room, d
  <2> QED
    BY <2>1, <2>3
<1> HIDE DEF d, R
<1>14. p \in 0 .. n - 1
  BY <1>4, <1>6, <1>13, EverySlotIsProbed
<1>15. Reachable(fresh, n, hash[k], p)
  BY <1>6, <1>13 DEF Reachable
<1> HIDE DEF p
<1>16. ASSUME NEW j \in Full(fresh), fresh[j].key = k PROVE FALSE
  <2>1. fresh[j] \in EntriesOf(slots, Before)
    BY <1>3 DEF Records, EntriesOf
  <2>2. PICK m \in Before : fresh[j] = slots[m]
    BY <2>1 DEF EntriesOf
  <2>3. m \in Full(slots) /\ m < moved /\ m \in Nat
    <3>1. m \in Full(slots) /\ m < moved
      BY DEF Before
    <3> QED
      BY <3>1, ShapeFacts DEF TableInv
  <2>4. m = i
    BY <1>2, <1>4, <1>16, <2>2, <2>3 DEF UniqueKeys, k
  <2> QED
    BY <1>2, <1>4, <2>3, <2>4
<1>17. fresh' = Updated(fresh, p, EntryOf(hash, k, v)) /\ fresh[p].state # 1
  BY <1>6, <1>12, <1>13
<1>18. /\ IsTable(fresh', n, hash) /\ UniqueKeys(fresh') /\ Chained(fresh', n)
       /\ Full(fresh') = Full(fresh) \cup {p} /\ Tombs(fresh') = Tombs(fresh) \ {p}
       /\ fresh'[p] = EntryOf(hash, k, v) /\ \A j \in Full(fresh) : fresh'[j] = fresh[j]
  <2>1. \A j \in Full(fresh) : fresh[j].key # k
    BY <1>16
  <2>2. k \in DOMAIN hash /\ v \in Values
    BY <1>6
  <2> QED
    BY <1>3, <1>4, <1>14, <1>15, <1>17, <2>1, <2>2, PutEntry
<1>19. Records(fresh') = EntriesOf(slots, Before \cup {i})
  <2>1. Records(fresh') = Records(fresh) \cup {slots[i]}
    BY <1>6, <1>18 DEF Records, EntriesOf
  <2> QED
    BY <1>3, <2>1 DEF EntriesOf
<1>20. Growing'
  <2>1. moved' \in 0 .. cap /\ Tombs(fresh') = {}
    <3>1. cap \in Nat
      BY ShapeFacts DEF TableInv
    <3>2. Tombs(fresh') = {}
      BY <1>3, <1>18
    <3>3. moved' = i + 1 /\ i \in 0 .. cap - 1
      BY <1>2, <1>12
    <3> QED
      BY <3>1, <3>2, <3>3
  <2>2. Records(fresh') = EntriesOf(slots', {j \in Full(slots') : j < moved'})
    BY <1>1, <1>2, <1>12, <1>19
  <2> QED
    BY <1>1, <1>3, <1>18, <2>1, <2>2 DEF Growing
<1>21. Shape' /\ Exact'
  BY <1>1 DEF TableInv, Shape, Exact
<1>22. Iterating'
  BY <1>1 DEF MoveSlot, TableInv, Iterating
<1>23. Due'
  BY <1>1 DEF MoveSlot, TableInv, Due, InFlight
<1> QED
  BY <1>20, <1>21, <1>22, <1>23 DEF TableInv

LEMMA FinishGrowStep ==
  ASSUME TableInv, FinishGrow
  PROVE  TableInv' /\ Records(slots') = Records(slots)
<1> USE DEF iterator, ledgers
<1>1. /\ pc = "growing" /\ Waiting = {} /\ pc' = "placing" /\ pending' = pending /\ hash' = hash
      /\ slots' = fresh /\ len' = len /\ tombstones' = 0 /\ moved' = 0
      /\ cap' = Cardinality(DOMAIN fresh)
  BY DEF FinishGrow
<1>2. {j \in Full(slots) : j < moved} = Full(slots)
  <2>1. \A j \in Full(slots) : j \in Nat /\ moved \in Nat /\ ~ (j >= moved)
    BY <1>1, ShapeFacts DEF TableInv, Growing, Waiting
  <2> QED
    BY <2>1
<1>3. PICK n \in Sizes :
         /\ IsTable(fresh, n, hash) /\ UniqueKeys(fresh) /\ Chained(fresh, n) /\ Tombs(fresh) = {}
         /\ len + 1 < n
         /\ Records(fresh) = Records(slots)
  BY <1>1, <1>2 DEF TableInv, Growing, Records
<1>4. n \in Nat \ {0} /\ UniqueKeys(slots) /\ len \in Nat /\ cap \in Nat
  BY SizeFacts, ShapeFacts DEF TableInv, Shape
<1>5. cap' = n
  <2>1. DOMAIN fresh = 0 .. n - 1
    BY <1>3 DEF IsTable
  <2>2. Cardinality(0 .. n - 1) = n
    BY <1>4, FS_Interval
  <2> QED
    BY <1>1, <2>1, <2>2
<1>6. IsFiniteSet(Full(slots)) /\ IsFiniteSet(Full(fresh))
  <2>1. TableProps(fresh, n, hash)
    BY <1>3, <1>4, TableFacts
  <2> QED
    BY <2>1, ShapeFacts DEF TableInv, TableProps
<1>7. /\ Cardinality(Full(fresh)) = Cardinality(Full(slots))
      /\ \A k : Cardinality(With(fresh, k)) = Cardinality(With(slots, k))
      /\ \A v : Cardinality(Holding(fresh, v)) = Cardinality(Holding(slots, v))
  <2>1. Records(fresh) = EntriesOf(slots, Full(slots)) /\ Full(slots) \in SUBSET Full(slots)
    BY <1>3 DEF Records
  <2>2. /\ Cardinality(Full(fresh)) = Cardinality(Full(slots))
        /\ \A k : Cardinality(With(fresh, k)) = Cardinality({i \in Full(slots) : slots[i].key = k})
        /\ \A v : Cardinality(Holding(fresh, v)) = Cardinality({i \in Full(slots) : slots[i].value = v})
    BY <1>3, <1>4, <1>6, <2>1, CountSame
  <2> QED
    BY <2>2 DEF With, Holding
<1>8. Shape'
  BY <1>1, <1>3, <1>5 DEF TableInv, Shape
<1>9. Exact'
  <2>1. len = Cardinality(Full(slots))
    BY <1>1 DEF TableInv, Exact
  <2>2. Cardinality(Tombs(fresh)) = 0
    BY <1>3, FS_EmptySet
  <2> QED
    BY <1>1, <1>3, <1>4, <1>5, <1>7, <2>1, <2>2 DEF Exact
<1>10. Growing'
  BY <1>1, <1>4, <1>5 DEF Growing
<1>11. Iterating'
  BY <1>1, <1>4, <1>5 DEF FinishGrow, TableInv, Iterating
<1>12. Due'
  BY <1>1, <1>7 DEF FinishGrow, TableInv, Due, InFlight
<1> QED
  BY <1>1, <1>3, <1>8, <1>9, <1>10, <1>11, <1>12 DEF TableInv

\* The entry that an insertion places: a new value, or a new entry.
LEMMA PlaceFacts ==
  ASSUME TableInv, Place, NEW k, NEW v, pending = <<k, v>>
  PROVE  /\ pc = "placing" /\ pc' = "idle" /\ pending' = Nothing /\ hash' = hash /\ cap' = cap
         /\ k \in DOMAIN hash /\ k \in Keys /\ v \in Values
         /\ UNCHANGED <<growth, iterator>>
         /\ Find(k).found => /\ Find(k).at \in Full(slots) /\ slots[Find(k).at].key = k
                             /\ ReplaceValue(Find(k).at, k, v)
         /\ ~ Find(k).found => /\ PlaceEntry(Find(k).at, k, v)
                               /\ \A j \in Full(slots) : slots[j].key # k
                               /\ Find(k).at \in 0 .. cap - 1 /\ slots[Find(k).at].state # 1
                               /\ Reachable(slots, cap, hash[k], Find(k).at)
<1>1. /\ pc = "placing" /\ pc' = "idle" /\ pending' = Nothing /\ hash' = hash /\ UNCHANGED <<growth, iterator>>
      /\ IF Find(pending[1]).found THEN ReplaceValue(Find(pending[1]).at, pending[1], pending[2])
         ELSE PlaceEntry(Find(pending[1]).at, pending[1], pending[2])
  BY DEF Place
<1>2. pending[1] = k /\ pending[2] = v
  OBVIOUS
<1>3. k \in DOMAIN hash /\ v \in Values
  <2>1. PICK k1 \in DOMAIN hash, v1 \in Values : pending = <<k1, v1>>
    BY <1>1 DEF TableInv, Shape
  <2> QED
    BY <2>1
<1>4. k \in Keys
  BY <1>3, ShapeFacts DEF TableInv, Hashes
<1>5. cap' = cap
  BY <1>1 DEF ReplaceValue, PlaceEntry
<1>6. Find(k).found => Find(k).at \in Full(slots) /\ slots[Find(k).at].key = k
  BY <1>1, <1>3, FoundFacts
<1>7. ~ Find(k).found => /\ \A j \in Full(slots) : slots[j].key # k
                         /\ Find(k).at \in 0 .. cap - 1 /\ slots[Find(k).at].state # 1
                         /\ Reachable(slots, cap, hash[k], Find(k).at)
  <2> SUFFICES ASSUME ~ Find(k).found
               PROVE  /\ \A j \in Full(slots) : slots[j].key # k
                      /\ Find(k).at \in 0 .. cap - 1 /\ slots[Find(k).at].state # 1
                      /\ Reachable(slots, cap, hash[k], Find(k).at)
    OBVIOUS
  <2>1. \A j \in Full(slots) : slots[j].key # k
    BY <1>1, <1>3, FoundFacts
  <2>2. /\ Hashes(hash) /\ cap \in Nat \ {0} /\ IsTable(slots, cap, hash)
        /\ Cardinality(Full(slots)) + Cardinality(Tombs(slots)) < cap
    BY <1>1, ShapeFacts DEF TableInv, Shape, Exact
  <2>3. \E i \in 0 .. cap - 1 : slots[i].state = 0
    BY <2>2, EmptySlotExists
  <2> QED
    BY <1>3, <2>1, <2>2, <2>3, FindVacant
<1>8. /\ Find(k).found => ReplaceValue(Find(k).at, k, v)
      /\ ~ Find(k).found => PlaceEntry(Find(k).at, k, v)
  BY <1>1, <1>2
<1> QED
  BY <1>1, <1>3, <1>4, <1>5, <1>6, <1>7, <1>8

LEMMA PlaceStep ==
  ASSUME TableInv, Place
  PROVE  TableInv'
<1> USE DEF growth, iterator
<1>1. pc = "placing"
  BY DEF Place
<1>2. PICK k \in DOMAIN hash, v \in Values : pending = <<k, v>>
  BY <1>1 DEF TableInv, Shape
<1> DEFINE i == Find(k).at
<1>3. /\ pc' = "idle" /\ pending' = Nothing /\ hash' = hash /\ cap' = cap
      /\ k \in Keys /\ UNCHANGED <<growth, iterator>>
  BY <1>2, PlaceFacts
<1>4. /\ Hashes(hash) /\ cap \in Nat \ {0} /\ IsTable(slots, cap, hash) /\ UniqueKeys(slots) /\ Chained(slots, cap)
      /\ IsFiniteSet(Full(slots)) /\ IsFiniteSet(Tombs(slots))
      /\ len = Cardinality(Full(slots)) /\ tombstones = Cardinality(Tombs(slots))
      /\ len \in Nat /\ tombstones \in Nat
      /\ len + tombstones + 1 < cap
  BY <1>1, ShapeFacts DEF TableInv, TableProps, Shape, Exact
<1>5. /\ InFlight(1)' = {} /\ InFlight(2)' = {}
      /\ InFlight(1) = {k} /\ InFlight(2) = {v}
  BY <1>2, <1>3 DEF InFlight, Nothing
<1>6. /\ dueKeys \in [Keys -> Int] /\ dueValues \in [Values -> Int]
      /\ \A j \in Keys : dueKeys[j] = Cardinality(With(slots, j)) + (IF j = k THEN 1 ELSE 0)
      /\ \A w \in Values : dueValues[w] = Cardinality(Holding(slots, w)) + (IF w = v THEN 1 ELSE 0)
  BY <1>5 DEF TableInv, Due
<1>7. /\ \A j : Cardinality(With(slots, j)) \in Nat
      /\ \A w : Cardinality(Holding(slots, w)) \in Nat
  <2> SUFFICES ASSUME NEW j
               PROVE  Cardinality(With(slots, j)) \in Nat /\ Cardinality(Holding(slots, j)) \in Nat
    OBVIOUS
  <2>1. With(slots, j) \in SUBSET Full(slots) /\ Holding(slots, j) \in SUBSET Full(slots)
    BY DEF With, Holding
  <2> QED
    BY <1>4, <2>1, FS_Subset, FS_CardinalityType
<1>8. Growing'
  BY <1>3, <1>1 DEF TableInv, Growing
<1>9. Iterating'
  BY <1>1, <1>3 DEF TableInv, Iterating
<1>10. CASE Find(k).found
  <2>1. /\ i \in Full(slots) /\ slots[i].key = k
    BY <1>2, <1>10, PlaceFacts
  <2>2. ReplaceValue(i, k, v)
    BY <1>2, <1>10, PlaceFacts
  <2> DEFINE old == slots[i].value
  <2>3. /\ slots' = Revalued(slots, i, v) /\ len' = len /\ tombstones' = tombstones
        /\ dueKeys' = [dueKeys EXCEPT ![k] = @ - 1] /\ dueValues' = [dueValues EXCEPT ![old] = @ - 1]
    BY <2>2 DEF ReplaceValue, Revalued
  <2>4. old \in Values
    BY <2>1, ShapeFacts DEF TableInv, TableProps
  <2> HIDE DEF i
  <2>5. /\ IsTable(slots', cap, hash) /\ UniqueKeys(slots') /\ Chained(slots', cap)
        /\ Full(slots') = Full(slots) /\ Tombs(slots') = Tombs(slots)
        /\ slots'[i] = EntryOf(hash, slots[i].key, v)
        /\ \A j \in Full(slots) : j # i => slots'[j] = slots[j]
        /\ \A j \in Full(slots) : slots'[j].key = slots[j].key
    BY <1>4, <2>1, <2>3, ReplaceEntry
  <2>6. Shape'
    BY <1>3, <1>4, <2>3, <2>5 DEF TableInv, Shape
  <2>7. Exact'
    BY <1>3, <1>4, <2>3, <2>5 DEF Exact
  <2>8. Due'
    <3>1. slots'[i].value = v
      BY <2>5 DEF EntryOf
    <3>2. /\ \A j : With(slots', j) = With(slots, j)
          /\ \A w : Cardinality(Holding(slots', w)) = Cardinality(Holding(slots, w)) + (IF w = v THEN 1 ELSE 0)
                                                        - (IF w = old THEN 1 ELSE 0)
      BY <1>4, <2>1, <2>5, <3>1, CountExchanged
    <3> HIDE DEF old
    <3>3. \A f \in [Keys -> Int] : [f EXCEPT ![k] = @ - 1] \in [Keys -> Int]
      BY <1>3
    <3>4. \A f \in [Values -> Int] : [f EXCEPT ![old] = @ - 1] \in [Values -> Int]
      BY <2>4
    <3>5. dueKeys' \in [Keys -> Int] /\ dueValues' \in [Values -> Int]
      BY <1>6, <2>3, <3>3, <3>4
    <3>6. \A j \in Keys : dueKeys'[j] = Cardinality(With(slots', j)) + (IF j \in InFlight(1)' THEN 1 ELSE 0)
      BY <1>5, <1>6, <1>7, <2>3, <3>2
    <3>7. \A w \in Values : dueValues'[w] = Cardinality(Holding(slots', w)) + (IF w \in InFlight(2)' THEN 1 ELSE 0)
      BY <1>5, <1>6, <1>7, <2>3, <2>4, <3>2
    <3> QED
      BY <3>5, <3>6, <3>7 DEF Due
  <2> QED
    BY <1>8, <1>9, <2>6, <2>7, <2>8 DEF TableInv
<1>11. CASE ~ Find(k).found
  <2>1. /\ \A j \in Full(slots) : slots[j].key # k
        /\ i \in 0 .. cap - 1 /\ slots[i].state # 1
        /\ Reachable(slots, cap, hash[k], i)
    BY <1>2, <1>11, PlaceFacts
  <2>2. PlaceEntry(i, k, v)
    BY <1>2, <1>11, PlaceFacts
  <2>3. /\ slots' = Updated(slots, i, EntryOf(hash, k, v)) /\ len' = len + 1
        /\ tombstones' = IF slots[i].state = 2 THEN tombstones - 1 ELSE tombstones
        /\ dueKeys' = dueKeys /\ dueValues' = dueValues
    BY <2>2 DEF PlaceEntry, Updated, EntryOf, Entry, ledgers
  <2> HIDE DEF i
  <2>4. /\ IsTable(slots', cap, hash) /\ UniqueKeys(slots') /\ Chained(slots', cap)
        /\ Full(slots') = Full(slots) \cup {i} /\ Tombs(slots') = Tombs(slots) \ {i} /\ i \notin Full(slots)
        /\ slots'[i] = EntryOf(hash, k, v) /\ \A j \in Full(slots) : slots'[j] = slots[j]
    BY <1>2, <1>4, <2>1, <2>3, PutEntry
  <2>5. /\ Cardinality(Full(slots')) = len + 1
        /\ \A j : Cardinality(With(slots', j)) = Cardinality(With(slots, j)) + (IF slots'[i].key = j THEN 1 ELSE 0)
        /\ \A w : Cardinality(Holding(slots', w)) = Cardinality(Holding(slots, w)) + (IF slots'[i].value = w THEN 1 ELSE 0)
    <3>1. /\ IsFiniteSet(Full(slots)) /\ i \notin Full(slots) /\ Full(slots') = Full(slots) \cup {i}
          /\ \A j \in Full(slots) : slots'[j] = slots[j]
      BY <1>4, <2>4
    <3>2. Cardinality(Full(slots')) = Cardinality(Full(slots)) + 1
      BY <3>1, CountMore
    <3>3. \A j : Cardinality(With(slots', j)) = Cardinality(With(slots, j)) + (IF slots'[i].key = j THEN 1 ELSE 0)
      BY <3>1, CountMore
    <3>4. \A w : Cardinality(Holding(slots', w)) = Cardinality(Holding(slots, w)) + (IF slots'[i].value = w THEN 1 ELSE 0)
      BY <3>1, CountMore
    <3> QED
      BY <1>4, <3>2, <3>3, <3>4
  <2>6. slots'[i].key = k /\ slots'[i].value = v
    BY <2>4 DEF EntryOf
  <2>7. Cardinality(Tombs(slots')) = tombstones' /\ tombstones' \in Nat /\ tombstones' <= tombstones
    <3>1. i \in Tombs(slots) <=> slots[i].state = 2
      <4>1. i \in DOMAIN slots
        BY <1>4, <2>1 DEF IsTable
      <4> QED
        BY <4>1 DEF Tombs
    <3>2. CASE i \in Tombs(slots)
      <4>1. Cardinality(Tombs(slots) \ {i}) = Cardinality(Tombs(slots)) - 1 /\ Cardinality(Tombs(slots) \ {i}) \in Nat
        <5>1. IsFiniteSet(Tombs(slots) \ {i})
          BY <1>4, FS_Subset
        <5> QED
          BY <1>4, <3>2, <5>1, FS_RemoveElement, FS_CardinalityType
      <4> QED
        BY <1>4, <2>3, <2>4, <3>1, <3>2, <4>1
    <3>3. CASE i \notin Tombs(slots)
      <4>1. Tombs(slots) \ {i} = Tombs(slots)
        BY <3>3
      <4> QED
        BY <1>4, <2>3, <2>4, <3>1, <3>3, <4>1
    <3> QED
      BY <3>2, <3>3
  <2>8. Shape'
    BY <1>3, <1>4, <2>3, <2>4, <2>7 DEF TableInv, Shape
  <2>9. Exact'
    BY <1>3, <1>4, <2>3, <2>4, <2>5, <2>7 DEF Exact
  <2>10. Due'
    <3>1. \A j \in Keys : dueKeys'[j] = Cardinality(With(slots', j)) + (IF j \in InFlight(1)' THEN 1 ELSE 0)
      BY <1>5, <1>6, <1>7, <2>3, <2>5, <2>6
    <3>2. \A w \in Values : dueValues'[w] = Cardinality(Holding(slots', w)) + (IF w \in InFlight(2)' THEN 1 ELSE 0)
      BY <1>5, <1>6, <1>7, <2>3, <2>5, <2>6
    <3> QED
      BY <1>6, <2>3, <3>1, <3>2 DEF Due
  <2> QED
    BY <1>8, <1>9, <2>8, <2>9, <2>10 DEF TableInv
<1> QED
  BY <1>10, <1>11

LEMMA StepPreserves == TableInv /\ [Next]_vars => TableInv'
<1> SUFFICES ASSUME TableInv, [Next]_vars PROVE TableInv'
  OBVIOUS
<1>1. CASE UNCHANGED vars
  BY <1>1, AnswerStep DEF vars
<1>2. ASSUME NEW capacity \in Capacities, Create(capacity) PROVE TableInv'
  BY <1>2, CreateStep
<1>3. CASE MoveSlot
  BY <1>3, MoveSlotStep
<1>4. CASE FinishGrow
  BY <1>4, FinishGrowStep
<1>5. CASE Place
  BY <1>5, PlaceStep
<1>6. CASE TakeAnswer
  BY <1>6, AnswerStep DEF TakeAnswer
<1>7. CASE Length
  BY <1>7, AnswerStep DEF Length
<1>8. CASE Clear
  BY <1>8, ClearStep
<1>9. CASE NextEntry
  BY <1>9, NextEntryStep
<1>10. CASE EndIteration
  BY <1>10, EndIterationStep
<1>11. CASE DropTable
  BY <1>11, DropTableStep
<1>12. ASSUME NEW how \in {"iterating", "consuming"}, Iterate(how) PROVE TableInv'
  BY <1>12, IterateStep
<1>13. ASSUME NEW k \in DOMAIN hash, Lookup(k) PROVE TableInv'
  BY <1>13, AnswerStep DEF Lookup
<1>14. ASSUME NEW k \in DOMAIN hash, Remove(k) PROVE TableInv'
  BY <1>14, RemoveStep
<1>15. ASSUME NEW k \in DOMAIN hash, NEW v \in Values, BeginInsert(k, v) PROVE TableInv'
  BY <1>15, BeginInsertStep
<1>16. ASSUME NEW k \in DOMAIN hash, NEW v \in Values, Exchange(k, v) PROVE TableInv'
  BY <1>16, ExchangeStep
<1> QED
  BY <1>1, <1>2, <1>3, <1>4, <1>5, <1>6, <1>7, <1>8, <1>9, <1>10, <1>11, <1>12, <1>13, <1>14, <1>15, <1>16
     DEF Next, Insertion

LEMMA InvariantHolds == Spec => []TableInv
BY InitEstablishes, StepPreserves, PTL DEF Spec

(***************************************************************************)
(* The type of the table: its counters, positions and capacity stay in     *)
(* their ranges, and a capacity is 0 or a power of two from 8 up, whatever *)
(* is inserted and however the keys hash.                                  *)
(***************************************************************************)
THEOREM TableIsWellTyped == Spec => []TableTypeOK
BY InvariantHolds, InvImpliesType, PTL

(***************************************************************************)
(* The counters are exact and an empty slot is left whenever an operation  *)
(* may search, so that no search goes round for ever (raw_table.ln counts  *)
(* tombstones as load).                                                    *)
(***************************************************************************)
THEOREM RoomIsAlwaysLeft == Spec => []RoomIsLeft
BY InvariantHolds, InvImpliesRoom, PTL

(***************************************************************************)
(* The search for a key ends at its one entry: no removal, reuse of a      *)
(* tombstone, wrap-around or growth breaks the chain that leads to it.     *)
(***************************************************************************)
THEOREM EntriesStayReachable == Spec => []EntriesAreReachable
BY InvariantHolds, InvImpliesReachable, PTL

(***************************************************************************)
(* The search for a slot in the new storage ends: while an old entry is    *)
(* waiting to be moved there is an empty slot on the way from its home, so *)
(* that the loop of a growth never goes round for ever.                    *)
(***************************************************************************)
THEOREM RehashingFindsRoom ==
  Spec => [](pc = "growing" /\ Waiting # {}
             => Room(slots[LeastOf(Waiting)].hash, Cardinality(DOMAIN fresh)) # {})
<1>1. TableInv => (pc = "growing" /\ Waiting # {}
                   => Room(slots[LeastOf(Waiting)].hash, Cardinality(DOMAIN fresh)) # {})
  BY RoomToMove
<1> QED
  BY <1>1, InvariantHolds, PTL

(***************************************************************************)
(* Every key and value the table was given is stored, in flight, or was    *)
(* dropped or handed back exactly once.                                    *)
(***************************************************************************)
THEOREM NothingIsLostOrDroppedTwice == Spec => []NothingLeaksOrDropsTwice
BY InvariantHolds, InvImpliesNoLeak, PTL

-----------------------------------------------------------------------------
(* The table implements a map.                                             *)

\* What a table maps, in terms of its slots.
LEMMA TableMap ==
  ASSUME NEW T, UniqueKeys(T)
  PROVE  /\ DOMAIN MapOf(Records(T)) = {T[i].key : i \in Full(T)}
         /\ \A i \in Full(T) : T[i].key \in DOMAIN MapOf(Records(T)) /\ MapOf(Records(T))[T[i].key] = T[i].value
         /\ MapOf(Records(T)) = [k \in DOMAIN MapOf(Records(T)) |-> MapOf(Records(T))[k]]
<1>1. Distinct(Records(T))
  BY RecordsAreDistinct
<1>2. \A i \in Full(T) : T[i] \in Records(T)
  BY DEF Records, EntriesOf
<1>3. /\ DOMAIN MapOf(Records(T)) = {s.key : s \in Records(T)}
      /\ \A s \in Records(T) : s.key \in DOMAIN MapOf(Records(T)) /\ MapOf(Records(T))[s.key] = s.value
  BY <1>1, MapOfFacts
<1>4. {s.key : s \in Records(T)} = {T[i].key : i \in Full(T)}
  BY DEF Records, EntriesOf
<1>5. MapOf(Records(T)) = [k \in DOMAIN MapOf(Records(T)) |-> MapOf(Records(T))[k]]
  BY DEF MapOf
<1> QED
  BY <1>2, <1>3, <1>4, <1>5

\* f is the function on D with the keys and values of the table.
Describes(f, D, T) ==
  /\ f = [k \in D |-> f[k]]
  /\ \A i \in Full(T) : T[i].key \in D /\ f[T[i].key] = T[i].value
  /\ \A k \in D : \E i \in Full(T) : T[i].key = k

LEMMA TableMapIs ==
  ASSUME NEW T, UniqueKeys(T), NEW D, NEW f, Describes(f, D, T)
  PROVE  MapOf(Records(T)) = f
<1> USE DEF Describes
<1>1. Distinct(Records(T))
  BY RecordsAreDistinct
<1>2. \A s \in Records(T) : s.key \in D /\ f[s.key] = s.value
  BY DEF Records, EntriesOf
<1>3. \A k \in D : \E s \in Records(T) : s.key = k
  BY DEF Records, EntriesOf
<1> QED
  BY <1>1, <1>2, <1>3, MapOfIs

\* A table without entries.
LEMMA EmptyTableMap ==
  ASSUME NEW T, Full(T) = {}
  PROVE  MapOf(Records(T)) = Map!EmptyMap
<1>1. Records(T) = {}
  BY DEF Records, EntriesOf
<1> QED
  BY <1>1 DEF MapOf, Map!EmptyMap

\* A new entry.
LEMMA PutMap ==
  ASSUME NEW T, UniqueKeys(T), NEW U, UniqueKeys(U), NEW i, NEW k, NEW v,
         Full(U) = Full(T) \cup {i}, U[i].key = k, U[i].value = v, i \notin Full(T),
         \A j \in Full(T) : U[j] = T[j], \A j \in Full(T) : T[j].key # k
  PROVE  /\ MapOf(Records(U)) = [j \in DOMAIN MapOf(Records(T)) \cup {k} |-> IF j = k THEN v ELSE MapOf(Records(T))[j]]
         /\ k \notin DOMAIN MapOf(Records(T))
<1> DEFINE M == MapOf(Records(T))
           D == DOMAIN M \cup {k}
           f == [j \in D |-> IF j = k THEN v ELSE M[j]]
<1>1. /\ DOMAIN M = {T[j].key : j \in Full(T)}
      /\ \A j \in Full(T) : T[j].key \in DOMAIN M /\ M[T[j].key] = T[j].value
  BY TableMap
<1> HIDE DEF M
<1>2. f = [j \in D |-> f[j]]
  OBVIOUS
<1>3. \A j \in Full(U) : U[j].key \in D /\ f[U[j].key] = U[j].value
  <2> SUFFICES ASSUME NEW j \in Full(U) PROVE U[j].key \in D /\ f[U[j].key] = U[j].value
    OBVIOUS
  <2>1. CASE j = i
    BY <2>1
  <2>2. CASE j # i
    <3>1. j \in Full(T) /\ U[j] = T[j] /\ T[j].key # k /\ T[j].key \in DOMAIN M /\ M[T[j].key] = T[j].value
      BY <1>1, <2>2
    <3> QED
      BY <3>1
  <2> QED
    BY <2>1, <2>2
<1>4. \A j \in D : \E m \in Full(U) : U[m].key = j
  BY <1>1
<1>5. k \notin DOMAIN M
  BY <1>1
<1> HIDE DEF D, f
<1>6. MapOf(Records(U)) = f
  <2>1. Describes(f, D, U)
    BY <1>2, <1>3, <1>4 DEF Describes
  <2> QED
    BY <2>1, TableMapIs
<1> QED
  BY <1>5, <1>6 DEF f, D, M

\* An entry with another value.
LEMMA ReplaceMap ==
  ASSUME NEW T, UniqueKeys(T), NEW U, UniqueKeys(U), NEW i \in Full(T), NEW k, NEW v,
         Full(U) = Full(T), U[i].key = k, U[i].value = v, T[i].key = k,
         \A j \in Full(T) : j # i => U[j] = T[j]
  PROVE  /\ MapOf(Records(U)) = [j \in DOMAIN MapOf(Records(T)) |-> IF j = k THEN v ELSE MapOf(Records(T))[j]]
         /\ k \in DOMAIN MapOf(Records(T)) /\ MapOf(Records(T))[k] = T[i].value
<1> DEFINE M == MapOf(Records(T))
           D == DOMAIN M
           f == [j \in D |-> IF j = k THEN v ELSE M[j]]
<1>1. /\ DOMAIN M = {T[j].key : j \in Full(T)}
      /\ \A j \in Full(T) : T[j].key \in DOMAIN M /\ M[T[j].key] = T[j].value
  BY TableMap
<1> HIDE DEF M
<1>2. f = [j \in D |-> f[j]]
  OBVIOUS
<1>3. \A j \in Full(U) : U[j].key \in D /\ f[U[j].key] = U[j].value
  <2> SUFFICES ASSUME NEW j \in Full(U) PROVE U[j].key \in D /\ f[U[j].key] = U[j].value
    OBVIOUS
  <2>1. CASE j = i
    BY <1>1, <2>1
  <2>2. CASE j # i
    <3>1. j \in Full(T) /\ U[j] = T[j] /\ T[j].key # k /\ T[j].key \in DOMAIN M /\ M[T[j].key] = T[j].value
      BY <1>1, <2>2 DEF UniqueKeys
    <3> QED
      BY <3>1
  <2> QED
    BY <2>1, <2>2
<1>4. \A j \in D : \E m \in Full(U) : U[m].key = j
  <2> SUFFICES ASSUME NEW j \in D PROVE \E m \in Full(U) : U[m].key = j
    OBVIOUS
  <2>1. PICK m \in Full(T) : T[m].key = j
    BY <1>1
  <2> QED
    BY <2>1
<1>5. k \in DOMAIN M /\ M[k] = T[i].value
  BY <1>1
<1> HIDE DEF D, f
<1>6. MapOf(Records(U)) = f
  <2>1. Describes(f, D, U)
    BY <1>2, <1>3, <1>4 DEF Describes
  <2> QED
    BY <2>1, TableMapIs
<1> QED
  BY <1>5, <1>6 DEF f, D, M

\* An entry less.
LEMMA DeleteMap ==
  ASSUME NEW T, UniqueKeys(T), NEW U, UniqueKeys(U), NEW i \in Full(T), NEW k,
         Full(U) = Full(T) \ {i}, T[i].key = k, \A j \in Full(T) \ {i} : U[j] = T[j]
  PROVE  /\ MapOf(Records(U)) = [j \in DOMAIN MapOf(Records(T)) \ {k} |-> MapOf(Records(T))[j]]
         /\ k \in DOMAIN MapOf(Records(T)) /\ MapOf(Records(T))[k] = T[i].value
<1> DEFINE M == MapOf(Records(T))
           D == DOMAIN M \ {k}
           f == [j \in D |-> M[j]]
<1>1. /\ DOMAIN M = {T[j].key : j \in Full(T)}
      /\ \A j \in Full(T) : T[j].key \in DOMAIN M /\ M[T[j].key] = T[j].value
  BY TableMap
<1> HIDE DEF M
<1>2. f = [j \in D |-> f[j]]
  OBVIOUS
<1>3. \A j \in Full(U) : U[j].key \in D /\ f[U[j].key] = U[j].value
  <2> SUFFICES ASSUME NEW j \in Full(U) PROVE U[j].key \in D /\ f[U[j].key] = U[j].value
    OBVIOUS
  <2>1. j \in Full(T) /\ j # i /\ U[j] = T[j] /\ T[j].key # k /\ T[j].key \in DOMAIN M /\ M[T[j].key] = T[j].value
    BY <1>1 DEF UniqueKeys
  <2> QED
    BY <2>1
<1>4. \A j \in D : \E m \in Full(U) : U[m].key = j
  <2> SUFFICES ASSUME NEW j \in D PROVE \E m \in Full(U) : U[m].key = j
    OBVIOUS
  <2>1. PICK m \in Full(T) : T[m].key = j
    BY <1>1
  <2> QED
    BY <2>1
<1>5. k \in DOMAIN M /\ M[k] = T[i].value
  BY <1>1
<1> HIDE DEF D, f
<1>6. MapOf(Records(U)) = f
  <2>1. Describes(f, D, U)
    BY <1>2, <1>3, <1>4 DEF Describes
  <2> QED
    BY <2>1, TableMapIs
<1> QED
  BY <1>5, <1>6 DEF f, D, M

\* What the refinement mapping makes of a state.
LEMMA MappedState ==
  ASSUME TableInv
  PROVE  /\ Contents = MapOf(Records(slots)) /\ UniqueKeys(slots)
         /\ DOMAIN Contents = {slots[i].key : i \in Full(slots)}
         /\ \A i \in Full(slots) : slots[i].key \in DOMAIN Contents /\ Contents[slots[i].key] = slots[i].value
         /\ Contents = [k \in DOMAIN Contents |-> Contents[k]]
         /\ Cardinality(DOMAIN Contents) = Cardinality(Full(slots))
         /\ IsFiniteSet(Full(slots))
<1>1. Contents = MapOf(Records(slots)) /\ UniqueKeys(slots) /\ IsFiniteSet(Full(slots))
  BY ContentsRecords, ShapeFacts DEF TableInv, Shape, TableProps
<1>2. /\ DOMAIN Contents = {slots[i].key : i \in Full(slots)}
      /\ \A i \in Full(slots) : slots[i].key \in DOMAIN Contents /\ Contents[slots[i].key] = slots[i].value
      /\ Contents = [k \in DOMAIN Contents |-> Contents[k]]
  BY <1>1, TableMap
<1>3. Cardinality({slots[i].key : i \in Full(slots)}) = Cardinality(Full(slots))
  BY <1>1, CountEntries
<1> QED
  BY <1>1, <1>2, <1>3

LEMMA MappedNext == (TableInv => Contents = MapOf(Records(slots)) /\ UniqueKeys(slots) /\ cap \in Nat)'
<1>1. TableInv => Contents = MapOf(Records(slots)) /\ UniqueKeys(slots) /\ cap \in Nat
  BY MappedState, ShapeFacts DEF TableInv
<1> QED
  BY <1>1, PTL

LEMMA MappedFacts ==
  ASSUME TableInv, TableInv'
  PROVE  /\ Contents = MapOf(Records(slots)) /\ UniqueKeys(slots)
         /\ Contents' = MapOf(Records(slots')) /\ UniqueKeys(slots') /\ cap' \in Nat
         /\ slots' = slots => Contents' = Contents
<1>1. (Contents = MapOf(Records(slots)) /\ UniqueKeys(slots) /\ cap \in Nat)'
  BY MappedNext
<1>2. Contents' = MapOf(Records(slots')) /\ UniqueKeys(slots') /\ cap' \in Nat
  BY <1>1
<1> QED
  BY <1>2, MappedState

LEMMA InitMaps == Init => Map!MapInit
<1> SUFFICES ASSUME Init PROVE Map!MapInit
  OBVIOUS
<1>1. TableInv /\ slots = Vacant(0) /\ pc = "none"
  BY InitEstablishes DEF Init
<1>2. Full(slots) = {}
  BY <1>1, VacantTable
<1>3. Contents = Map!EmptyMap
  BY <1>1, <1>2, MappedState, EmptyTableMap
<1> QED
  BY <1>1, <1>3 DEF Init, Map!MapInit, Mode, Nothing, Map!Nothing

\* Steps that the map does not see.
LEMMA StutterMaps ==
  ASSUME TableInv, TableInv', Records(slots') = Records(slots), Mode' = Mode, UNCHANGED <<visited, answer>>
  PROVE  UNCHANGED Map!mapVars
BY MappedFacts DEF Map!mapVars

LEMMA CreateMaps ==
  ASSUME TableInv, TableInv', NEW capacity \in Capacities, Create(capacity)
  PROVE  Map!Open
<1>1. pc = "none" /\ pc' = "idle" /\ answer' = Nothing /\ visited' = visited /\ slots' = Vacant(Rounded(capacity))
  BY DEF Create, iterator
<1>2. cap' \in Nat /\ slots' = Vacant(cap')
  BY MappedFacts DEF Create
<1>3. Full(slots') = {}
  BY <1>2, VacantTable
<1>4. Full(slots) = {}
  BY <1>1, ShapeFacts DEF TableInv, Shape
<1>5. Contents' = Map!EmptyMap /\ Contents = Map!EmptyMap
  BY <1>3, <1>4, MappedFacts, EmptyTableMap
<1> QED
  BY <1>1, <1>5 DEF Map!Open, Mode, Nothing, Map!Nothing

LEMMA DropTableMaps ==
  ASSUME TableInv, TableInv', DropTable
  PROVE  Map!Close
<1>1. pc \in {"idle", "consuming"} /\ pc' = "none" /\ answer' = Nothing /\ visited' = {} /\ slots' = Vacant(0)
  BY DEF DropTable
<1>2. Full(slots') = {}
  BY <1>1, VacantTable
<1>3. Contents' = Map!EmptyMap
  BY <1>2, MappedFacts, EmptyTableMap
<1> QED
  BY <1>1, <1>3 DEF Map!Close, Mode, Nothing, Map!Nothing

LEMMA ClearMaps ==
  ASSUME TableInv, TableInv', Clear
  PROVE  Map!Empty
<1>1. pc = "idle" /\ pc' = pc /\ answer' = Nothing /\ visited' = visited
  BY DEF Clear, Ready, iterator
<1>2. Full(slots') = {}
  <2>1. CASE len > 0
    <3>1. slots' = Vacant(cap) /\ cap \in Nat
      BY <2>1, ShapeFacts DEF Clear, TableInv
    <3> QED
      BY <3>1, VacantTable
  <2>2. CASE ~ (len > 0)
    <3>1. slots' = slots /\ Cardinality(Full(slots)) = 0 /\ IsFiniteSet(Full(slots))
      BY <1>1, <2>2, MappedState DEF Clear, TableInv, Shape, Exact
    <3> QED
      BY <3>1, FS_EmptySet
  <2> QED
    BY <2>1, <2>2
<1>3. Contents' = Map!EmptyMap
  BY <1>2, MappedFacts, EmptyTableMap
<1> QED
  BY <1>1, <1>3 DEF Map!Empty, Mode, Nothing, Map!Nothing

LEMMA TakeAnswerMaps ==
  ASSUME TableInv, TableInv', TakeAnswer
  PROVE  Map!Forget
<1>1. slots' = slots /\ pc' = pc /\ visited' = visited /\ answer' = Nothing
  BY DEF TakeAnswer, storage, iterator
<1>2. Contents' = Contents
  BY <1>1, MappedFacts
<1> QED
  BY <1>1, <1>2 DEF Map!Forget, Mode, Nothing, Map!Nothing

LEMMA LengthMaps ==
  ASSUME TableInv, TableInv', Length
  PROVE  Map!Size
<1>1. pc = "idle" /\ slots' = slots /\ pc' = pc /\ visited' = visited /\ answer' = <<len>>
  BY DEF Length, Ready, storage, iterator
<1>2. Contents' = Contents
  BY <1>1, MappedFacts
<1>3. len = Cardinality(DOMAIN Contents)
  BY <1>1, MappedState DEF TableInv, Exact
<1> QED
  BY <1>1, <1>2, <1>3 DEF Map!Size, Mode, Map!Cardinality, Cardinality

\* Found says whether the map has the key.
LEMMA FoundMaps ==
  ASSUME TableInv, pc = "idle", NEW k \in DOMAIN hash
  PROVE  /\ k \in Keys
         /\ Found(k) <=> k \in DOMAIN Contents
         /\ Found(k) => /\ Find(k).at \in Full(slots) /\ slots[Find(k).at].key = k
                        /\ Contents[k] = slots[Find(k).at].value
<1>1. k \in Keys
  BY ShapeFacts DEF TableInv, Hashes
<1>2. Find(k).found => Find(k).at \in Full(slots) /\ slots[Find(k).at].key = k /\ len # 0
  BY FoundFacts
<1>3. ~ Find(k).found => \A i \in Full(slots) : slots[i].key # k
  BY FoundFacts
<1>4. /\ DOMAIN Contents = {slots[i].key : i \in Full(slots)}
      /\ \A i \in Full(slots) : slots[i].key \in DOMAIN Contents /\ Contents[slots[i].key] = slots[i].value
  BY MappedState
<1>5. Found(k) <=> Find(k).found
  BY <1>2 DEF Found
<1>6. CASE Find(k).found
  BY <1>1, <1>2, <1>4, <1>5, <1>6
<1>7. CASE ~ Find(k).found
  BY <1>1, <1>3, <1>4, <1>5, <1>7
<1> QED
  BY <1>6, <1>7

LEMMA LookupMaps ==
  ASSUME TableInv, TableInv', NEW k \in DOMAIN hash, Lookup(k)
  PROVE  Map!Get(k)
<1>1. /\ pc = "idle" /\ slots' = slots /\ pc' = pc /\ visited' = visited
      /\ answer' = IF Found(k) THEN <<slots[Find(k).at].value>> ELSE Nothing
  BY DEF Lookup, Ready, storage, iterator
<1>2. Contents' = Contents
  BY <1>1, MappedFacts
<1>3. answer' = IF k \in DOMAIN Contents THEN <<Contents[k]>> ELSE Nothing
  BY <1>1, FoundMaps
<1> QED
  BY <1>1, <1>2, <1>3 DEF Map!Get, Map!At, Mode, Nothing, Map!Nothing

LEMMA PlaceMaps ==
  ASSUME TableInv, TableInv', Place, NEW k \in DOMAIN hash, NEW v \in Values, pending = <<k, v>>
  PROVE  Map!Put(k, v)
<1> DEFINE i == Find(k).at
<1>1. pc = "placing" /\ pc' = "idle" /\ visited' = visited /\ hash' = hash
  BY PlaceFacts DEF iterator
<1>2. Contents = MapOf(Records(slots)) /\ UniqueKeys(slots) /\ Contents' = MapOf(Records(slots')) /\ UniqueKeys(slots')
  BY MappedFacts
<1>3. Hashes(hash) /\ cap \in Nat /\ IsTable(slots, cap, hash) /\ Chained(slots, cap) /\ cap # 0
  BY <1>1, ShapeFacts DEF TableInv, Shape, Exact
<1>4. CASE Find(k).found
  <2>1. i \in Full(slots) /\ slots[i].key = k /\ ReplaceValue(i, k, v)
    BY <1>4, PlaceFacts
  <2> HIDE DEF i
  <2>2. slots' = Revalued(slots, i, v) /\ answer' = <<0>>
    BY <2>1 DEF ReplaceValue, Revalued, Truth
  <2>3. /\ Full(slots') = Full(slots) /\ slots'[i] = EntryOf(hash, slots[i].key, v)
        /\ \A j \in Full(slots) : j # i => slots'[j] = slots[j]
    BY <1>3, <2>1, <2>2, ReplaceEntry
  <2>4. slots'[i].key = k /\ slots'[i].value = v
    BY <2>1, <2>3 DEF EntryOf
  <2>5. /\ Contents' = [j \in DOMAIN Contents |-> IF j = k THEN v ELSE Contents[j]]
        /\ k \in DOMAIN Contents
    BY <1>2, <2>1, <2>3, <2>4, ReplaceMap
  <2>6. DOMAIN Contents = DOMAIN Contents \cup {k}
    BY <2>5
  <2> QED
    BY <1>1, <2>2, <2>5, <2>6 DEF Map!Put, Map!Truth, Mode
<1>5. CASE ~ Find(k).found
  <2>1. /\ \A j \in Full(slots) : slots[j].key # k
        /\ i \in 0 .. cap - 1 /\ slots[i].state # 1
        /\ Reachable(slots, cap, hash[k], i)
        /\ PlaceEntry(i, k, v)
    BY <1>5, PlaceFacts
  <2> HIDE DEF i
  <2>2. slots' = Updated(slots, i, EntryOf(hash, k, v)) /\ answer' = <<1>>
    BY <2>1 DEF PlaceEntry, Updated, EntryOf, Entry, Truth
  <2>3. /\ Full(slots') = Full(slots) \cup {i} /\ i \notin Full(slots)
        /\ slots'[i] = EntryOf(hash, k, v) /\ \A j \in Full(slots) : slots'[j] = slots[j]
    BY <1>2, <1>3, <2>1, <2>2, PutEntry
  <2>4. slots'[i].key = k /\ slots'[i].value = v
    BY <2>3 DEF EntryOf
  <2>5. /\ Contents' = [j \in DOMAIN Contents \cup {k} |-> IF j = k THEN v ELSE Contents[j]]
        /\ k \notin DOMAIN Contents
    <3>1. UniqueKeys(slots) /\ UniqueKeys(slots')
      BY <1>2
    <3>2. \A j \in Full(slots) : slots[j].key # k
      BY <2>1
    <3>3. /\ MapOf(Records(slots'))
                = [j \in DOMAIN MapOf(Records(slots)) \cup {k} |-> IF j = k THEN v ELSE MapOf(Records(slots))[j]]
          /\ k \notin DOMAIN MapOf(Records(slots))
      BY <2>3, <2>4, <3>1, <3>2, PutMap
    <3> QED
      BY <1>2, <3>3
  <2> QED
    BY <1>1, <2>2, <2>5 DEF Map!Put, Map!Truth, Mode
<1> QED
  BY <1>4, <1>5

LEMMA ExchangeMaps ==
  ASSUME TableInv, TableInv', NEW k \in DOMAIN hash, NEW v \in Values, Exchange(k, v)
  PROVE  Map!Change(k, v)
<1> DEFINE i == Find(k).at
<1>1. pc = "idle" /\ pc' = pc /\ visited' = visited /\ hash' = hash
  BY DEF Exchange, Ready, iterator
<1>2. Contents = MapOf(Records(slots)) /\ UniqueKeys(slots) /\ Contents' = MapOf(Records(slots')) /\ UniqueKeys(slots')
  BY MappedFacts
<1>3. Hashes(hash) /\ cap \in Nat /\ IsTable(slots, cap, hash)
  BY ShapeFacts DEF TableInv, Shape
<1>4. CASE Found(k)
  <2>1. i \in Full(slots) /\ slots[i].key = k
    BY <1>1, <1>4, FoundMaps
  <2>2. slots' = Revalued(slots, i, v) /\ answer' = <<slots[i].value>>
    BY <1>4 DEF Exchange, Revalued
  <2> HIDE DEF i
  <2>3. /\ Full(slots') = Full(slots) /\ slots'[i] = EntryOf(hash, slots[i].key, v)
        /\ \A j \in Full(slots) : j # i => slots'[j] = slots[j]
    BY <1>3, <2>1, <2>2, ReplaceEntry
  <2>4. slots'[i].key = k /\ slots'[i].value = v
    BY <2>1, <2>3 DEF EntryOf
  <2>5. /\ Contents' = [j \in DOMAIN Contents |-> IF j = k THEN v ELSE Contents[j]]
        /\ k \in DOMAIN Contents /\ Contents[k] = slots[i].value
    BY <1>2, <2>1, <2>3, <2>4, ReplaceMap
  <2> QED
    BY <1>1, <2>2, <2>5 DEF Map!Change, Map!At, Mode
<1>5. CASE ~ Found(k)
  <2>1. slots' = slots /\ answer' = Nothing
    BY <1>5 DEF Exchange
  <2>2. Contents' = Contents /\ k \notin DOMAIN Contents /\ Contents = [j \in DOMAIN Contents |-> Contents[j]]
    BY <1>1, <1>5, <2>1, MappedFacts, MappedState, FoundMaps
  <2>3. [j \in DOMAIN Contents |-> Contents[j]] = [j \in DOMAIN Contents |-> IF j = k THEN v ELSE Contents[j]]
    BY <2>2
  <2> QED
    BY <1>1, <2>1, <2>2, <2>3 DEF Map!Change, Map!At, Map!Nothing, Nothing, Mode
<1> QED
  BY <1>4, <1>5

LEMMA RemoveMaps ==
  ASSUME TableInv, TableInv', NEW k \in DOMAIN hash, Remove(k)
  PROVE  Map!Delete(k)
<1> DEFINE i == Find(k).at
<1>1. pc = "idle" /\ pc' = pc /\ visited' = visited /\ hash' = hash /\ answer' = <<Truth(Found(k))>>
  BY DEF Remove, Ready, iterator
<1>2. Contents = MapOf(Records(slots)) /\ UniqueKeys(slots) /\ Contents' = MapOf(Records(slots')) /\ UniqueKeys(slots')
  BY MappedFacts
<1>3. Hashes(hash) /\ cap \in Nat /\ IsTable(slots, cap, hash)
  BY ShapeFacts DEF TableInv, Shape
<1>4. CASE Found(k)
  <2>1. i \in Full(slots) /\ slots[i].key = k
    BY <1>1, <1>4, FoundMaps
  <2>2. slots' = Updated(slots, i, Deleted) /\ answer' = <<1>>
    BY <1>1, <1>4 DEF Remove, WithoutEntry, Updated, Truth
  <2> HIDE DEF i
  <2>3. Full(slots') = Full(slots) \ {i} /\ \A j \in Full(slots) \ {i} : slots'[j] = slots[j]
    BY <1>2, <1>3, <2>1, <2>2, DeleteEntry
  <2>4. /\ Contents' = [j \in DOMAIN Contents \ {k} |-> Contents[j]]
        /\ k \in DOMAIN Contents
    BY <1>2, <2>1, <2>3, DeleteMap
  <2> QED
    BY <1>1, <2>2, <2>4 DEF Map!Delete, Map!Truth, Mode
<1>5. CASE ~ Found(k)
  <2>1. slots' = slots /\ answer' = <<0>>
    BY <1>1, <1>5 DEF Remove, Truth
  <2>2. Contents' = Contents /\ k \notin DOMAIN Contents /\ Contents = [j \in DOMAIN Contents |-> Contents[j]]
    BY <1>1, <1>5, <2>1, MappedFacts, MappedState, FoundMaps
  <2>3. DOMAIN Contents \ {k} = DOMAIN Contents
    BY <2>2
  <2> QED
    BY <1>1, <2>1, <2>2, <2>3 DEF Map!Delete, Map!Truth, Mode
<1> QED
  BY <1>4, <1>5

LEMMA IterateMaps ==
  ASSUME TableInv, TableInv', NEW how \in {"iterating", "consuming"}, Iterate(how)
  PROVE  \E by \in {"borrowed", "owned"} : Map!Visit(by)
<1>1. pc = "idle" /\ pc' = how /\ visited' = {} /\ answer' = Nothing /\ slots' = slots
  BY DEF Iterate, Ready, storage
<1>2. Contents' = Contents
  BY <1>1, MappedFacts
<1>3. CASE how = "iterating"
  <2>1. Map!Visit("borrowed")
    BY <1>1, <1>2, <1>3 DEF Map!Visit, Mode, Nothing, Map!Nothing
  <2> QED
    BY <2>1
<1>4. CASE how = "consuming"
  <2>1. Map!Visit("owned")
    BY <1>1, <1>2, <1>4 DEF Map!Visit, Mode, Nothing, Map!Nothing
  <2> QED
    BY <2>1
<1> QED
  BY <1>3, <1>4

LEMMA EndIterationMaps ==
  ASSUME TableInv, TableInv', EndIteration
  PROVE  Map!EndVisit
<1>1. pc = "iterating" /\ pc' = "idle" /\ visited' = {} /\ answer' = Nothing /\ slots' = slots
  BY DEF EndIteration, storage
<1>2. Contents' = Contents
  BY <1>1, MappedFacts
<1> QED
  BY <1>1, <1>2 DEF Map!EndVisit, Mode, Nothing, Map!Nothing

\* The slot under the cursor holds a key that was not visited; without one, every key was.
LEMMA NextEntryMaps ==
  ASSUME TableInv, TableInv', NextEntry
  PROVE  Map!NextVisit
<1> DEFINE i == LeastOf(Ahead)
<1>1. pc \in {"iterating", "consuming"} /\ pc' = pc /\ hash' = hash /\ cursor \in Nat
  BY DEF NextEntry, TableInv, Iterating
<1>2. /\ Contents = MapOf(Records(slots)) /\ UniqueKeys(slots) /\ Contents' = MapOf(Records(slots')) /\ UniqueKeys(slots')
      /\ slots' = slots => Contents' = Contents
  BY MappedFacts
<1>3. /\ DOMAIN Contents = {slots[j].key : j \in Full(slots)}
      /\ \A j \in Full(slots) : slots[j].key \in DOMAIN Contents /\ Contents[slots[j].key] = slots[j].value
  BY MappedState
<1>4. \A j \in Full(slots) : j \in Nat
  BY ShapeFacts DEF TableInv
<1>5. /\ pc = "iterating" => visited = {slots[j].key : j \in {m \in Full(slots) : m < cursor}}
      /\ pc = "consuming" => \A j \in Full(slots) : j >= cursor /\ slots[j].key \notin visited
  BY DEF TableInv, Iterating
<1>6. CASE Ahead = {}
  <2>1. slots' = slots /\ visited' = visited /\ answer' = Nothing
    BY <1>6 DEF NextEntry
  <2>2. \A j \in Full(slots) : j < cursor
    BY <1>1, <1>4, <1>6 DEF Ahead
  <2>3. DOMAIN Contents \subseteq visited
    <3>1. CASE pc = "iterating"
      BY <1>3, <1>5, <2>2, <3>1
    <3>2. CASE pc = "consuming"
      <4>1. Full(slots) = {}
        BY <1>5, <1>6, <3>2 DEF Ahead
      <4> QED
        BY <1>3, <4>1
    <3> QED
      BY <1>1, <3>1, <3>2
  <2> QED
    BY <1>1, <1>2, <2>1, <2>3 DEF Map!NextVisit, Mode, Nothing, Map!Nothing
<1>7. CASE Ahead # {}
  <2>1. i \in Full(slots) /\ i >= cursor
    BY <1>1, <1>7, AheadFacts DEF TableInv
  <2>2. /\ answer' = <<slots[i].key, slots[i].value>> /\ visited' = visited \cup {slots[i].key}
        /\ IF pc = "consuming" THEN slots' = Updated(slots, i, Empty) ELSE slots' = slots
    BY <1>7 DEF NextEntry, TakeFrom, Updated
  <2> HIDE DEF i
  <2> DEFINE k == slots[i].key
  <2>3. k \in DOMAIN Contents /\ Contents[k] = slots[i].value
    BY <1>3, <2>1
  <2>4. k \notin visited
    <3>1. CASE pc = "iterating"
      <4> SUFFICES ASSUME k \in visited PROVE FALSE
        OBVIOUS
      <4>1. PICK j \in Full(slots) : j < cursor /\ slots[j].key = k
        BY <1>5, <3>1
      <4>2. j = i
        BY <1>2, <2>1, <4>1 DEF UniqueKeys
      <4> QED
        BY <1>1, <1>4, <2>1, <4>1, <4>2
    <3>2. CASE pc = "consuming"
      BY <1>5, <2>1, <3>2
    <3> QED
      BY <1>1, <3>1, <3>2
  <2>5. CASE pc = "iterating"
    <3>1. Contents' = Contents /\ Mode = "borrowed" /\ Mode' = "borrowed"
      BY <1>1, <1>2, <2>2, <2>5 DEF Mode
    <3>2. answer' = <<k, Contents[k]>> /\ visited' = visited \cup {k}
      BY <2>2, <2>3
    <3> HIDE DEF k
    <3> QED
      BY <2>3, <2>4, <3>1, <3>2 DEF Map!NextVisit
  <2>6. CASE pc = "consuming"
    <3>1. IsTable(slots, cap, hash) /\ cap \in Nat
      BY ShapeFacts DEF TableInv, Shape
    <3>2. slots' = Updated(slots, i, Empty)
      BY <2>2, <2>6
    <3>3. Full(slots') = Full(slots) \ {i} /\ \A j \in Full(slots) \ {i} : slots'[j] = slots[j]
      BY <1>2, <2>1, <3>1, <3>2, TakeEntry
    <3>4. Contents' = [j \in DOMAIN Contents \ {k} |-> Contents[j]]
      BY <1>2, <2>1, <3>3, DeleteMap
    <3>5. answer' = <<k, Contents[k]>> /\ visited' = visited \cup {k}
      BY <2>2, <2>3
    <3>6. Mode = "owned" /\ Mode' = "owned"
      BY <1>1, <2>6 DEF Mode
    <3> HIDE DEF k
    <3> QED
      BY <2>3, <2>4, <3>4, <3>5, <3>6 DEF Map!NextVisit
  <2> QED
    BY <1>1, <2>5, <2>6
<1> QED
  BY <1>6, <1>7

LEMMA StepMaps == TableInv /\ TableInv' /\ [Next]_vars => [Map!MapNext]_(Map!mapVars)
<1> SUFFICES ASSUME TableInv, TableInv', [Next]_vars
             PROVE  Map!MapNext \/ UNCHANGED Map!mapVars
  BY DEF Map!mapVars
<1>1. CASE UNCHANGED vars
  <2>1. slots' = slots /\ pc' = pc /\ UNCHANGED <<visited, answer>>
    BY <1>1 DEF vars, storage, iterator
  <2> QED
    BY <2>1, StutterMaps DEF Mode
<1>2. ASSUME NEW capacity \in Capacities, Create(capacity) PROVE Map!Open
  BY <1>2, CreateMaps
<1>3. CASE MoveSlot
  <2>1. slots' = slots /\ pc' = pc /\ UNCHANGED <<visited, answer>>
    BY <1>3 DEF MoveSlot, storage, iterator
  <2> QED
    BY <2>1, StutterMaps DEF Mode
<1>4. CASE FinishGrow
  <2>1. Records(slots') = Records(slots)
    BY <1>4, FinishGrowStep
  <2>2. pc = "growing" /\ pc' = "placing" /\ UNCHANGED <<visited, answer>>
    BY <1>4 DEF FinishGrow, iterator
  <2> QED
    BY <2>1, <2>2, StutterMaps DEF Mode
<1>5. CASE Place
  <2>1. pc = "placing"
    BY <1>5 DEF Place
  <2>2. PICK k \in DOMAIN hash, v \in Values : pending = <<k, v>>
    BY <2>1 DEF TableInv, Shape
  <2>3. Map!Put(k, v)
    BY <1>5, <2>2, PlaceMaps
  <2>4. k \in Keys
    BY ShapeFacts DEF TableInv, Hashes
  <2> QED
    BY <2>3, <2>4 DEF Map!MapNext
<1>6. CASE TakeAnswer
  BY <1>6, TakeAnswerMaps DEF Map!MapNext
<1>7. CASE Length
  BY <1>7, LengthMaps DEF Map!MapNext
<1>8. CASE Clear
  BY <1>8, ClearMaps DEF Map!MapNext
<1>9. CASE NextEntry
  BY <1>9, NextEntryMaps DEF Map!MapNext
<1>10. CASE EndIteration
  BY <1>10, EndIterationMaps DEF Map!MapNext
<1>11. CASE DropTable
  BY <1>11, DropTableMaps DEF Map!MapNext
<1>12. ASSUME NEW how \in {"iterating", "consuming"}, Iterate(how) PROVE Map!MapNext
  BY <1>12, IterateMaps DEF Map!MapNext
<1>13. ASSUME NEW k \in DOMAIN hash, Lookup(k) \/ Remove(k) PROVE Map!MapNext
  <2>1. k \in Keys
    BY ShapeFacts DEF TableInv, Hashes
  <2> QED
    BY <1>13, <2>1, LookupMaps, RemoveMaps DEF Map!MapNext
<1>14. ASSUME NEW k \in DOMAIN hash, NEW v \in Values, Exchange(k, v) PROVE Map!MapNext
  <2>1. k \in Keys
    BY ShapeFacts DEF TableInv, Hashes
  <2> QED
    BY <1>14, <2>1, ExchangeMaps DEF Map!MapNext
<1>15. ASSUME NEW k \in DOMAIN hash, NEW v \in Values, BeginInsert(k, v) PROVE UNCHANGED Map!mapVars
  <2>1. slots' = slots /\ pc = "idle" /\ pc' \in {"growing", "placing"} /\ UNCHANGED <<visited, answer>>
    BY <1>15 DEF BeginInsert, Ready, storage, iterator
  <2> QED
    BY <2>1, StutterMaps DEF Mode
<1>16. (\E capacity \in Capacities : Create(capacity)) => Map!MapNext
  BY <1>2 DEF Map!MapNext
<1> QED
  BY <1>1, <1>3, <1>4, <1>5, <1>6, <1>7, <1>8, <1>9, <1>10, <1>11, <1>12, <1>13, <1>14, <1>15, <1>16
     DEF Next, Insertion

(***************************************************************************)
(* HashMap keeps what it promises: whatever the hashes, the collisions,    *)
(* the tombstones and the growth, every operation changes and answers as   *)
(* one on a map does, and the steps of a growth cannot be seen.            *)
(***************************************************************************)
THEOREM TableImplementsMap == Spec => ImplementsMap
<1>1. Init => Map!MapInit
  BY InitMaps
<1>2. TableInv /\ TableInv' /\ [Next]_vars => [Map!MapNext]_(Map!mapVars)
  BY StepMaps
<1> QED
  BY <1>1, <1>2, InvariantHolds, PTL DEF Spec, ImplementsMap, Map!MapSpec

=============================================================================
