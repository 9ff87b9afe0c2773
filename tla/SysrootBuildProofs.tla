--------------------------- MODULE SysrootBuildProofs ---------------------------
(***************************************************************************)
(* Proofs, for any number of builders, any sources and any number of       *)
(* crashes, that two builders never work on the same sysroot, that what    *)
(* was built is complete, and that it was built in the documented order.   *)
(***************************************************************************)
EXTENDS SysrootBuild, IterationLemmas, SequenceTheorems

\* A builder whose pc is not Working stays out of every working step.
LockInv ==
  /\ DOMAIN pc = Builders
  /\ OneBuilder

LEMMA SysrootInitInv == SysrootInit => LockInv
  BY DEF SysrootInit, LockInv, OneBuilder, Working

\* A step of a working builder that stays at work or leaves with the lock.
LEMMA WorkerStep ==
  ASSUME LockInv, NEW b \in Builders, pc[b] \in Working, NEW next,
         pc' = [pc EXCEPT ![b] = next],
         (next \in Working /\ lock' = lock) \/ (next \notin Working /\ lock' \in BOOLEAN)
  PROVE  LockInv'
<1>1. DOMAIN pc' = Builders
  BY DEF LockInv
<1>2. ASSUME NEW c \in Builders, pc'[c] \in Working
      PROVE  c = b /\ next \in Working
  BY <1>2 DEF LockInv, OneBuilder
<1>3. ASSUME NEW c \in Builders, pc'[c] \in Working
      PROVE  lock' /\ \A d \in Builders : pc'[d] \in Working => d = c
  BY <1>2, <1>3 DEF LockInv, OneBuilder
<1> QED
  BY <1>1, <1>3 DEF LockInv, OneBuilder

LEMMA SysrootStep == LockInv /\ [SysrootNext]_sysrootVars => LockInv'
<1> SUFFICES ASSUME LockInv, [SysrootNext]_sysrootVars PROVE LockInv'
  OBVIOUS
<1>1. ASSUME NEW b \in Builders, Acquire(b) PROVE LockInv'
  <2>1. DOMAIN pc' = Builders /\ lock'
    BY <1>1 DEF Acquire, LockInv
  <2>2. CASE lock
    BY <1>1, <2>1, <2>2 DEF Acquire, LockInv, OneBuilder, Working
  <2>3. CASE ~lock
    <3>1. \A c \in Builders : pc[c] \notin Working
      BY <2>3 DEF LockInv, OneBuilder
    <3> QED
      BY <1>1, <2>1, <2>3, <3>1 DEF Acquire, LockInv, OneBuilder
  <2> QED
    BY <2>2, <2>3
<1>2. ASSUME NEW b \in Builders, CheckSources(b) PROVE LockInv'
  <2>1. CASE source = "missing"
    BY <1>2, <2>1, WorkerStep DEF CheckSources, Leave, Working
  <2>2. CASE source # "missing"
    BY <1>2, <2>2, WorkerStep DEF CheckSources, Working
  <2> QED
    BY <2>1, <2>2
<1>3. ASSUME NEW b \in Builders, ReadImports(b) PROVE LockInv'
  <2>1. PICK p \in Providers \ seen[b] :
          \/ /\ pc' = [pc EXCEPT ![b] = IF seen'[b] = Providers THEN "sort" ELSE "scan"]
             /\ lock' = lock
          \/ pc' = [pc EXCEPT ![b] = "failed"] /\ lock' = FALSE
    BY <1>3 DEF ReadImports, Leave
  <2>2. pc[b] \in Working
    BY <1>3 DEF ReadImports, Working
  <2>3. CASE pc' = [pc EXCEPT ![b] = "failed"] /\ lock' = FALSE
    BY <2>2, <2>3, WorkerStep DEF Working
  <2>4. CASE /\ pc' = [pc EXCEPT ![b] = IF seen'[b] = Providers THEN "sort" ELSE "scan"]
             /\ lock' = lock
    <3> DEFINE next == IF seen'[b] = Providers THEN "sort" ELSE "scan"
    <3>1. next \in Working
      BY DEF Working
    <3> QED
      BY <2>2, <2>4, <3>1, WorkerStep
  <2> QED
    BY <2>1, <2>3, <2>4
<1>4. ASSUME NEW b \in Builders, Sort(b) PROVE LockInv'
  <2>1. \/ pc' = [pc EXCEPT ![b] = "quarantine"] /\ lock' = lock
        \/ pc' = [pc EXCEPT ![b] = "cycle"] /\ lock' = FALSE
    BY <1>4 DEF Sort, Leave
  <2>2. pc[b] \in Working
    BY <1>4 DEF Sort, Working
  <2> QED
    BY <2>1, <2>2, WorkerStep DEF Working
<1>5. ASSUME NEW b \in Builders, Quarantine(b) PROVE LockInv'
  BY <1>5, WorkerStep DEF Quarantine, Working
<1>6. ASSUME NEW b \in Builders, Compile(b) PROVE LockInv'
  <2>1. \/ pc' = pc /\ lock' = lock
        \/ pc' = [pc EXCEPT ![b] = "failed"] /\ lock' = FALSE
    BY <1>6 DEF Compile, Leave
  <2>2. pc[b] \in Working
    BY <1>6 DEF Compile, Working
  <2>3. CASE pc' = pc /\ lock' = lock
    BY <2>3 DEF LockInv, OneBuilder
  <2>4. CASE pc' = [pc EXCEPT ![b] = "failed"] /\ lock' = FALSE
    BY <2>2, <2>4, WorkerStep DEF Working
  <2> QED
    BY <2>1, <2>3, <2>4
<1>7. ASSUME NEW b \in Builders, Finish(b) PROVE LockInv'
  <2>1. pc' = [pc EXCEPT ![b] = "built"] /\ lock' = FALSE
    BY <1>7 DEF Finish, Leave
  <2>2. pc[b] \in Working
    BY <1>7 DEF Finish, Working
  <2> QED
    BY <2>1, <2>2, WorkerStep DEF Working
<1>8. ASSUME NEW b \in Builders, Crash(b) PROVE LockInv'
  BY <1>8 DEF Crash, LockInv, OneBuilder, Working
<1>9. ASSUME NEW b \in Builders, Retry(b) PROVE LockInv'
  BY <1>9 DEF Retry, LockInv, OneBuilder, Working
<1>10. CASE ClearLock
  BY <1>10 DEF ClearLock, LockInv, OneBuilder
<1>11. CASE UNCHANGED sysrootVars
  BY <1>11 DEF sysrootVars, LockInv, OneBuilder
<1> QED
  BY <1>1, <1>2, <1>3, <1>4, <1>5, <1>6, <1>7, <1>8, <1>9, <1>10, <1>11 DEF SysrootNext, Work

(***************************************************************************)
(* The lock file keeps a second builder out, through failures, kills and   *)
(* the manual removal of a stale lock.                                     *)
(***************************************************************************)
THEOREM BuildersExclude == SysrootSpec => []OneBuilder
<1>1. LockInv => OneBuilder
  BY DEF LockInv
<1> QED
  BY <1>1, SysrootInitInv, SysrootStep, PTL DEF SysrootSpec

-----------------------------------------------------------------------------
(* The sort.                                                               *)

KahnStates(G) == [degree : [DOMAIN G -> Nat], queue : SUBSET DOMAIN G, result : Seq(DOMAIN G)]

Distinct(r) == \A i, j \in 1 .. Len(r) : r[i] = r[j] => i = j
Before(r, i) == {r[j] : j \in 1 .. i - 1}

\* p imports nothing twice.
Simple(G, p) == Len(G[p]) = Cardinality(Imports(G, p))

\* Everything comes after what it imports, and before whatever else could have come, if that imports nothing twice.
InTurn(G, r) ==
  \A i \in 1 .. Len(r) :
    /\ Imports(G, r[i]) \subseteq Before(r, i)
    /\ \A q \in DOMAIN G \ Before(r, i) : Imports(G, q) \subseteq Before(r, i) /\ Simple(G, q) => r[i] <= q

\* The in-degree of what has to wait is the number of its declarations less that of the built providers it imports.
Counted(G, degree, built, p) ==
  degree[p] > 0 /\ degree[p] = Len(G[p]) - Cardinality(Imports(G, p) \cap built)

KahnInv(G, k) ==
  /\ k \in KahnStates(G)
  /\ Distinct(k.result)
  /\ k.queue \cap ToSet(k.result) = {}
  /\ \A p \in k.queue \cup ToSet(k.result) : Imports(G, p) \subseteq ToSet(k.result) /\ Simple(G, p)
  /\ \A p \in DOMAIN G \ (k.queue \cup ToSet(k.result)) : Counted(G, k.degree, ToSet(k.result), p)
  /\ InTurn(G, k.result)

LEMMA ImportFacts ==
  ASSUME NEW G, IsGraph(G), NEW p \in DOMAIN G
  PROVE  /\ Imports(G, p) \subseteq DOMAIN G /\ IsFiniteSet(Imports(G, p))
         /\ Len(G[p]) \in Nat /\ Cardinality(Imports(G, p)) \in Nat
         /\ Cardinality(Imports(G, p)) <= Len(G[p])
         /\ G[p] = <<>> => Imports(G, p) = {} /\ Len(G[p]) = 0
         /\ G[p] # <<>> => Len(G[p]) > 0
<1> DEFINE s == G[p]
<1>1. s \in Seq(DOMAIN G)
  BY DEF IsGraph
<1> HIDE DEF s
<1>2. Len(s) \in Nat /\ DOMAIN s = 1 .. Len(s) /\ \A i \in 1 .. Len(s) : s[i] \in DOMAIN G
  BY <1>1
<1>3. ToSet(s) = {s[i] : i \in 1 .. Len(s)}
  BY <1>2 DEF ToSet
<1>4. s \in Surjection(1 .. Len(s), ToSet(s))
  <2>1. s \in [1 .. Len(s) -> ToSet(s)]
    BY <1>1, <1>3, LenProperties
  <2>2. \A t \in ToSet(s) : \E i \in 1 .. Len(s) : s[i] = t
    BY <1>3
  <2> QED
    BY <2>1, <2>2 DEF Surjection
<1>5. IsFiniteSet(1 .. Len(s)) /\ Cardinality(1 .. Len(s)) = Len(s)
  <2>1. 1 \in Int /\ Len(s) \in Int
    BY <1>2
  <2>2. IsFiniteSet(1 .. Len(s)) /\ Cardinality(1 .. Len(s)) = IF 1 > Len(s) THEN 0 ELSE Len(s) - 1 + 1
    BY <2>1, FS_Interval
  <2> QED
    BY <1>2, <2>2
<1>6. IsFiniteSet(ToSet(s)) /\ Cardinality(ToSet(s)) <= Len(s)
  BY <1>4, <1>5, FS_Surjection
<1>7. Cardinality(ToSet(s)) \in Nat
  BY <1>6, FS_CardinalityType
<1>8. /\ s = <<>> => ToSet(s) = {} /\ Len(s) = 0
      /\ s # <<>> => Len(s) > 0
  BY <1>1, <1>2, <1>3
<1> QED
  BY <1>2, <1>3, <1>6, <1>7, <1>8 DEF Imports, s

LEMMA LeastReady ==
  ASSUME NEW S \in SUBSET Nat, S # {}
  PROVE  Least(S) \in S /\ \A n \in S : Least(S) <= n
BY LeastExists DEF Least

LEMMA AppendFacts ==
  ASSUME NEW S, NEW r \in Seq(S), NEW x \in S
  PROVE  /\ Append(r, x) \in Seq(S) /\ Len(Append(r, x)) = Len(r) + 1 /\ Len(r) \in Nat
         /\ \A i \in 1 .. Len(r) : Append(r, x)[i] = r[i]
         /\ Append(r, x)[Len(r) + 1] = x
         /\ ToSet(Append(r, x)) = ToSet(r) \cup {x}
         /\ ToSet(r) = {r[i] : i \in 1 .. Len(r)}
<1> DEFINE t == Append(r, x)
<1>1. /\ t \in Seq(S) /\ Len(t) = Len(r) + 1 /\ Len(r) \in Nat
      /\ \A i \in 1 .. Len(r) : t[i] = r[i]
      /\ t[Len(r) + 1] = x
      /\ DOMAIN t = 1 .. Len(r) + 1 /\ DOMAIN r = 1 .. Len(r)
  OBVIOUS
<1> HIDE DEF t
<1>2. ToSet(t) = ToSet(r) \cup {x}
  <2>1. \A i \in 1 .. Len(r) + 1 : i \in 1 .. Len(r) \/ i = Len(r) + 1
    BY <1>1
  <2>2. 1 .. Len(r) \subseteq 1 .. Len(r) + 1 /\ Len(r) + 1 \in 1 .. Len(r) + 1
    BY <1>1
  <2> QED
    BY <1>1, <2>1, <2>2 DEF ToSet
<1> QED
  BY <1>1, <1>2 DEF ToSet, t

\* At the start nothing is built, and ready is what imports nothing.
LEMMA KahnStarts == ASSUME NEW G, IsGraph(G) PROVE KahnInv(G, KahnStart(G))
<1> DEFINE k == KahnStart(G)
<1>1. k.degree = [p \in DOMAIN G |-> Len(G[p])] /\ k.queue = {p \in DOMAIN G : G[p] = <<>>} /\ k.result = <<>>
  BY DEF KahnStart
<1>2. k \in KahnStates(G)
  BY ImportFacts DEF KahnStart, KahnStates
<1>3. ToSet(k.result) = {} /\ Len(k.result) = 0
  BY <1>1 DEF ToSet
<1> HIDE DEF k
<1>4. ASSUME NEW p \in k.queue PROVE Imports(G, p) \subseteq ToSet(k.result) /\ Simple(G, p)
  BY <1>1, <1>3, <1>4, ImportFacts, FS_EmptySet DEF Simple
<1>5. ASSUME NEW p \in DOMAIN G \ k.queue PROVE Counted(G, k.degree, ToSet(k.result), p)
  <2>1. Cardinality(Imports(G, p) \cap ToSet(k.result)) = 0
    BY <1>3, FS_EmptySet
  <2> QED
    BY <1>1, <1>5, <2>1, ImportFacts DEF Counted
<1>6. InTurn(G, k.result) /\ Distinct(k.result)
  BY <1>3 DEF InTurn, Distinct
<1> QED
  BY <1>2, <1>3, <1>4, <1>5, <1>6 DEF KahnInv, k

\* A turn of the loop keeps the degrees exact and takes the first of what is ready.
LEMMA KahnSteps ==
  ASSUME NEW G, IsGraph(G), NEW k, KahnInv(G, k), k.queue # {}
  PROVE  KahnInv(G, KahnStep(G, k))
<1> DEFINE new == KahnStep(G, k)
           node == Least(k.queue)
           built == ToSet(k.result)
           after == built \cup {node}
           importers == {p \in DOMAIN G : node \in Imports(G, p)}
           degree == [p \in DOMAIN G |->
                        IF p \in importers /\ k.degree[p] > 0 THEN k.degree[p] - 1 ELSE k.degree[p]]
           n == Len(k.result)
<1>1. /\ k.degree \in [DOMAIN G -> Nat] /\ k.queue \subseteq DOMAIN G /\ k.result \in Seq(DOMAIN G)
      /\ DOMAIN G \subseteq Nat
  BY DEF KahnInv, KahnStates, IsGraph
<1>2. node \in k.queue /\ \A q \in k.queue : node <= q
  BY <1>1, LeastReady
<1>3. /\ new.degree = degree
      /\ new.queue = (k.queue \ {node}) \cup {p \in importers : degree[p] = 0}
      /\ new.result = Append(k.result, node)
  <2>1. new = [degree |-> degree,
               queue  |-> (k.queue \ {node}) \cup {p \in importers : degree[p] = 0},
               result |-> Append(k.result, node)]
    BY DEF KahnStep
  <2> HIDE DEF new, node, importers, degree
  <2> QED
    BY <2>1
<1>4. node \notin built /\ built \subseteq DOMAIN G
  <2>1. built = {k.result[i] : i \in 1 .. Len(k.result)}
    <3>1. node \in DOMAIN G
      BY <1>1, <1>2
    <3> DEFINE r == k.result
    <3>2. r \in Seq(DOMAIN G)
      BY <1>1 DEF KahnStates
    <3> HIDE DEF node, r
    <3>3. ToSet(r) = {r[i] : i \in 1 .. Len(r)}
      BY <3>1, <3>2, AppendFacts
    <3> QED
      BY <3>3 DEF r
  <2> QED
    BY <1>1, <1>2, <2>1 DEF KahnInv
<1>5. ToSet(new.result) = after
  BY <1>1, <1>2, <1>3, AppendFacts
<1>6. new \in KahnStates(G)
  <2>1. degree \in [DOMAIN G -> Nat]
    BY <1>1
  <2>2. new.queue \subseteq DOMAIN G
    BY <1>1, <1>3
  <2>3. new.result \in Seq(DOMAIN G)
    BY <1>1, <1>2, <1>3
  <2>4. new = [degree |-> new.degree, queue |-> new.queue, result |-> new.result]
    BY DEF KahnStep
  <2> HIDE DEF new, degree
  <2> QED
    BY <1>3, <2>1, <2>2, <2>3, <2>4 DEF KahnStates
<1>7. /\ \A p \in k.queue \cup built : Imports(G, p) \subseteq built /\ Simple(G, p)
      /\ \A p \in DOMAIN G \ (k.queue \cup built) : Counted(G, k.degree, built, p)
      /\ Distinct(k.result) /\ InTurn(G, k.result) /\ k.queue \cap built = {}
  BY DEF KahnInv
<1>8. \A p \in importers : p \in DOMAIN G \ (k.queue \cup built)
  BY <1>4, <1>7
<1>9. ASSUME NEW p \in DOMAIN G \ (k.queue \cup built)
      PROVE  /\ degree[p] = Len(G[p]) - Cardinality(Imports(G, p) \cap after)
             /\ p \notin importers => degree[p] > 0
             /\ degree[p] \in Nat
  <2> DEFINE I == Imports(G, p)
  <2>1. /\ IsFiniteSet(I \cap built) /\ Cardinality(I \cap built) \in Nat /\ Len(G[p]) \in Nat
    <3>1. IsFiniteSet(I) /\ Len(G[p]) \in Nat
      BY ImportFacts
    <3>2. IsFiniteSet(I \cap built)
      BY <3>1, FS_Subset
    <3> QED
      BY <3>1, <3>2, FS_CardinalityType
  <2>2. k.degree[p] > 0 /\ k.degree[p] = Len(G[p]) - Cardinality(I \cap built) /\ k.degree[p] \in Nat
    BY <1>1, <1>7 DEF Counted
  <2>3. CASE p \in importers
    <3>1. I \cap after = (I \cap built) \cup {node} /\ node \notin I \cap built
      BY <1>4, <2>3
    <3>2. Cardinality(I \cap after) = Cardinality(I \cap built) + 1
      BY <2>1, <3>1, FS_AddElement
    <3>3. degree[p] = k.degree[p] - 1
      BY <2>2, <2>3
    <3> QED
      BY <2>1, <2>2, <2>3, <3>2, <3>3
  <2>4. CASE p \notin importers
    <3>1. I \cap after = I \cap built
      BY <2>4
    <3>2. degree[p] = k.degree[p]
      BY <2>4
    <3> QED
      BY <2>1, <2>2, <3>1, <3>2
  <2> QED
    BY <2>3, <2>4
<1> HIDE DEF new, node, built, importers, degree
<1>10. ASSUME NEW p \in importers, degree[p] = 0
       PROVE  Imports(G, p) \subseteq after /\ Simple(G, p)
  <2> DEFINE I == Imports(G, p)
  <2>1. p \in DOMAIN G
    BY <1>8, <1>10
  <2>2. IsFiniteSet(I) /\ Len(G[p]) \in Nat /\ Cardinality(I) \in Nat /\ Cardinality(I) <= Len(G[p])
    BY <2>1, ImportFacts
  <2>3. Cardinality(I \cap after) = Len(G[p])
    <3>1. degree[p] = Len(G[p]) - Cardinality(I \cap after)
      BY <1>8, <1>9
    <3>2. IsFiniteSet(I \cap after)
      BY <2>2, FS_Subset
    <3>3. Cardinality(I \cap after) \in Nat
      BY <3>2, FS_CardinalityType
    <3> HIDE DEF I, after
    <3> QED
      BY <1>10, <2>2, <3>1, <3>3
  <2>4. I \cap after \in SUBSET I
    OBVIOUS
  <2>5. Cardinality(I \cap after) <= Cardinality(I) /\ (Cardinality(I) = Cardinality(I \cap after) => I = I \cap after)
    BY <2>2, <2>4, FS_Subset
  <2>6. Cardinality(I) = Cardinality(I \cap after)
    <3> HIDE DEF I, after
    <3> QED
      BY <2>2, <2>3, <2>5
  <2> QED
    BY <2>2, <2>3, <2>5, <2>6 DEF Simple
<1>11. new.queue \cap after = {}
  <2>1. \A p \in importers : p \notin after
    BY <1>2, <1>8
  <2> QED
    BY <1>3, <1>7, <2>1
<1>12. \A p \in new.queue \cup after : Imports(G, p) \subseteq after /\ Simple(G, p)
  BY <1>2, <1>3, <1>7, <1>10
<1>13. ASSUME NEW p \in DOMAIN G \ (new.queue \cup after)
       PROVE  Counted(G, new.degree, after, p)
  <2>1. p \in DOMAIN G \ (k.queue \cup built)
    BY <1>3, <1>13
  <2>2. degree[p] \in Nat /\ (p \notin importers => degree[p] > 0)
    BY <1>9, <2>1
  <2>3. p \in importers => degree[p] # 0
    BY <1>3, <1>13
  <2>4. degree[p] > 0
    BY <2>2, <2>3
  <2> QED
    BY <1>3, <1>9, <2>1, <2>4 DEF Counted
<1>14. /\ Len(new.result) = n + 1 /\ n \in Nat
       /\ \A i \in 1 .. n : new.result[i] = k.result[i]
       /\ new.result[n + 1] = node
       /\ built = {k.result[i] : i \in 1 .. n}
  BY <1>1, <1>2, <1>3, AppendFacts DEF built
<1>15. Distinct(new.result)
  <2>1. \A i \in 1 .. n + 1 : i \in 1 .. n \/ i = n + 1
    BY <1>14
  <2>2. \A i \in 1 .. n : k.result[i] # node
    BY <1>4, <1>14
  <2> QED
    BY <1>7, <1>14, <2>1, <2>2 DEF Distinct
<1>16. InTurn(G, new.result)
  <2> SUFFICES ASSUME NEW i \in 1 .. n + 1
               PROVE  /\ Imports(G, new.result[i]) \subseteq Before(new.result, i)
                      /\ \A q \in DOMAIN G \ Before(new.result, i) :
                            Imports(G, q) \subseteq Before(new.result, i) /\ Simple(G, q) => new.result[i] <= q
    BY <1>14 DEF InTurn
  <2>1. Before(new.result, i) = {k.result[j] : j \in 1 .. i - 1}
    <3>1. \A j \in 1 .. i - 1 : j \in 1 .. n
      BY <1>14
    <3> QED
      BY <1>14, <3>1 DEF Before
  <2>2. CASE i \in 1 .. n
    <3>1. new.result[i] = k.result[i]
      BY <1>14, <2>2
    <3> QED
      BY <1>7, <2>1, <2>2, <3>1 DEF InTurn, Before
  <2>3. CASE i = n + 1
    <3>1. Before(new.result, i) = built /\ new.result[i] = node
      <4>1. i - 1 = n
        BY <1>14, <2>3
      <4> QED
        BY <1>14, <2>1, <2>3, <4>1
    <3>2. Imports(G, node) \subseteq built
      BY <1>2, <1>7
    <3>3. ASSUME NEW q \in DOMAIN G \ built, Imports(G, q) \subseteq built, Simple(G, q)
          PROVE  node <= q
      <4>1. CASE q \in k.queue
        BY <1>2, <4>1
      <4>2. CASE q \notin k.queue
        <5>1. k.degree[q] > 0 /\ k.degree[q] = Len(G[q]) - Cardinality(Imports(G, q) \cap built)
          BY <1>7, <3>3, <4>2 DEF Counted
        <5>2. Imports(G, q) \cap built = Imports(G, q)
          BY <3>3
        <5>3. Cardinality(Imports(G, q)) \in Nat /\ Len(G[q]) = Cardinality(Imports(G, q))
          BY <3>3, ImportFacts DEF Simple
        <5>4. Cardinality(Imports(G, q) \cap built) = Cardinality(Imports(G, q))
          BY <5>2
        <5> QED
          BY <5>1, <5>3, <5>4
      <4> QED
        BY <4>1, <4>2
    <3> QED
      BY <3>1, <3>2, <3>3
  <2> QED
    BY <1>14, <2>2, <2>3
<1> QED
  BY <1>5, <1>6, <1>11, <1>12, <1>13, <1>15, <1>16 DEF KahnInv, new

\* After i turns i providers are built, if there were as many to build.
Far(k, i) == k.queue = {} \/ Len(k.result) >= i

LEMMA KahnGoesOn ==
  ASSUME NEW G, IsGraph(G), NEW k, KahnInv(G, k), NEW i \in Nat \ {0}, Far(k, i - 1)
  PROVE  Far(KahnTurn(G, k), i)
<1>1. CASE k.queue = {}
  BY <1>1 DEF KahnTurn, Far
<1>2. CASE k.queue # {}
  <2>1. k.result \in Seq(DOMAIN G) /\ Least(k.queue) \in DOMAIN G
    <3>1. k.queue \subseteq DOMAIN G /\ k.queue \subseteq Nat /\ k.result \in Seq(DOMAIN G)
      BY DEF KahnInv, KahnStates, IsGraph
    <3> QED
      BY <1>2, <3>1, LeastReady
  <2>2. KahnTurn(G, k).result = Append(k.result, Least(k.queue))
    BY <1>2 DEF KahnTurn, KahnStep
  <2>3. Len(KahnTurn(G, k).result) = Len(k.result) + 1 /\ Len(k.result) \in Nat
    BY <2>1, <2>2, AppendFacts
  <2> QED
    BY <1>2, <2>3 DEF Far
<1> QED
  BY <1>1, <1>2

\* The loop runs for as many turns as there are providers, which is enough.
LEMMA KahnRuns ==
  ASSUME NEW G, IsGraph(G)
  PROVE  \E k : KahnInv(G, k) /\ Kahn(G) = k.result /\ Far(k, Cardinality(DOMAIN G))
<1> DEFINE D == {k \in KahnStates(G) : KahnInv(G, k)}
           F == [k \in D |-> KahnTurn(G, k)]
           base == KahnStart(G)
           n == Cardinality(DOMAIN G)
           turns == [turn \in 1 .. n |-> turn]
<1>1. base \in D
  BY KahnStarts DEF KahnInv
<1>2. F \in [D -> D]
  <2>1. ASSUME NEW k \in D PROVE KahnTurn(G, k) \in D
    <3>1. CASE k.queue = {}
      BY <3>1 DEF KahnTurn
    <3>2. CASE k.queue # {}
      <4>1. KahnInv(G, KahnStep(G, k))
        BY <3>2, KahnSteps
      <4> QED
        BY <3>2, <4>1 DEF KahnTurn, KahnInv
    <3> QED
      BY <3>1, <3>2
  <2> HIDE DEF D
  <2> QED
    BY <2>1
<1>0. n \in Nat
  BY FS_CardinalityType DEF IsGraph
<1>3. n \in Nat /\ Len(turns) = n
  BY <1>0
<1> DEFINE Fold(f) == f = [i \in 0 .. Len(turns) |->
                             IF i = 0 THEN base
                             ELSE TheOnly({KahnTurn(G, a) : a \in {f[i - 1]}})]
<1>4. \A x : TheOnly({x}) = x
  BY DEF TheOnly
<1>5. \A x : {KahnTurn(G, a) : a \in {x}} = {KahnTurn(G, x)}
  OBVIOUS
<1>6. \E f : Fold(f)
  <2>1. PICK f : Iterates(f, D, base, F, n)
    <3> HIDE DEF D, F, base, n
    <3> QED
      BY <1>0, <1>1, <1>2, IterationExists
  <2>2. f \in [0 .. n -> D] /\ f[0] = base /\ \A i \in 1 .. n : f[i] = F[f[i - 1]]
    BY <2>1 DEF Iterates
  <2>3. \A i \in 1 .. n : f[i] = TheOnly({KahnTurn(G, a) : a \in {f[i - 1]}})
    <3> SUFFICES ASSUME NEW i \in 1 .. n PROVE f[i] = TheOnly({KahnTurn(G, a) : a \in {f[i - 1]}})
      OBVIOUS
    <3>1. i - 1 \in 0 .. n
      BY <1>3
    <3>2. f[i - 1] \in D
      BY <2>2, <3>1
    <3>3. f[i] = KahnTurn(G, f[i - 1])
      <4> HIDE DEF D
      <4> QED
        BY <2>2, <3>2
    <3> QED
      BY <1>4, <1>5, <3>3
  <2> DEFINE g == [i \in 0 .. n |-> IF i = 0 THEN base ELSE TheOnly({KahnTurn(G, a) : a \in {f[i - 1]}})]
  <2>4. \A i \in 0 .. n : f[i] = g[i]
    <3>1. \A i \in 0 .. n : i = 0 \/ i \in 1 .. n
      BY <1>3
    <3> HIDE DEF base
    <3> QED
      BY <2>2, <2>3, <3>1
  <2>5. f = g
    <3> HIDE DEF D
    <3> QED
      BY <2>2, <2>4
  <2>6. Fold(f)
    BY <1>3, <2>5
  <2> QED
    BY <2>6
<1>7. Kahn(G) = (CHOOSE f : Fold(f))[Len(turns)].result
  BY DEF Kahn, FoldStrictly
<1> DEFINE fold == CHOOSE f : Fold(f)
<1>8. Fold(fold)
  BY <1>6
<1>9. \A i \in 0 .. n : fold[i] \in D /\ Far(fold[i], i)
  <2> DEFINE H == {i \in 0 .. n : fold[i] \in D /\ Far(fold[i], i)}
  <2>1. 0 \in H
    <3>1. fold[0] = base
      <4> HIDE DEF base, fold
      <4> QED
        BY <1>3, <1>8
    <3>2. Far(base, 0)
      <4>1. base.result = <<>> /\ Len(<<>>) = 0
        BY DEF KahnStart
      <4> QED
        BY <4>1 DEF Far
    <3> HIDE DEF base, fold, D
    <3> QED
      BY <1>1, <1>3, <3>1, <3>2
  <2>2. ASSUME NEW i \in 1 .. n, i - 1 \in H PROVE i \in H
    <3>1. i \in 0 .. n /\ i # 0
      BY <1>3
    <3>2. fold[i] = TheOnly({KahnTurn(G, a) : a \in {fold[i - 1]}})
      <4> HIDE DEF base, fold
      <4> QED
        BY <1>3, <1>8, <3>1
    <3>3. fold[i] = KahnTurn(G, fold[i - 1])
      BY <1>4, <1>5, <3>2
    <3>4. fold[i - 1] \in D /\ Far(fold[i - 1], i - 1)
      BY <2>2
    <3>5. F[fold[i - 1]] = KahnTurn(G, fold[i - 1]) /\ F[fold[i - 1]] \in D
      <4> HIDE DEF D, fold
      <4> QED
        BY <1>2, <3>4
    <3>6. Far(KahnTurn(G, fold[i - 1]), i)
      <4>1. KahnInv(G, fold[i - 1]) /\ i \in Nat \ {0}
        BY <1>0, <3>4
      <4> HIDE DEF fold
      <4> QED
        BY <3>4, <4>1, KahnGoesOn
    <3> HIDE DEF D, fold, F
    <3> QED
      BY <3>1, <3>3, <3>5, <3>6
  <2> HIDE DEF H
  <2>3. H \subseteq 0 .. n
    BY DEF H
  <2>4. H = 0 .. n
    BY <1>3, <2>1, <2>2, <2>3, Chain
  <2> QED
    BY <2>4 DEF H
<1>10. fold[n] \in D /\ Far(fold[n], n)
  <2>1. n \in 0 .. n
    BY <1>0
  <2> HIDE DEF n, fold, D
  <2> QED
    BY <1>9, <2>1
<1> QED
  BY <1>3, <1>7, <1>10

\* The first of the providers that are not built and whose imports are.
Ready(G, built) == {p \in DOMAIN G \ built : Imports(G, p) \subseteq built}
FirstReady(G, built, p) == p \in Ready(G, built) /\ \A q \in Ready(G, built) : p <= q

\* A build order has every provider once, always the first that is ready.
Sorted(G, r) ==
  /\ r \in Seq(DOMAIN G) /\ ToSet(r) = DOMAIN G
  /\ \A i \in 1 .. Len(r) : FirstReady(G, Before(r, i), r[i])

\* A sequence without repetitions is as long as a set is large if it has all the elements of the set.
LEMMA DistinctLength ==
  ASSUME NEW S, IsFiniteSet(S), NEW r \in Seq(S), Distinct(r)
  PROVE  Len(r) <= Cardinality(S) /\ (ToSet(r) = S <=> Len(r) = Cardinality(S))
<1> DEFINE n == Len(r)
           I == 1 .. n
<1>1. n \in Nat /\ r \in [I -> S] /\ ToSet(r) = {r[i] : i \in I}
  BY LenProperties DEF ToSet
<1>2. r \in Injection(I, S)
  BY <1>1 DEF Distinct, Injection, IsInjective
<1>3. Cardinality(I) = n
  <2>1. 1 \in Int /\ n \in Int
    BY <1>1
  <2>2. Cardinality(I) = IF 1 > n THEN 0 ELSE n - 1 + 1
    BY <2>1, FS_Interval
  <2> QED
    BY <1>1, <2>2
<1>4. Cardinality(I) <= Cardinality(S) /\ (Cardinality(I) = Cardinality(S) <=> r \in Surjection(I, S))
  BY <1>2, FS_Injection
<1>5. ToSet(r) = S <=> r \in Surjection(I, S)
  BY <1>1 DEF Surjection
<1> HIDE DEF n, I
<1> QED
  BY <1>3, <1>4, <1>5 DEF n

LEMMA OrderIsSorted ==
  ASSUME NEW G, IsGraph(G), BuildOrder(G).ok
  PROVE  Sorted(G, BuildOrder(G).path)
<1>1. PICK k : KahnInv(G, k) /\ Kahn(G) = k.result
  BY KahnRuns
<1> DEFINE r == Kahn(G)
<1>2. BuildOrder(G) = OrderOrCycle(G, r)
  BY DEF BuildOrder, TheOnly
<1>3. Len(r) = Cardinality(DOMAIN G) /\ BuildOrder(G).path = r
  BY <1>2 DEF OrderOrCycle
<1>4. r \in Seq(DOMAIN G) /\ Distinct(r) /\ InTurn(G, r) /\ DOMAIN G \subseteq Nat /\ IsFiniteSet(DOMAIN G)
  BY <1>1 DEF KahnInv, KahnStates, IsGraph
<1>5. ToSet(r) = DOMAIN G
  BY <1>3, <1>4, DistinctLength
<1>6. \A p \in DOMAIN G : Simple(G, p)
  BY <1>1, <1>5 DEF KahnInv
<1> HIDE DEF r
<1>7. Len(r) \in Nat /\ DOMAIN r = 1 .. Len(r) /\ \A i \in 1 .. Len(r) : r[i] \in DOMAIN G
  BY <1>4, LenProperties, ElementOfSeq
<1>8. ASSUME NEW i \in 1 .. Len(r) PROVE FirstReady(G, Before(r, i), r[i])
  <2>1. r[i] \notin Before(r, i)
    <3>1. \A j \in 1 .. i - 1 : j \in 1 .. Len(r) /\ j # i
      BY <1>7
    <3> QED
      BY <1>4, <3>1 DEF Before, Distinct
  <2>2. r[i] \in Ready(G, Before(r, i))
    BY <1>4, <1>7, <2>1 DEF InTurn, Ready
  <2>3. \A q \in Ready(G, Before(r, i)) : r[i] <= q
    BY <1>4, <1>6 DEF InTurn, Ready
  <2> QED
    BY <2>2, <2>3 DEF FirstReady
<1> QED
  BY <1>3, <1>4, <1>5, <1>8 DEF Sorted

-----------------------------------------------------------------------------
(* What the builders have done.                                            *)

\* What b has compiled and still has to compile is the build order.
InOrder(b) == made[b] \in Seq(Providers) /\ order[b] \in Seq(Providers) /\ Sorted(graph, made[b] \o order[b])

BuilderInv(b) ==
  /\ made[b] = <<>> \/ InOrder(b)
  /\ pc[b] \in {"idle", "check", "scan", "sort", "refused"} => made[b] = <<>>
  /\ pc[b] \in {"quarantine", "compile", "built"} => InOrder(b)
  /\ pc[b] \in {"compile", "built"} => Obsolete \notin artifacts
  /\ pc[b] = "built" => order[b] = <<>>
  /\ ToSet(made[b]) \ unpublished[b] \subseteq artifacts

BuildInv ==
  /\ DOMAIN pc = Builders /\ DOMAIN made = Builders /\ DOMAIN order = Builders
  /\ DOMAIN unpublished = Builders
  /\ IsGraph(graph) /\ Obsolete \notin Providers
  /\ artifacts \subseteq Providers \cup {Obsolete}
  /\ \A b \in Builders : BuilderInv(b)

LEMMA NothingMade == ToSet(<<>>) = {}
BY DEF ToSet

LEMMA BuildInitInv == SysrootInit => BuildInv
<1> SUFFICES ASSUME SysrootInit PROVE BuildInv
  OBVIOUS
<1>1. IsGraph(graph) /\ Obsolete \notin Providers
  BY SetupsAssumption DEF SysrootInit, Providers
<1> QED
  BY <1>1, NothingMade DEF SysrootInit, BuildInv, BuilderInv

\* A step that only moves b, and neither takes artifacts away nor makes an obsolete one, is no matter to the others.
LEMMA OthersKeep ==
  ASSUME BuildInv, NEW b \in Builders, graph' = graph,
         DOMAIN pc' = Builders /\ DOMAIN made' = Builders /\ DOMAIN order' = Builders,
         DOMAIN unpublished' = Builders,
         \A c \in Builders \ {b} : /\ pc'[c] = pc[c] /\ made'[c] = made[c] /\ order'[c] = order[c]
                                  /\ unpublished'[c] = unpublished[c],
         artifacts' \subseteq Providers \cup {Obsolete},
         artifacts \ {Obsolete} \subseteq artifacts',
         Obsolete \in artifacts' => Obsolete \in artifacts,
         BuilderInv(b)'
  PROVE  BuildInv'
<1>1. ASSUME NEW c \in Builders, c # b PROVE BuilderInv(c)'
  <2>1. /\ BuilderInv(c) /\ pc'[c] = pc[c] /\ made'[c] = made[c] /\ order'[c] = order[c]
        /\ unpublished'[c] = unpublished[c]
    BY <1>1 DEF BuildInv
  <2>2. InOrder(c)' = InOrder(c)
    BY <2>1 DEF InOrder, Providers
  <2>3. ToSet(made[c]) \ unpublished[c] \subseteq artifacts'
    <3>1. Obsolete \notin ToSet(made[c])
      <4>1. CASE made[c] = <<>>
        BY <4>1, NothingMade
      <4>2. CASE InOrder(c)
        <5>1. DOMAIN made[c] = 1 .. Len(made[c]) /\ \A i \in 1 .. Len(made[c]) : made[c][i] \in Providers
          BY <4>2, LenProperties, ElementOfSeq DEF InOrder
        <5> QED
          BY <5>1 DEF ToSet, BuildInv
      <4> QED
        BY <2>1, <4>1, <4>2 DEF BuilderInv
    <3> QED
      BY <2>1, <3>1 DEF BuilderInv
  <2> QED
    BY <2>1, <2>2, <2>3 DEF BuilderInv
<1> QED
  BY <1>1 DEF BuildInv, Providers

\* A step in which b only goes on.
LEMMA GoesOn ==
  ASSUME BuildInv, NEW b \in Builders, NEW next, pc' = [pc EXCEPT ![b] = next],
         UNCHANGED <<graph, made, unpublished, order, artifacts>>,
         \/ made[b] = <<>> /\ next \notin {"quarantine", "compile", "built"}
         \/ InOrder(b) /\ next \in {"failed", "crashed"}
  PROVE  BuildInv'
<1>1. pc'[b] = next /\ \A c \in Builders \ {b} : pc'[c] = pc[c]
  BY DEF BuildInv
<1>2. InOrder(b)' = InOrder(b)
  BY DEF InOrder, Providers
<1>3. BuilderInv(b)'
  BY <1>1, <1>2 DEF BuildInv, BuilderInv
<1> QED
  BY <1>1, <1>3, OthersKeep DEF BuildInv

\* A step of b that is no step of a build's last stages.
LEMMA EarlySteps ==
  ASSUME BuildInv, NEW b \in Builders, Acquire(b) \/ CheckSources(b) \/ ReadImports(b) \/ Crash(b)
  PROVE  BuildInv'
<1>1. BuilderInv(b)
  BY DEF BuildInv
<1>2. CASE Acquire(b)
  <2> DEFINE next == IF lock THEN "refused" ELSE "check"
  <2>1. pc' = [pc EXCEPT ![b] = next] /\ made[b] = <<>> /\ next \notin {"quarantine", "compile", "built"}
    BY <1>1, <1>2 DEF Acquire, BuilderInv
  <2> HIDE DEF next
  <2> QED
    BY <1>2, <2>1, GoesOn DEF Acquire
<1>3. CASE CheckSources(b)
  <2>1. made[b] = <<>> /\ (pc' = [pc EXCEPT ![b] = "scan"] \/ pc' = [pc EXCEPT ![b] = "failed"])
    BY <1>1, <1>3 DEF CheckSources, BuilderInv, Leave
  <2> QED
    BY <1>3, <2>1, GoesOn DEF CheckSources
<1>4. CASE ReadImports(b)
  <2> DEFINE next == IF seen'[b] = Providers THEN "sort" ELSE "scan"
  <2>1. made[b] = <<>> /\ (pc' = [pc EXCEPT ![b] = next] \/ pc' = [pc EXCEPT ![b] = "failed"])
    BY <1>1, <1>4 DEF ReadImports, BuilderInv, Leave
  <2>2. next \notin {"quarantine", "compile", "built"}
    OBVIOUS
  <2> HIDE DEF next
  <2> QED
    BY <1>4, <2>1, <2>2, GoesOn DEF ReadImports
<1>5. CASE Crash(b)
  <2>1. made[b] = <<>> \/ InOrder(b)
    BY <1>1 DEF BuilderInv
  <2> QED
    BY <1>5, <2>1, GoesOn DEF Crash
<1> QED
  BY <1>2, <1>3, <1>4, <1>5

LEMMA SortInv == ASSUME BuildInv, NEW b \in Builders, Sort(b) PROVE BuildInv'
<1>1. /\ BuilderInv(b) /\ IsGraph(graph) /\ graph' = graph
      /\ made' = made /\ unpublished' = unpublished /\ artifacts' = artifacts
  BY DEF BuildInv, Sort
<1>2. made[b] = <<>>
  BY <1>1 DEF BuilderInv, Sort
<1> DEFINE sorted == BuildOrder(graph)
<1>3. /\ order' = [order EXCEPT ![b] = sorted.path]
      /\ \/ sorted.ok /\ pc' = [pc EXCEPT ![b] = "quarantine"]
         \/ pc' = [pc EXCEPT ![b] = "cycle"]
  BY DEF Sort, Leave
<1>4. CASE sorted.ok /\ pc' = [pc EXCEPT ![b] = "quarantine"]
  <2>1. Sorted(graph, sorted.path)
    BY <1>1, <1>4, OrderIsSorted
  <2>2. <<>> \in Seq(Providers) /\ sorted.path \in Seq(Providers) /\ <<>> \o sorted.path = sorted.path
    BY <2>1, EmptySeq, ConcatEmptySeq DEF Sorted, Providers
  <2> HIDE DEF sorted
  <2>3. order'[b] = sorted.path /\ pc'[b] = "quarantine" /\ made'[b] = <<>>
    BY <1>1, <1>2, <1>3, <1>4 DEF BuildInv
  <2>4. InOrder(b)'
    BY <1>1, <2>1, <2>2, <2>3 DEF InOrder, Providers
  <2>5. BuilderInv(b)'
    BY <1>1, <2>3, <2>4 DEF BuilderInv
  <2> QED
    BY <1>1, <1>3, <1>4, <2>5, OthersKeep DEF BuildInv
<1>5. CASE pc' = [pc EXCEPT ![b] = "cycle"]
  <2> HIDE DEF sorted
  <2>1. BuilderInv(b)'
    BY <1>1, <1>2, <1>5 DEF BuildInv, BuilderInv
  <2> QED
    BY <1>1, <1>3, <1>5, <2>1, OthersKeep DEF BuildInv
<1> QED
  BY <1>3, <1>4, <1>5

LEMMA QuarantineInv == ASSUME BuildInv, NEW b \in Builders, Quarantine(b) PROVE BuildInv'
<1>1. BuilderInv(b) /\ InOrder(b) /\ pc'[b] = "compile" /\ Obsolete \notin artifacts'
  BY DEF BuildInv, BuilderInv, Quarantine
<1>2. InOrder(b)'
  BY <1>1 DEF InOrder, Providers, Quarantine
<1>3. ToSet(made[b]) \subseteq Providers
  <2>1. DOMAIN made[b] = 1 .. Len(made[b]) /\ \A i \in 1 .. Len(made[b]) : made[b][i] \in Providers
    BY <1>1, LenProperties, ElementOfSeq DEF InOrder
  <2> QED
    BY <2>1 DEF ToSet
<1>4. ToSet(made'[b]) \ unpublished'[b] \subseteq artifacts'
  BY <1>1, <1>3 DEF BuilderInv, Quarantine, BuildInv
<1>5. BuilderInv(b)'
  BY <1>1, <1>2, <1>4 DEF BuilderInv
<1> QED
  BY <1>5, OthersKeep DEF BuildInv, Quarantine

LEMMA MovesAlong ==
  ASSUME NEW S, NEW s \in Seq(S), NEW t \in Seq(S), t # <<>>
  PROVE  /\ Append(s, Head(t)) \in Seq(S) /\ Tail(t) \in Seq(S) /\ Head(t) \in S
         /\ Append(s, Head(t)) \o Tail(t) = s \o t
<1>1. Head(t) \in S /\ Tail(t) \in Seq(S) /\ Len(Tail(t)) = Len(t) - 1 /\ Len(t) \in Nat \ {0} /\ Head(t) = t[1]
  BY HeadTailProperties, EmptySeq
<1>2. \A i \in 1 .. Len(Tail(t)) : Tail(t)[i] = t[i + 1]
  BY HeadTailProperties
<1> DEFINE u == Append(s, Head(t))
           v == Tail(t)
<1>3. /\ u \in Seq(S) /\ Len(u) = Len(s) + 1 /\ Len(s) \in Nat
      /\ \A i \in 1 .. Len(s) : u[i] = s[i]
      /\ u[Len(s) + 1] = t[1]
  BY <1>1, AppendFacts
<1>4. v \in Seq(S) /\ Len(v) = Len(t) - 1 /\ \A i \in 1 .. Len(v) : v[i] = t[i + 1]
  BY <1>1, <1>2
<1> HIDE DEF u, v
<1>5. /\ u \o v \in Seq(S) /\ Len(u \o v) = Len(u) + Len(v)
      /\ \A i \in 1 .. Len(u) + Len(v) : (u \o v)[i] = IF i <= Len(u) THEN u[i] ELSE v[i - Len(u)]
  BY <1>3, <1>4, ConcatProperties
<1>6. /\ s \o t \in Seq(S) /\ Len(s \o t) = Len(s) + Len(t)
      /\ \A i \in 1 .. Len(s) + Len(t) : (s \o t)[i] = IF i <= Len(s) THEN s[i] ELSE t[i - Len(s)]
  BY ConcatProperties
<1>7. Len(u \o v) = Len(s \o t) /\ Len(u) + Len(v) = Len(s) + Len(t)
  BY <1>1, <1>3, <1>4, <1>5, <1>6
<1>8. ASSUME NEW i \in 1 .. Len(s) + Len(t) PROVE (u \o v)[i] = (s \o t)[i]
  <2>1. CASE i <= Len(s)
    <3>1. i \in 1 .. Len(s) /\ i <= Len(u)
      BY <1>3, <2>1
    <3> QED
      BY <1>3, <1>5, <1>6, <1>7, <2>1, <3>1
  <2>2. CASE i = Len(s) + 1
    <3>1. i <= Len(u) /\ ~ (i <= Len(s)) /\ i - Len(s) = 1
      BY <1>3, <2>2
    <3>2. (u \o v)[i] = u[i] /\ (s \o t)[i] = t[1]
      BY <1>5, <1>6, <1>7, <3>1
    <3> QED
      BY <1>3, <2>2, <3>2
  <2>3. CASE i > Len(s) + 1
    <3>1. ~ (i <= Len(u)) /\ ~ (i <= Len(s)) /\ i - Len(u) \in 1 .. Len(v) /\ i - Len(u) + 1 = i - Len(s)
      BY <1>1, <1>3, <1>4, <2>3
    <3>2. (u \o v)[i] = v[i - Len(u)] /\ (s \o t)[i] = t[i - Len(s)]
      BY <1>5, <1>6, <1>7, <3>1
    <3> QED
      BY <1>4, <3>1, <3>2
  <2>4. i <= Len(s) \/ i = Len(s) + 1 \/ i > Len(s) + 1
    <3>1. i \in Int /\ Len(s) \in Int
      BY <1>1, <1>3
    <3> QED
      BY <3>1
  <2> QED
    BY <2>1, <2>2, <2>3, <2>4
<1>9. u \o v = s \o t
  BY <1>5, <1>6, <1>7, <1>8, SeqEqual
<1> QED
  BY <1>1, <1>3, <1>9 DEF u, v

LEMMA CompileInv == ASSUME BuildInv, NEW b \in Builders, Compile(b) PROVE BuildInv'
<1>1. BuilderInv(b) /\ InOrder(b) /\ pc[b] = "compile" /\ order[b] # <<>> /\ graph' = graph
  BY DEF BuildInv, BuilderInv, Compile
<1>2. made[b] \in Seq(Providers) /\ order[b] \in Seq(Providers)
  BY <1>1 DEF InOrder
<1> DEFINE p == Head(order[b])
<1>3. CASE /\ \/ artifacts' = artifacts \cup {p} /\ unpublished' = unpublished
              \/ artifacts' = artifacts /\ unpublished' = [unpublished EXCEPT ![b] = @ \cup {p}]
           /\ made' = [made EXCEPT ![b] = Append(@, p)]
           /\ order' = [order EXCEPT ![b] = Tail(@)]
           /\ pc' = pc
  <2>1. /\ Append(made[b], p) \in Seq(Providers) /\ Tail(order[b]) \in Seq(Providers) /\ p \in Providers
        /\ Append(made[b], p) \o Tail(order[b]) = made[b] \o order[b]
    BY <1>1, <1>2, MovesAlong
  <2>2. ToSet(Append(made[b], p)) = ToSet(made[b]) \cup {p}
    BY <1>2, <2>1, AppendFacts
  <2> HIDE DEF p
  <2>3. made'[b] = Append(made[b], p) /\ order'[b] = Tail(order[b])
    BY <1>3 DEF BuildInv
  <2>4. InOrder(b)'
    BY <1>1, <2>1, <2>3 DEF InOrder, Providers
  <2>5. /\ artifacts \subseteq artifacts' /\ artifacts' \subseteq artifacts \cup {p}
        /\ DOMAIN unpublished' = Builders /\ unpublished[b] \subseteq unpublished'[b]
        /\ \A c \in Builders \ {b} : unpublished'[c] = unpublished[c]
        /\ p \in artifacts' \cup unpublished'[b]
    BY <1>3 DEF BuildInv
  <2>6. Obsolete \notin artifacts'
    BY <1>1, <2>1, <2>5 DEF BuildInv, BuilderInv
  <2>7. ToSet(made'[b]) \ unpublished'[b] \subseteq artifacts'
    BY <1>1, <2>2, <2>3, <2>5 DEF BuilderInv
  <2>8. BuilderInv(b)'
    BY <1>1, <1>3, <2>4, <2>6, <2>7 DEF BuilderInv
  <2> QED
    BY <1>1, <1>3, <2>1, <2>5, <2>6, <2>8, OthersKeep DEF BuildInv
<1>4. CASE pc' = [pc EXCEPT ![b] = "failed"] /\ UNCHANGED <<artifacts, unpublished, made, order>>
  BY <1>1, <1>4, GoesOn
<1> QED
  BY <1>3, <1>4 DEF Compile, Leave

LEMMA FinishInv == ASSUME BuildInv, NEW b \in Builders, Finish(b) PROVE BuildInv'
<1>1. /\ BuilderInv(b) /\ InOrder(b) /\ pc[b] = "compile" /\ order[b] = <<>>
      /\ pc' = [pc EXCEPT ![b] = "built"] /\ UNCHANGED <<graph, made, unpublished, order, artifacts>>
  BY DEF BuildInv, BuilderInv, Finish, Leave
<1>2. InOrder(b)'
  BY <1>1 DEF InOrder, Providers
<1>3. BuilderInv(b)'
  BY <1>1, <1>2 DEF BuilderInv, BuildInv
<1> QED
  BY <1>1, <1>3, OthersKeep DEF BuildInv

LEMMA RetryInv == ASSUME BuildInv, NEW b \in Builders, Retry(b) PROVE BuildInv'
<1>1. BuilderInv(b)'
  BY NothingMade DEF BuildInv, BuilderInv, Retry
<1> QED
  BY <1>1, OthersKeep DEF BuildInv, Retry

LEMMA BuildStep == BuildInv /\ [SysrootNext]_sysrootVars => BuildInv'
<1> SUFFICES ASSUME BuildInv, [SysrootNext]_sysrootVars PROVE BuildInv'
  OBVIOUS
<1>1. ASSUME UNCHANGED <<graph, pc, made, unpublished, order, artifacts>> PROVE BuildInv'
  BY <1>1 DEF BuildInv, BuilderInv, InOrder, Providers
<1>2. CASE ClearLock
  BY <1>1, <1>2 DEF ClearLock
<1>3. CASE UNCHANGED sysrootVars
  BY <1>1, <1>3 DEF sysrootVars
<1> QED
  BY <1>2, <1>3, EarlySteps, SortInv, QuarantineInv, CompileInv, FinishInv, RetryInv DEF SysrootNext, Work

LEMMA BuildAlways == SysrootSpec => []BuildInv
BY BuildInitInv, BuildStep, PTL DEF SysrootSpec

LEMMA InvImpliesOrder == BuildInv => StableOrder
<1> SUFFICES ASSUME BuildInv, NEW b \in Builders, NEW i \in DOMAIN made[b]
             PROVE  FirstReady(graph, Before(made[b], i), made[b][i])
  BY DEF StableOrder, Before, FirstReady, Ready, Providers
<1> DEFINE s == made[b]
           t == order[b]
<1>1. InOrder(b)
  <2>1. made[b] # <<>>
    OBVIOUS
  <2> QED
    BY <2>1 DEF BuildInv, BuilderInv
<1>2. s \in Seq(Providers) /\ t \in Seq(Providers) /\ Sorted(graph, s \o t)
  BY <1>1 DEF InOrder
<1>3. DOMAIN s = 1 .. Len(s) /\ Len(s) \in Nat /\ Len(t) \in Nat
  BY <1>2, LenProperties
<1> HIDE DEF s, t
<1>4. i \in 1 .. Len(s)
  BY <1>3 DEF s
<1>5. /\ Len(s \o t) = Len(s) + Len(t)
      /\ \A j \in 1 .. Len(s) + Len(t) : (s \o t)[j] = IF j <= Len(s) THEN s[j] ELSE t[j - Len(s)]
  BY <1>2, ConcatProperties
<1>6. \A j \in 1 .. i : (s \o t)[j] = s[j] /\ j \in 1 .. Len(s \o t)
  BY <1>3, <1>4, <1>5
<1>7. Before(s \o t, i) = Before(s, i)
  <2>1. \A j \in 1 .. i - 1 : j \in 1 .. i
    BY <1>4
  <2> QED
    BY <1>6, <2>1 DEF Before
<1>8. i \in 1 .. i
  BY <1>4
<1>9. FirstReady(graph, Before(s, i), (s \o t)[i])
  BY <1>2, <1>6, <1>7, <1>8 DEF Sorted
<1> QED
  BY <1>6, <1>8, <1>9 DEF s

LEMMA InvImpliesComplete == BuildInv => BuiltIsComplete
<1> SUFFICES ASSUME BuildInv, NEW b \in Builders, pc[b] = "built"
             PROVE  /\ ToSet(made[b]) = Providers /\ artifacts \subseteq Providers
                    /\ Providers \ artifacts \subseteq unpublished[b]
  BY DEF BuiltIsComplete
<1>1. /\ InOrder(b) /\ order[b] = <<>> /\ Obsolete \notin artifacts
      /\ ToSet(made[b]) \ unpublished[b] \subseteq artifacts
      /\ artifacts \subseteq Providers \cup {Obsolete}
  BY DEF BuildInv, BuilderInv
<1>2. made[b] \o order[b] = made[b]
  BY <1>1, ConcatEmptySeq DEF InOrder
<1>3. ToSet(made[b]) = Providers
  BY <1>1, <1>2 DEF InOrder, Sorted, Providers
<1> QED
  BY <1>1, <1>3

(***************************************************************************)
(* The build order is the documented one, for every acyclic graph: each    *)
(* provider comes after its imports, and the lexicographically first ready *)
(* provider comes first.                                                   *)
(***************************************************************************)
THEOREM OrderIsStable == SysrootSpec => []StableOrder
BY BuildAlways, InvImpliesOrder, PTL

(***************************************************************************)
(* A build that ends well has compiled every provider, no obsolete library *)
(* is left or comes back, and only libraries that a compilation of this    *)
(* build did not publish although it returned Ok(()) can be missing,       *)
(* whatever other builders do or leave behind when they are killed.        *)
(***************************************************************************)
THEOREM BuildIsComplete == SysrootSpec => []BuiltIsComplete
BY BuildAlways, InvImpliesComplete, PTL

-----------------------------------------------------------------------------
(* The sort succeeds exactly on graphs without a cycle.                    *)

\* Of any providers there is one that imports none of them.
Acyclic(G) == \A B \in SUBSET DOMAIN G : B # {} => \E p \in B : Imports(G, p) \cap B = {}

LEMMA SortedIsAcyclic == ASSUME NEW G, IsGraph(G), NEW r, Sorted(G, r) PROVE Acyclic(G)
<1> SUFFICES ASSUME NEW B \in SUBSET DOMAIN G, B # {} PROVE \E p \in B : Imports(G, p) \cap B = {}
  BY DEF Acyclic
<1>1. r \in Seq(DOMAIN G) /\ Len(r) \in Nat /\ DOMAIN G = {r[i] : i \in 1 .. Len(r)} /\ DOMAIN G \subseteq Nat
  BY LenProperties DEF Sorted, ToSet, IsGraph
<1> DEFINE I == {i \in 1 .. Len(r) : r[i] \in B}
<1>2. I # {} /\ I \in SUBSET Nat
  BY <1>1
<1>3. PICK i \in I : \A j \in I : i <= j
  <2> HIDE DEF I
  <2> QED
    BY <1>2, LeastExists
<1>4. Imports(G, r[i]) \subseteq Before(r, i)
  BY DEF Sorted, FirstReady, Ready
<1>5. Before(r, i) \cap B = {}
  <2>1. \A j \in 1 .. i - 1 : j \in 1 .. Len(r) /\ ~ (i <= j)
    BY <1>1
  <2> QED
    BY <1>3, <2>1 DEF Before
<1> QED
  BY <1>4, <1>5

LEMMA AcyclicIsSorted ==
  ASSUME NEW G, IsGraph(G), Acyclic(G), \A p \in DOMAIN G : Simple(G, p)
  PROVE  BuildOrder(G).ok
<1>1. PICK k : KahnInv(G, k) /\ Kahn(G) = k.result /\ Far(k, Cardinality(DOMAIN G))
  BY KahnRuns
<1> DEFINE r == k.result
           n == Cardinality(DOMAIN G)
<1>2. r \in Seq(DOMAIN G) /\ Distinct(r) /\ IsFiniteSet(DOMAIN G) /\ n \in Nat /\ Len(r) \in Nat
  <2>1. r \in Seq(DOMAIN G) /\ Distinct(r) /\ IsFiniteSet(DOMAIN G)
    BY <1>1 DEF KahnInv, KahnStates, IsGraph
  <2> QED
    BY <2>1, FS_CardinalityType, LenProperties
<1>3. Len(r) <= n /\ (ToSet(r) = DOMAIN G => Len(r) = n)
  BY <1>2, DistinctLength
<1>4. Len(r) = n
  <2>1. CASE k.queue # {}
    BY <1>1, <1>2, <1>3, <2>1 DEF Far
  <2>2. CASE k.queue = {}
    <3> DEFINE B == DOMAIN G \ ToSet(r)
    <3>1. ASSUME NEW p \in B PROVE Imports(G, p) \cap B # {}
      <4>1. k.degree[p] > 0 /\ k.degree[p] = Len(G[p]) - Cardinality(Imports(G, p) \cap ToSet(r))
        BY <1>1, <2>2 DEF KahnInv, Counted
      <4>2. Len(G[p]) = Cardinality(Imports(G, p)) /\ Cardinality(Imports(G, p)) \in Nat
        BY ImportFacts DEF Simple
      <4>3. Imports(G, p) \cap ToSet(r) # Imports(G, p)
        <5>1. Imports(G, p) \cap ToSet(r) = Imports(G, p)
              => Cardinality(Imports(G, p) \cap ToSet(r)) = Cardinality(Imports(G, p))
          OBVIOUS
        <5> HIDE DEF r
        <5> QED
          BY <4>1, <4>2, <5>1
      <4>4. Imports(G, p) \subseteq DOMAIN G
        BY ImportFacts
      <4> QED
        BY <4>3, <4>4
    <3>2. B = {}
      BY <3>1 DEF Acyclic
    <3>3. ToSet(r) \subseteq DOMAIN G
      BY <1>2, LenProperties, ElementOfSeq DEF ToSet
    <3> QED
      BY <1>3, <3>2, <3>3
  <2> QED
    BY <2>1, <2>2
<1>5. BuildOrder(G) = OrderOrCycle(G, r)
  BY <1>1 DEF BuildOrder, TheOnly
<1> QED
  BY <1>4, <1>5 DEF OrderOrCycle

(***************************************************************************)
(* topological_sort_with_stable_order succeeds exactly on the graphs that  *)
(* have no cycle, if no provider declares an import twice: it reports no   *)
(* cycle where there is none and orders nothing where there is one.        *)
(***************************************************************************)
THEOREM SortsExactlyAcyclic ==
  ASSUME NEW G, IsGraph(G), \A p \in DOMAIN G : Simple(G, p)
  PROVE  BuildOrder(G).ok <=> Acyclic(G)
<1>1. BuildOrder(G).ok => Acyclic(G)
  BY OrderIsSorted, SortedIsAcyclic
<1>2. Acyclic(G) => BuildOrder(G).ok
  BY AcyclicIsSorted
<1>3. BuildOrder(G).ok \in BOOLEAN
  <2>1. \E r : BuildOrder(G) = OrderOrCycle(G, r)
    BY DEF BuildOrder, TheOnly
  <2> QED
    BY <2>1 DEF OrderOrCycle
<1> QED
  BY <1>1, <1>2, <1>3
=============================================================================
