----------------------------- MODULE IterationLemmas -----------------------------
(***************************************************************************)
(* Natural numbers and the iteration of a function: facts that several     *)
(* proofs need.                                                            *)
(***************************************************************************)
EXTENDS Naturals, FiniteSets, FiniteSetTheorems, TLAPS

\* A set of natural numbers that is not empty has a least element.
LEMMA LeastExists ==
  ASSUME NEW S \in SUBSET Nat, S # {}
  PROVE  \E m \in S : \A n \in S : m <= n
<1>1. PICK top \in S : TRUE
  OBVIOUS
<1> DEFINE U == 0 .. top
           T == {0 .. k : k \in S \cap U}
<1>2. IsWellFoundedOn(StrictSubsetOrdering(U), SUBSET U)
  <2>1. IsFiniteSet(U)
    BY FS_Interval
  <2> HIDE DEF U
  <2>2. FiniteSubsetsOf(U) = SUBSET U
    BY <2>1, FS_FiniteSubsetsOfFinite
  <2>3. IsWellFoundedOn(StrictSubsetOrdering(U), FiniteSubsetsOf(U))
    BY FS_StrictSubsetOrderingWellFounded
  <2> QED
    BY <2>2, <2>3
<1>3. T \subseteq SUBSET U /\ T # {}
  BY <1>1
<1>4. PICK I \in T : \A J \in T : ~ (<<J, I>> \in StrictSubsetOrdering(U))
  <2> HIDE DEF T, U
  <2> QED
    BY <1>2, <1>3, WFMin
<1>5. PICK m \in S \cap U : I = 0 .. m
  BY <1>4
<1>6. ASSUME NEW n \in S, n < m PROVE FALSE
  <2>1. 0 .. n \in T /\ 0 .. n \subseteq 0 .. m /\ 0 .. n # 0 .. m
    BY <1>5, <1>6
  <2> QED
    BY <1>3, <1>4, <1>5, <2>1 DEF StrictSubsetOrdering
<1> QED
  BY <1>5, <1>6

\* What holds of the first member of a chain and passes from each to the next holds of all.
LEMMA Chain ==
  ASSUME NEW n \in Nat, NEW G \in SUBSET (0 .. n), 0 \in G, \A i \in 1 .. n : i - 1 \in G => i \in G
  PROVE  G = 0 .. n
<1>1. SUFFICES ASSUME (0 .. n) \ G # {} PROVE FALSE
  OBVIOUS
<1> DEFINE Rest == (0 .. n) \ G
<1>2. PICK m \in Rest : \A j \in Rest : m <= j
  <2>1. Rest \in SUBSET Nat /\ Rest # {}
    BY <1>1
  <2> QED
    BY <2>1, LeastExists
<1>3. m \in 1 .. n /\ m - 1 \in 0 .. n /\ ~ (m <= m - 1)
  BY <1>2
<1> QED
  BY <1>2, <1>3

\* Functions F[1], ..., F[n] from the set D to itself can be applied in turn, beginning with any element.
Steps(f, D, base, F, n) ==
  f \in [0 .. n -> D] /\ f[0] = base /\ \A i \in 1 .. n : f[i] = F[i][f[i - 1]]

LEMMA StepsExist ==
  ASSUME NEW D, NEW base \in D, NEW n \in Nat, NEW F \in [1 .. n -> [D -> D]]
  PROVE  \E f : Steps(f, D, base, F, n)
<1> DEFINE Runs(m, f) == f \in [0 .. m -> D] /\ f[0] = base /\ \A i \in 1 .. m : f[i] = F[i][f[i - 1]]
           G == {m \in 0 .. n : \E f : Runs(m, f)}
<1>1. 0 \in G
  <2> DEFINE f == [i \in 0 .. 0 |-> base]
  <2>1. f \in [0 .. 0 -> D] /\ f[0] = base
    OBVIOUS
  <2>2. 1 .. 0 = {}
    OBVIOUS
  <2> HIDE DEF f
  <2>3. Runs(0, f)
    BY <2>1, <2>2
  <2> QED
    BY <2>3
<1>2. ASSUME NEW m \in 1 .. n, m - 1 \in G PROVE m \in G
  <2>1. PICK f : Runs(m - 1, f)
    BY <1>2
  <2> DEFINE next == F[m][f[m - 1]]
             g == [i \in 0 .. m |-> IF i < m THEN f[i] ELSE next]
  <2>2. next \in D
    <3>1. f[m - 1] \in D /\ F[m] \in [D -> D]
      BY <2>1
    <3> QED
      BY <3>1
  <2> HIDE DEF next
  <2>3. \A i \in 0 .. m : g[i] = (IF i < m THEN f[i] ELSE next) /\ g[i] \in D
    BY <2>1, <2>2
  <2>4. g \in [0 .. m -> D]
    BY <2>3
  <2> HIDE DEF g
  <2>5. \A i \in 1 .. m : g[i] = F[i][g[i - 1]]
    <3> SUFFICES ASSUME NEW i \in 1 .. m PROVE g[i] = F[i][g[i - 1]]
      OBVIOUS
    <3>1. i - 1 \in 0 .. m /\ i - 1 < m /\ g[i - 1] = f[i - 1]
      BY <2>3
    <3>2. CASE i < m
      BY <2>1, <2>3, <3>1, <3>2
    <3>3. CASE i = m
      BY <2>3, <3>1, <3>3 DEF next
    <3> QED
      BY <3>2, <3>3
  <2>6. g[0] = base
    BY <2>1, <2>3
  <2> QED
    BY <2>4, <2>5, <2>6
<1> HIDE DEF G
<1>3. G \subseteq 0 .. n
  BY DEF G
<1>4. n \in G
  BY <1>1, <1>2, <1>3, Chain
<1> QED
  BY <1>4 DEF G, Steps

\* A function F from the set D to itself can be applied n times.
Iterates(f, D, base, F, n) ==
  f \in [0 .. n -> D] /\ f[0] = base /\ \A i \in 1 .. n : f[i] = F[f[i - 1]]

LEMMA IterationExists ==
  ASSUME NEW D, NEW base \in D, NEW F \in [D -> D], NEW n \in Nat
  PROVE  \E f : Iterates(f, D, base, F, n)
<1> DEFINE same == [i \in 1 .. n |-> F]
<1>1. same \in [1 .. n -> [D -> D]] /\ \A i \in 1 .. n : same[i] = F
  OBVIOUS
<1> HIDE DEF same
<1>2. PICK f : Steps(f, D, base, same, n)
  BY <1>1, StepsExist
<1>3. Iterates(f, D, base, F, n)
  BY <1>1, <1>2 DEF Steps, Iterates
<1> QED
  BY <1>3
=============================================================================
