---------------------------- MODULE MoveCheckProofs ----------------------------
(***************************************************************************)
(* Proofs about the move checker, for every set of places, every function  *)
(* the generator can emit and every order in which the states of two paths *)
(* are merged.                                                             *)
(***************************************************************************)
EXTENDS MoveCheck, ForwardDataflowProofs, IterationLemmas, SequenceTheorems

-----------------------------------------------------------------------------
(* Places.                                                                 *)

LEMMA PlaceFacts ==
  ASSUME NEW p \in Places
  PROVE  p \in Seq(Nat) /\ Len(p) \in Nat /\ Len(p) > 0
<1>1. p \in Seq(Nat) /\ p # <<>>
  BY PlacesAssumption DEF Places
<1> QED
  BY <1>1, EmptySeq

LEMMA PrefixIs ==
  ASSUME NEW p \in Seq(Nat), NEW q \in Seq(Nat)
  PROVE  IsAncestorOf(p, q) <=> Len(p) <= Len(q) /\ \A i \in 1 .. Len(p) : p[i] = q[i]
<1> DEFINE s == SubSeq(q, 1, Len(p))
<1>1. Len(p) \in Nat /\ Len(q) \in Nat /\ SubSeq(p, 1, Len(p)) = p
  BY LenProperties, SubSeqFull
<1>2. SUFFICES ASSUME Len(p) <= Len(q) PROVE p = s <=> \A i \in 1 .. Len(p) : p[i] = q[i]
  BY <1>1 DEF IsAncestorOf, IsPrefix
<1>3. /\ 1 \in Int /\ Len(p) \in Int
      /\ \A i \in 1 .. Len(p) : q[i] \in Nat
  BY <1>1, <1>2, ElementOfSeq
<1>4. /\ s \in Seq(Nat)
      /\ Len(s) = IF 1 <= Len(p) THEN Len(p) - 1 + 1 ELSE 0
      /\ \A i \in 1 .. Len(p) - 1 + 1 : s[i] = q[1 + i - 1]
  BY <1>3, SubSeqProperties
<1>5. Len(s) = Len(p) /\ \A i \in 1 .. Len(p) : s[i] = q[i]
  BY <1>1, <1>4
<1> HIDE DEF s
<1>6. ASSUME \A i \in 1 .. Len(p) : p[i] = q[i] PROVE p = s
  BY <1>4, <1>5, <1>6, SeqEqual
<1> QED
  BY <1>5, <1>6

\* The ancestors of a place are ordered by their lengths.
LEMMA Ancestry ==
  ASSUME NEW p \in Places, NEW q \in Places, NEW x \in Places, IsAncestorOf(q, x)
  PROVE  /\ Len(q) <= Len(x)
         /\ IsAncestorOf(p, q) => IsAncestorOf(p, x)
         /\ IsAncestorOf(p, x) /\ Len(p) <= Len(q) => IsAncestorOf(p, q)
         /\ IsAncestorOf(p, x) /\ Len(p) = Len(q) => p = q
<1>1. /\ p \in Seq(Nat) /\ q \in Seq(Nat) /\ x \in Seq(Nat)
      /\ Len(p) \in Nat /\ Len(q) \in Nat /\ Len(x) \in Nat
  BY PlaceFacts
<1>2. /\ IsAncestorOf(p, q) <=> Len(p) <= Len(q) /\ \A i \in 1 .. Len(p) : p[i] = q[i]
      /\ IsAncestorOf(p, x) <=> Len(p) <= Len(x) /\ \A i \in 1 .. Len(p) : p[i] = x[i]
      /\ Len(q) <= Len(x) /\ \A i \in 1 .. Len(q) : q[i] = x[i]
  BY <1>1, PrefixIs
<1>3. ASSUME IsAncestorOf(p, x), Len(p) = Len(q) PROVE p = q
  <2>1. \A i \in 1 .. Len(p) : p[i] = q[i]
    BY <1>2, <1>3
  <2> QED
    BY <1>1, <1>3, <2>1, SeqEqual
<1> QED
  BY <1>1, <1>2, <1>3

LEMMA Self == ASSUME NEW p \in Places PROVE IsAncestorOf(p, p)
BY PlaceFacts, PrefixIs

\* Nothing lies below a place without owned fields.
LEMMA NothingBelow ==
  ASSUME NEW p \in Places, Owned[p] = {}, NEW q \in Places, IsAncestorOf(p, q)
  PROVE  p = q
<1>1. p \in Seq(Nat) /\ q \in Seq(Nat) /\ Len(p) \in Nat \ {0} /\ Len(q) \in Nat /\ Len(p) <= Len(q)
  BY PlaceFacts, Ancestry
<1>2. SUFFICES ASSUME Len(p) \in 1 .. Len(q) - 1 PROVE FALSE
  BY <1>1, Self, Ancestry
<1>3. q[Len(p) + 1] \in Owned[SubSeq(q, 1, Len(p))]
  BY <1>2, PlacesAssumption DEF Places
<1>4. SubSeq(q, 1, Len(p)) = p
  BY <1>1, SubSeqFull DEF IsAncestorOf, IsPrefix
<1> QED
  BY <1>3, <1>4

LEMMA ParentFacts ==
  ASSUME NEW p \in Places, Len(p) > 1
  PROVE  Front(p) \in Places /\ Owned[Front(p)] # {} /\ IsAncestorOf(Front(p), p) /\ Front(p) # p
<1>1. p \in Seq(Nat) /\ Len(p) \in Nat /\ Len(p) - 1 \in 1 .. Len(p) - 1
  BY PlaceFacts
<1>2. Front(p) \in Places /\ p[Len(p) - 1 + 1] \in Owned[Front(p)]
  BY <1>1, PlacesAssumption DEF Places, Front
<1>3. 1 \in Int /\ Len(p) - 1 \in Int /\ \A i \in 1 .. Len(p) - 1 : p[i] \in Nat
  BY <1>1, ElementOfSeq
<1>4. /\ Len(Front(p)) = IF 1 <= Len(p) - 1 THEN Len(p) - 1 - 1 + 1 ELSE 0
      /\ \A i \in 1 .. Len(p) - 1 - 1 + 1 : Front(p)[i] = p[1 + i - 1]
  BY <1>3, SubSeqProperties DEF Front
<1>5. Len(Front(p)) = Len(p) - 1 /\ \A i \in 1 .. Len(p) - 1 : Front(p)[i] = p[i]
  BY <1>1, <1>4
<1>6. IsAncestorOf(Front(p), p)
  <2>1. Front(p) \in Seq(Nat)
    BY <1>2, PlaceFacts
  <2>2. Len(Front(p)) <= Len(p) /\ \A i \in 1 .. Len(Front(p)) : Front(p)[i] = p[i]
    BY <1>1, <1>5
  <2> QED
    BY <1>1, <2>1, <2>2, PrefixIs
<1> QED
  BY <1>1, <1>2, <1>5, <1>6

-----------------------------------------------------------------------------
(* The state of a place.                                                   *)

PlaceStates == UNION {[S -> MoveState] : S \in SUBSET Places}

Sure == {"Live", "PartialMoved"}

\* The move states say that p is there.
Here(p, places) == Inherited(p, places) \in Sure

\* k is the entry that p inherits its state from.
Deepest(k, p, places) ==
  k \in DOMAIN places /\ IsAncestorOf(k, p) /\ \A j \in DOMAIN places : IsAncestorOf(j, p) => Len(j) <= Len(k)

LEMMA StateFacts ==
  ASSUME NEW P \in PlaceStates
  PROVE  DOMAIN P \subseteq Places /\ \A k \in DOMAIN P : P[k] \in MoveState
BY DEF PlaceStates

LEMMA InheritsFrom ==
  ASSUME NEW P \in PlaceStates, NEW p \in Places, NEW k, Deepest(k, p, P)
  PROVE  Inherited(p, P) = P[k]
<1> DEFINE anc == {j \in DOMAIN P : IsAncestorOf(j, p)}
           top == CHOOSE j \in anc : \A i \in anc : Len(i) <= Len(j)
<1>1. k \in anc /\ \A i \in anc : Len(i) <= Len(k)
  BY DEF Deepest
<1>2. top \in anc /\ \A i \in anc : Len(i) <= Len(top)
  BY <1>1
<1>3. Inherited(p, P) = P[top]
  BY <1>1 DEF Inherited
<1> HIDE DEF top
<1>4. top \in Places /\ k \in Places /\ IsAncestorOf(top, p) /\ IsAncestorOf(k, p)
  BY <1>1, <1>2, StateFacts
<1>5. Len(top) = Len(k)
  <2>1. Len(top) \in Nat /\ Len(k) \in Nat
    BY <1>4, PlaceFacts
  <2> QED
    BY <1>1, <1>2, <2>1
<1>6. top = k
  BY <1>4, <1>5, Ancestry
<1> QED
  BY <1>3, <1>6

LEMMA InheritsNothing ==
  ASSUME NEW P, NEW p, \A k \in DOMAIN P : ~IsAncestorOf(k, p)
  PROVE  Inherited(p, P) = "Live"
BY DEF Inherited

LEMMA DeepestExists ==
  ASSUME NEW P \in PlaceStates, NEW p \in Places, NEW j \in DOMAIN P, IsAncestorOf(j, p)
  PROVE  \E k : Deepest(k, p, P)
<1> DEFINE anc == {k \in DOMAIN P : IsAncestorOf(k, p)}
           S == {Len(p) - Len(k) : k \in anc}
<1>1. \A k \in anc : k \in Places /\ Len(k) \in Nat /\ Len(p) \in Nat /\ Len(k) <= Len(p)
  BY StateFacts, PlaceFacts, Ancestry
<1>2. S \in SUBSET Nat /\ S # {}
  BY <1>1
<1>3. PICK m \in S : \A n \in S : m <= n
  <2> HIDE DEF S
  <2> QED
    BY <1>2, LeastExists
<1>4. PICK k \in anc : m = Len(p) - Len(k)
  BY <1>3
<1>5. \A i \in anc : Len(i) <= Len(k)
  <2> SUFFICES ASSUME NEW i \in anc PROVE Len(i) <= Len(k)
    OBVIOUS
  <2>1. Len(p) - Len(k) <= Len(p) - Len(i)
    BY <1>3, <1>4
  <2> QED
    BY <1>1, <2>1
<1> QED
  BY <1>4, <1>5 DEF Deepest

LEMMA InheritedType ==
  ASSUME NEW P \in PlaceStates, NEW p \in Places
  PROVE  Inherited(p, P) \in MoveState
<1>1. CASE \A k \in DOMAIN P : ~IsAncestorOf(k, p)
  BY <1>1, InheritsNothing DEF MoveState
<1>2. CASE \E k \in DOMAIN P : IsAncestorOf(k, p)
  BY <1>2, DeepestExists, InheritsFrom, StateFacts DEF Deepest
<1> QED
  BY <1>1, <1>2

\* An entry is its own place's.
LEMMA OwnEntry ==
  ASSUME NEW P \in PlaceStates, NEW p \in DOMAIN P
  PROVE  Inherited(p, P) = P[p]
<1>1. p \in Places
  BY StateFacts
<1>2. Deepest(p, p, P)
  BY <1>1, StateFacts, Self, Ancestry DEF Deepest
<1> QED
  BY <1>1, <1>2, InheritsFrom

LEMMA PlaceStateIs ==
  ASSUME NEW P \in PlaceStates, NEW p \in Places
  PROVE  /\ GetPlaceState(p, P) \in MoveState
         /\ GetPlaceState(p, P) \in Sure <=> Here(p, P)
         /\ GetPlaceState(p, P) \notin Sure => GetPlaceState(p, P) = Inherited(p, P)
         /\ Inherited(p, P) \notin Sure => GetPlaceState(p, P) = Inherited(p, P)
BY InheritedType DEF GetPlaceState, Here, Sure, MoveState

\* What is live as a whole has all its parts.
LEMMA LiveIsWhole ==
  ASSUME NEW P \in PlaceStates, NEW p \in Places, GetPlaceState(p, P) = "Live",
         NEW q \in Places, IsAncestorOf(p, q)
  PROVE  Here(q, P)
<1>1. Inherited(p, P) = "Live" /\ \A k \in DOMAIN P : IsAncestorOf(p, k) => P[k] \notin Gone
  BY DEF GetPlaceState
<1>2. CASE \A k \in DOMAIN P : ~IsAncestorOf(k, q)
  BY <1>2, InheritsNothing DEF Here, Sure
<1>3. CASE \E k \in DOMAIN P : IsAncestorOf(k, q)
  <2>1. PICK k : Deepest(k, q, P)
    BY <1>3, DeepestExists
  <2>2. k \in Places /\ Len(k) \in Nat /\ Len(p) \in Nat /\ Inherited(q, P) = P[k] /\ P[k] \in MoveState
    BY <2>1, StateFacts, PlaceFacts, InheritsFrom DEF Deepest
  <2>3. CASE Len(p) <= Len(k)
    <3>1. IsAncestorOf(p, k)
      BY <2>1, <2>2, <2>3, Ancestry DEF Deepest
    <3> QED
      BY <1>1, <2>1, <2>2, <3>1 DEF Deepest, Gone, MoveState, Here, Sure
  <2>4. CASE Len(k) <= Len(p)
    <3>1. IsAncestorOf(k, p)
      BY <2>1, <2>2, <2>4, Ancestry DEF Deepest
    <3>2. Deepest(k, p, P)
      BY <2>1, <2>2, <3>1, StateFacts, Ancestry DEF Deepest
    <3> QED
      BY <1>1, <2>2, <3>2, InheritsFrom DEF Here, Sure
  <2> QED
    BY <2>2, <2>3, <2>4
<1> QED
  BY <1>2, <1>3

-----------------------------------------------------------------------------
(* What the operations do to the state of each place.                      *)

LEMMA IsState ==
  ASSUME NEW P, DOMAIN P \subseteq Places, \A k \in DOMAIN P : P[k] \in MoveState, P = [k \in DOMAIN P |-> P[k]]
  PROVE  P \in PlaceStates
<1>1. P \in [DOMAIN P -> MoveState]
  OBVIOUS
<1> QED
  BY <1>1 DEF PlaceStates

\* All of p is s in Q, and everything else is as in P.
Overwritten(Q, p, s, P) ==
  /\ Q \in PlaceStates
  /\ \A q \in Places : Inherited(q, Q) = IF IsAncestorOf(p, q) THEN s ELSE Inherited(q, P)
  /\ \A k \in DOMAIN Q : (k = p /\ Q[k] = s) \/ (k \in DOMAIN P /\ Q[k] = P[k])

LEMMA OverwriteGives ==
  ASSUME NEW P \in PlaceStates, NEW p \in Places, NEW s \in MoveState
  PROVE  Overwritten(Overwrite(p, s, P), p, s, P)
<1> DEFINE Q == Overwrite(p, s, P)
           kept == {k \in DOMAIN P : ~IsAncestorOf(p, k)}
<1>1. /\ Q = [k \in kept \cup {p} |-> IF k = p THEN s ELSE P[k]]
      /\ DOMAIN Q = kept \cup {p}
      /\ \A k \in DOMAIN Q : Q[k] = IF k = p THEN s ELSE P[k]
  BY DEF Overwrite
<1> HIDE DEF Q
<1>2. p \notin kept
  BY Self
<1>3. Q \in PlaceStates
  <2>1. DOMAIN Q \subseteq Places /\ \A k \in DOMAIN Q : Q[k] \in MoveState
    BY <1>1, StateFacts
  <2> QED
    BY <1>1, <2>1, IsState
<1>4. ASSUME NEW q \in Places, IsAncestorOf(p, q) PROVE Inherited(q, Q) = s
  <2>1. ASSUME NEW j \in DOMAIN Q, IsAncestorOf(j, q) PROVE Len(j) <= Len(p)
    <3>1. j \in Places /\ Len(j) \in Nat /\ Len(p) \in Nat
      BY <1>3, <2>1, StateFacts, PlaceFacts
    <3>2. CASE j = p
      BY <3>1, <3>2
    <3>3. CASE ~IsAncestorOf(p, j)
      BY <1>4, <2>1, <3>1, <3>3, Ancestry
    <3> QED
      BY <1>1, <2>1, <3>2, <3>3
  <2>2. Deepest(p, q, Q)
    BY <1>1, <1>4, <2>1 DEF Deepest
  <2> QED
    BY <1>1, <1>3, <2>2, InheritsFrom
<1>5. ASSUME NEW q \in Places, ~IsAncestorOf(p, q) PROVE Inherited(q, Q) = Inherited(q, P)
  <2>1. \A j \in Places : IsAncestorOf(j, q) => (j \in DOMAIN Q <=> j \in DOMAIN P)
    BY <1>1, <1>5, Ancestry
  <2>2. CASE \A k \in DOMAIN P : ~IsAncestorOf(k, q)
    <3>1. \A k \in DOMAIN Q : ~IsAncestorOf(k, q)
      BY <1>3, <2>1, <2>2, StateFacts
    <3> QED
      BY <2>2, <3>1, InheritsNothing
  <2>3. CASE \E k \in DOMAIN P : IsAncestorOf(k, q)
    <3>1. PICK k : Deepest(k, q, P)
      BY <2>3, DeepestExists
    <3>2. k \in Places /\ k \in DOMAIN Q /\ k # p
      BY <1>5, <2>1, <3>1, StateFacts DEF Deepest
    <3>3. Deepest(k, q, Q)
      BY <1>3, <2>1, <3>1, <3>2, StateFacts DEF Deepest
    <3>4. Inherited(q, P) = P[k] /\ Inherited(q, Q) = Q[k]
      BY <1>3, <3>1, <3>3, InheritsFrom
    <3> QED
      BY <1>1, <3>2, <3>4
  <2> QED
    BY <2>2, <2>3
<1>6. ASSUME NEW q \in Places PROVE Inherited(q, Q) = IF IsAncestorOf(p, q) THEN s ELSE Inherited(q, P)
  BY <1>4, <1>5
<1>7. ASSUME NEW k \in DOMAIN Q PROVE (k = p /\ Q[k] = s) \/ (k \in DOMAIN P /\ Q[k] = P[k])
  BY <1>1
<1>8. Overwritten(Q, p, s, P)
  BY <1>3, <1>6, <1>7 DEF Overwritten
<1> QED
  BY <1>8 DEF Q

Put(p, s, P) == [k \in DOMAIN P \cup {p} |-> IF k = p THEN s ELSE P[k]]

\* Q has the entry s for p, and its other entries are those of P.
HasEntry(Q, p, s, P) ==
  /\ Q \in PlaceStates
  /\ \A q \in Places : \/ Inherited(q, Q) = Inherited(q, P)
                       \/ IsAncestorOf(p, q) /\ Inherited(q, Q) = s /\ Inherited(q, P) = Inherited(p, P)
  /\ DOMAIN Q = DOMAIN P \cup {p}
  /\ \A k \in DOMAIN Q : Q[k] = IF k = p THEN s ELSE P[k]

LEMMA PutGives ==
  ASSUME NEW P \in PlaceStates, NEW p \in Places, NEW s \in MoveState
  PROVE  HasEntry(Put(p, s, P), p, s, P)
<1> DEFINE Q == Put(p, s, P)
<1>1. /\ Q = [k \in DOMAIN Q |-> Q[k]]
      /\ DOMAIN Q = DOMAIN P \cup {p}
      /\ \A k \in DOMAIN Q : Q[k] = IF k = p THEN s ELSE P[k]
  BY DEF Put
<1> HIDE DEF Q
<1>2. Q \in PlaceStates
  <2>1. DOMAIN Q \subseteq Places /\ \A k \in DOMAIN Q : Q[k] \in MoveState
    BY <1>1, StateFacts
  <2> QED
    BY <1>1, <2>1, IsState
<1>3. ASSUME NEW q \in Places
      PROVE  \/ Inherited(q, Q) = Inherited(q, P)
             \/ IsAncestorOf(p, q) /\ Inherited(q, Q) = s /\ Inherited(q, P) = Inherited(p, P)
  <2>1. CASE \A k \in DOMAIN Q : ~IsAncestorOf(k, q)
    BY <1>1, <2>1, InheritsNothing
  <2>2. CASE \E k \in DOMAIN Q : IsAncestorOf(k, q)
    <3>1. PICK k : Deepest(k, q, Q)
      BY <1>2, <2>2, DeepestExists
    <3>2. Inherited(q, Q) = Q[k] /\ k \in Places
      BY <1>2, <3>1, InheritsFrom, StateFacts DEF Deepest
    <3>3. CASE k # p
      <4>1. Deepest(k, q, P)
        BY <1>1, <3>1, <3>3 DEF Deepest
      <4> QED
        BY <1>1, <3>1, <3>2, <3>3, <4>1, InheritsFrom DEF Deepest
    <3>4. CASE k = p
      <4>1. \A j \in DOMAIN P : IsAncestorOf(j, q) <=> IsAncestorOf(j, p)
        BY <1>1, <3>1, <3>4, StateFacts, Ancestry DEF Deepest
      <4>2. Inherited(q, P) = Inherited(p, P)
        <5>1. CASE \A j \in DOMAIN P : ~IsAncestorOf(j, p)
          BY <4>1, <5>1, InheritsNothing
        <5>2. CASE \E j \in DOMAIN P : IsAncestorOf(j, p)
          <6>1. PICK j : Deepest(j, p, P)
            BY <5>2, DeepestExists
          <6>2. Deepest(j, q, P)
            BY <4>1, <6>1 DEF Deepest
          <6> QED
            BY <6>1, <6>2, InheritsFrom
        <5> QED
          BY <5>1, <5>2
      <4> QED
        BY <1>1, <3>1, <3>2, <3>4, <4>2 DEF Deepest
    <3> QED
      BY <3>3, <3>4
  <2> QED
    BY <2>1, <2>2
<1> QED
  BY <1>1, <1>2, <1>3 DEF Q, HasEntry

\* The place that a move makes gone: p itself, or an ancestor of which, and of all between, the rest is gone.
LEMMA MoveTakes ==
  ASSUME NEW P \in PlaceStates, NEW p \in Places
  PROVE  \E top \in Places :
           /\ IsAncestorOf(top, p)
           /\ MarkMoved(p, P) = Overwrite(top, "Moved", Overwrite(p, "Moved", P))
           /\ top # p => \A b \in ProperAncestors(p) : IsAncestorOf(top, b) => Exhausted(b, p, Overwrite(p, "Moved", P))
<1> DEFINE moved == Overwrite(p, "Moved", P)
           collapsed == {a \in ProperAncestors(p) :
                           \A b \in ProperAncestors(p) : IsAncestorOf(a, b) => Exhausted(b, p, moved)}
           S == collapsed \cup {p}
           top == CHOOSE a \in S : \A b \in S : IsAncestorOf(a, b)
<1>1. \A a \in S : a \in Places /\ Len(a) \in Nat /\ IsAncestorOf(a, p)
  <2>1. ASSUME NEW a \in ProperAncestors(p) PROVE a \in Places /\ IsAncestorOf(a, p)
    <3>1. PICK n \in 1 .. Len(p) - 1 : a = SubSeq(p, 1, n)
      BY <2>1 DEF ProperAncestors
    <3>2. a \in Places /\ p \in Seq(Nat) /\ Len(p) \in Nat /\ a \in Seq(Nat)
      BY <3>1, PlacesAssumption, PlaceFacts DEF Places
    <3>3. 1 \in Int /\ n \in Int /\ \A i \in 1 .. n : p[i] \in Nat
      BY <3>1, <3>2, ElementOfSeq
    <3>4. /\ Len(a) = IF 1 <= n THEN n - 1 + 1 ELSE 0
          /\ \A i \in 1 .. n - 1 + 1 : a[i] = p[1 + i - 1]
      BY <3>1, <3>3, SubSeqProperties
    <3>5. Len(a) = n /\ n <= Len(p) /\ \A i \in 1 .. n : a[i] = p[i]
      BY <3>1, <3>2, <3>4
    <3> QED
      BY <3>2, <3>5, PrefixIs
  <2>2. IsAncestorOf(p, p)
    BY Self
  <2> QED
    BY <2>1, <2>2, PlaceFacts
<1>2. p \in S
  OBVIOUS
<1> HIDE DEF S
<1>3. \E a \in S : \A b \in S : IsAncestorOf(a, b)
  <2> DEFINE lengths == {Len(a) : a \in S}
  <2>1. lengths \in SUBSET Nat /\ lengths # {}
    BY <1>1, <1>2
  <2>2. PICK m \in lengths : \A n \in lengths : m <= n
    <3> HIDE DEF lengths
    <3> QED
      BY <2>1, LeastExists
  <2>3. PICK a \in S : m = Len(a)
    BY <2>2
  <2>4. ASSUME NEW b \in S PROVE IsAncestorOf(a, b)
    <3>1. Len(a) <= Len(b)
      BY <2>2, <2>3
    <3> QED
      BY <1>1, <3>1, Ancestry
  <2> QED
    BY <2>4
<1>4. top \in S
  BY <1>3
<1>5. MarkMoved(p, P) = Overwrite(top, "Moved", moved)
  BY DEF MarkMoved, S
<1>6. top # p => \A b \in ProperAncestors(p) : IsAncestorOf(top, b) => Exhausted(b, p, moved)
  <2> HIDE DEF top, moved
  <2> QED
    BY <1>4 DEF S
<1> HIDE DEF top
<1> QED
  BY <1>1, <1>4, <1>5, <1>6

\* A move takes all of the place, and makes nothing live.
LEMMA MovedGives ==
  ASSUME NEW P \in PlaceStates, NEW p \in Places
  PROVE  /\ MarkMoved(p, P) \in PlaceStates
         /\ \A q \in Places : \/ Inherited(q, MarkMoved(p, P)) = "Moved"
                              \/ ~IsAncestorOf(p, q) /\ Inherited(q, MarkMoved(p, P)) = Inherited(q, P)
         /\ \A k \in DOMAIN MarkMoved(p, P) :
              \/ MarkMoved(p, P)[k] = "Moved" /\ IsAncestorOf(k, p)
              \/ k \in DOMAIN P /\ MarkMoved(p, P)[k] = P[k]
<1> DEFINE moved == Overwrite(p, "Moved", P)
<1>5. PICK top \in Places : IsAncestorOf(top, p) /\ MarkMoved(p, P) = Overwrite(top, "Moved", moved)
  BY MoveTakes
<1> HIDE DEF moved
<1>6. "Moved" \in MoveState
  BY DEF MoveState
<1>7. Overwritten(moved, p, "Moved", P)
  BY <1>6, OverwriteGives DEF moved
<1> DEFINE Q == Overwrite(top, "Moved", moved)
<1>8. Overwritten(Q, top, "Moved", moved)
  <2>1. moved \in PlaceStates /\ top \in Places
    BY <1>5, <1>7 DEF Overwritten
  <2> QED
    BY <1>6, <2>1, OverwriteGives
<1> HIDE DEF Q
<1>9. ASSUME NEW k \in DOMAIN Q
      PROVE  (Q[k] = "Moved" /\ IsAncestorOf(k, p)) \/ (k \in DOMAIN P /\ Q[k] = P[k])
  <2>1. (k = top /\ Q[k] = "Moved") \/ (k \in DOMAIN moved /\ Q[k] = moved[k])
    BY <1>8 DEF Overwritten
  <2>2. k \in DOMAIN moved => (k = p /\ moved[k] = "Moved") \/ (k \in DOMAIN P /\ moved[k] = P[k])
    BY <1>7 DEF Overwritten
  <2> QED
    BY <1>5, Self, <2>1, <2>2
<1>10. ASSUME NEW q \in Places
       PROVE  Inherited(q, Q) = "Moved" \/ (~IsAncestorOf(p, q) /\ Inherited(q, Q) = Inherited(q, P))
  <2>1. Inherited(q, Q) = IF IsAncestorOf(top, q) THEN "Moved" ELSE Inherited(q, moved)
    BY <1>8 DEF Overwritten
  <2>2. Inherited(q, moved) = IF IsAncestorOf(p, q) THEN "Moved" ELSE Inherited(q, P)
    BY <1>7 DEF Overwritten
  <2> QED
    BY <2>1, <2>2
<1>11. Q \in PlaceStates
  BY <1>8 DEF Overwritten
<1>12. MarkMoved(p, P) = Q
  BY <1>5 DEF Q
<1> QED
  BY <1>9, <1>10, <1>11, <1>12

LEMMA DroppedGives ==
  ASSUME NEW P \in PlaceStates, NEW p \in Places
  PROVE  /\ MarkDropped(p, P) \in PlaceStates
         /\ \A q \in Places : \/ Inherited(q, MarkDropped(p, P)) = "Dropped"
                              \/ Inherited(q, MarkDropped(p, P)) = Inherited(q, P)
         /\ \A q \in Places : IsAncestorOf(p, q) =>
              \/ Inherited(q, MarkDropped(p, P)) = "Dropped"
              \/ GetPlaceState(p, P) \in {"Moved", "Uninitialized"} /\ MarkDropped(p, P) = P
         /\ \A k \in DOMAIN MarkDropped(p, P) :
              \/ MarkDropped(p, P)[k] = "Dropped" /\ k = p
              \/ k \in DOMAIN P /\ MarkDropped(p, P)[k] = P[k]
<1>1. CASE GetPlaceState(p, P) \in {"Moved", "Uninitialized"}
  BY <1>1 DEF MarkDropped
<1>2. CASE GetPlaceState(p, P) \notin {"Moved", "Uninitialized"}
  <2>1. MarkDropped(p, P) = Overwrite(p, "Dropped", P) /\ "Dropped" \in MoveState
    BY <1>2 DEF MarkDropped, MoveState
  <2> DEFINE Q == Overwrite(p, "Dropped", P)
  <2>2. Overwritten(Q, p, "Dropped", P)
    BY <2>1, OverwriteGives
  <2> HIDE DEF Q
  <2>3. MarkDropped(p, P) = Q
    BY <2>1 DEF Q
  <2> QED
    BY <2>2, <2>3 DEF Overwritten
<1> QED
  BY <1>1, <1>2

\* Initialising a field of an uninitialised place makes the whole of it live.
Revives(p, P) == Len(p) > 1 /\ Front(p) \in DOMAIN P /\ P[Front(p)] = "Uninitialized"

LEMMA LiveGives ==
  ASSUME NEW P \in PlaceStates, NEW p \in Places
  PROVE  /\ MarkLive(p, P) \in PlaceStates
         /\ \A q \in Places : IsAncestorOf(p, q) => Inherited(q, MarkLive(p, P)) = "Live"
         /\ \A q \in Places : ~IsAncestorOf(p, q) =>
              \/ Inherited(q, MarkLive(p, P)) = Inherited(q, P)
              \/ /\ Revives(p, P) /\ IsAncestorOf(Front(p), q)
                 /\ Inherited(q, P) = "Uninitialized" /\ Inherited(q, MarkLive(p, P)) = "Live"
         /\ \A k \in DOMAIN MarkLive(p, P) :
              \/ MarkLive(p, P)[k] = "Live" /\ k = p
              \/ MarkLive(p, P)[k] = "Live" /\ k = Front(p) /\ Revives(p, P)
              \/ k \in DOMAIN P /\ MarkLive(p, P)[k] = P[k]
<1> DEFINE live == Overwrite(p, "Live", P)
           parent == Front(p)
<1>0. Overwritten(live, p, "Live", P)
  <2>1. "Live" \in MoveState
    BY DEF MoveState
  <2> QED
    BY <2>1, OverwriteGives
<1>1. /\ live \in PlaceStates
      /\ \A q \in Places : Inherited(q, live) = IF IsAncestorOf(p, q) THEN "Live" ELSE Inherited(q, P)
      /\ \A k \in DOMAIN live : (k = p /\ live[k] = "Live") \/ (k \in DOMAIN P /\ live[k] = P[k])
  <2> HIDE DEF live
  <2> QED
    BY <1>0 DEF Overwritten
<1>2. MarkLive(p, P) = IF Len(p) > 1 /\ parent \in DOMAIN live /\ live[parent] = "Uninitialized"
                       THEN [live EXCEPT ![parent] = "Live"] ELSE live
  BY DEF MarkLive
<1> HIDE DEF live
<1>3. CASE ~(Len(p) > 1 /\ parent \in DOMAIN live /\ live[parent] = "Uninitialized")
  BY <1>1, <1>2, <1>3
<1>4. CASE Len(p) > 1 /\ parent \in DOMAIN live /\ live[parent] = "Uninitialized"
  <2>1. parent \in Places /\ parent # p /\ IsAncestorOf(parent, p)
    BY <1>4, ParentFacts
  <2>2. Revives(p, P)
    BY <1>1, <1>4, <2>1 DEF Revives
  <2> DEFINE Q == Put(parent, "Live", live)
  <2>3. MarkLive(p, P) = Q
    BY <1>2, <1>4 DEF Put
  <2>4. HasEntry(Q, parent, "Live", live)
    <3>1. "Live" \in MoveState
      BY DEF MoveState
    <3> HIDE DEF parent
    <3> QED
      BY <1>1, <2>1, <3>1, PutGives
  <2>5. Inherited(parent, live) = "Uninitialized"
    BY <1>1, <1>4, OwnEntry
  <2> HIDE DEF Q
  <2>6. ASSUME NEW q \in Places, IsAncestorOf(p, q) PROVE Inherited(q, Q) = "Live"
    BY <1>1, <2>4, <2>6 DEF HasEntry
  <2>7. ASSUME NEW q \in Places, ~IsAncestorOf(p, q)
        PROVE  \/ Inherited(q, Q) = Inherited(q, P)
               \/ /\ IsAncestorOf(parent, q)
                  /\ Inherited(q, P) = "Uninitialized" /\ Inherited(q, Q) = "Live"
    BY <1>1, <2>4, <2>5, <2>7 DEF HasEntry
  <2>8. ASSUME NEW k \in DOMAIN Q
        PROVE  \/ Q[k] = "Live" /\ k = p
               \/ Q[k] = "Live" /\ k = parent
               \/ k \in DOMAIN P /\ Q[k] = P[k]
    BY <1>1, <1>4, <2>4, <2>8 DEF HasEntry
  <2> QED
    BY <2>2, <2>3, <2>4, <2>6, <2>7, <2>8 DEF HasEntry
<1> QED
  BY <1>3, <1>4

-----------------------------------------------------------------------------
(* The instructions of a block, one after the other.                       *)

LEMMA TransferCases ==
  ASSUME NEW P, NEW inst
  PROVE  /\ inst.op = "alloca" => TransferInst(P, inst) = Put(inst.place, "Uninitialized", P)
         /\ inst.op = "param" => TransferInst(P, inst) = Put(inst.place, "Live", P)
         /\ inst.op = "init" => TransferInst(P, inst) = MarkLive(inst.place, P)
         /\ inst.op \in {"move", "await"} => TransferInst(P, inst) = MarkMoved(inst.place, P)
         /\ inst.op \in {"drop", "free"} => TransferInst(P, inst) = MarkDropped(inst.place, P)
         /\ inst.op \notin {"alloca", "param", "init", "move", "await", "drop", "free"} => TransferInst(P, inst) = P
BY DEF TransferInst, Put

LEMMA TransferType ==
  ASSUME NEW P \in PlaceStates, NEW inst \in Instructions
  PROVE  TransferInst(P, inst) \in PlaceStates
<1>1. inst.place \in Places /\ "Live" \in MoveState /\ "Uninitialized" \in MoveState
  BY DEF Instructions, MoveState
<1> DEFINE p == inst.place
<1>2. HasEntry(Put(p, "Uninitialized", P), p, "Uninitialized", P) /\ HasEntry(Put(p, "Live", P), p, "Live", P)
  BY <1>1, PutGives
<1>3. MarkLive(p, P) \in PlaceStates
  BY <1>1, LiveGives
<1>4. MarkMoved(p, P) \in PlaceStates
  BY <1>1, MovedGives
<1>5. MarkDropped(p, P) \in PlaceStates
  BY <1>1, DroppedGives
<1> QED
  BY <1>2, <1>3, <1>4, <1>5, TransferCases DEF HasEntry

Trace(f, P, s) ==
  /\ f \in [0 .. Len(s) -> PlaceStates]
  /\ f[0] = P
  /\ \A i \in 1 .. Len(s) : f[i] = TransferInst(f[i - 1], s[i])

LEMMA TraceExists ==
  ASSUME NEW P \in PlaceStates, NEW s \in Seq(Instructions)
  PROVE  \E f : Trace(f, P, s)
<1> DEFINE n == Len(s)
           F == [i \in 1 .. n |-> [places \in PlaceStates |-> TransferInst(places, s[i])]]
<1>1. n \in Nat
  BY LenProperties
<1>2. F \in [1 .. n -> [PlaceStates -> PlaceStates]]
  <2>1. ASSUME NEW i \in 1 .. n, NEW places \in PlaceStates PROVE TransferInst(places, s[i]) \in PlaceStates
    BY ElementOfSeq, TransferType
  <2> QED
    BY <2>1
<1>3. \A i \in 1 .. n : \A places \in PlaceStates : F[i][places] = TransferInst(places, s[i])
  OBVIOUS
<1> HIDE DEF F
<1>4. PICK f : Steps(f, PlaceStates, P, F, n)
  <2> HIDE DEF n
  <2> QED
    BY <1>1, <1>2, StepsExist
<1>5. f \in [0 .. n -> PlaceStates] /\ f[0] = P /\ \A i \in 1 .. n : f[i] = F[i][f[i - 1]]
  BY <1>4 DEF Steps
<1>6. ASSUME NEW i \in 1 .. n PROVE f[i] = TransferInst(f[i - 1], s[i])
  <2>1. i - 1 \in 0 .. n
    BY <1>1
  <2>2. f[i - 1] \in PlaceStates
    BY <1>5, <2>1
  <2> QED
    BY <1>3, <1>5, <2>2
<1> QED
  BY <1>5, <1>6 DEF Trace

LEMMA TraceEnds ==
  ASSUME NEW P \in PlaceStates, NEW s \in Seq(Instructions), NEW f, Trace(f, P, s)
  PROVE  TransferInsts(P, s) = f[Len(s)]
<1> DEFINE n == Len(s)
           Fold(g) == g = [i \in 0 .. Len(s) |->
                             IF i = 0 THEN P ELSE TheOnly({TransferInst(a, s[i]) : a \in {g[i - 1]}})]
           fold == CHOOSE g : Fold(g)
<1>1. n \in Nat
  BY LenProperties
<1>2. \A x, inst : TheOnly({TransferInst(a, inst) : a \in {x}}) = TransferInst(x, inst)
  <2>1. \A x : TheOnly({x}) = x
    BY DEF TheOnly
  <2>2. \A x, inst : {TransferInst(a, inst) : a \in {x}} = {TransferInst(x, inst)}
    OBVIOUS
  <2> QED
    BY <2>1, <2>2
<1>3. f \in [0 .. n -> PlaceStates] /\ f[0] = P /\ \A i \in 1 .. n : f[i] = TransferInst(f[i - 1], s[i])
  BY DEF Trace
<1>4. Fold(f)
  <2> DEFINE g == [i \in 0 .. n |-> IF i = 0 THEN P ELSE TheOnly({TransferInst(a, s[i]) : a \in {f[i - 1]}})]
  <2>1. ASSUME NEW i \in 0 .. n PROVE f[i] = g[i]
    <3>1. CASE i = 0
      BY <1>3, <3>1
    <3>2. CASE i # 0
      <4>1. i \in 1 .. n
        BY <1>1, <3>2
      <4>2. g[i] = TransferInst(f[i - 1], s[i])
        BY <1>2, <3>2
      <4> QED
        BY <1>3, <4>1, <4>2
    <3> QED
      BY <3>1, <3>2
  <2>2. f = g
    BY <1>3, <2>1
  <2> QED
    BY <2>2
<1>5. TransferInsts(P, s) = fold[n]
  BY DEF TransferInsts, FoldStrictly
<1>6. Fold(fold)
  BY <1>4
<1>7. /\ fold[0] = P
      /\ \A i \in 1 .. n : fold[i] = TransferInst(fold[i - 1], s[i])
  <2> HIDE DEF fold
  <2>1. 0 \in 0 .. n /\ \A i \in 1 .. n : i \in 0 .. n /\ i # 0
    BY <1>1
  <2>2. \A i \in 0 .. n : fold[i] = IF i = 0 THEN P ELSE TheOnly({TransferInst(a, s[i]) : a \in {fold[i - 1]}})
    BY <1>6
  <2>3. ASSUME NEW i \in 1 .. n PROVE fold[i] = TransferInst(fold[i - 1], s[i])
    <3>1. fold[i] = TheOnly({TransferInst(a, s[i]) : a \in {fold[i - 1]}})
      BY <2>1, <2>2
    <3> QED
      BY <1>2, <3>1
  <2> QED
    BY <2>1, <2>2, <2>3
<1> HIDE DEF fold
<1> DEFINE H == {i \in 0 .. n : fold[i] = f[i]}
<1>8. 0 \in H
  BY <1>1, <1>3, <1>7
<1>9. ASSUME NEW i \in 1 .. n, i - 1 \in H PROVE i \in H
  BY <1>1, <1>3, <1>7, <1>9
<1>10. H = 0 .. n
  <2>1. H \in SUBSET (0 .. n)
    OBVIOUS
  <2> HIDE DEF H, n
  <2> QED
    BY <1>1, <1>8, <1>9, <2>1, Chain
<1>11. n \in H
  BY <1>1, <1>10
<1> QED
  BY <1>5, <1>11

\* What holds before the i-th instruction, and after it.
LEMMA InstStep ==
  ASSUME NEW P \in PlaceStates, NEW s \in Seq(Instructions), NEW i \in 1 .. Len(s)
  PROVE  /\ TransferInsts(P, SubSeq(s, 1, i - 1)) \in PlaceStates
         /\ TransferInsts(P, SubSeq(s, 1, i)) = TransferInst(TransferInsts(P, SubSeq(s, 1, i - 1)), s[i])
<1>1. PICK f : Trace(f, P, s)
  BY TraceExists
<1>2. ASSUME NEW j \in 0 .. Len(s)
      PROVE  TransferInsts(P, SubSeq(s, 1, j)) = f[j] /\ f[j] \in PlaceStates
  <2> DEFINE t == SubSeq(s, 1, j)
             g == [k \in 0 .. j |-> f[k]]
  <2>1. Len(s) \in Nat /\ j \in Nat /\ 1 \in Int /\ j \in Int /\ \A k \in 1 .. j : k \in 1 .. Len(s)
    BY LenProperties
  <2>2. \A k \in 1 .. j : s[k] \in Instructions
    BY <2>1, ElementOfSeq
  <2>3. /\ t \in Seq(Instructions)
        /\ Len(t) = IF 1 <= j THEN j - 1 + 1 ELSE 0
        /\ \A k \in 1 .. j - 1 + 1 : t[k] = s[1 + k - 1]
    BY <2>1, <2>2, SubSeqProperties
  <2>4. Len(t) = j /\ \A k \in 1 .. j : t[k] = s[k]
    BY <2>1, <2>3
  <2> HIDE DEF t
  <2>5. f \in [0 .. Len(s) -> PlaceStates] /\ f[0] = P /\ \A k \in 1 .. Len(s) : f[k] = TransferInst(f[k - 1], s[k])
    BY <1>1 DEF Trace
  <2>6. \A k \in 0 .. j : k \in 0 .. Len(s) /\ g[k] = f[k]
    BY <2>1
  <2>7. g \in [0 .. j -> PlaceStates]
    BY <2>5, <2>6
  <2> HIDE DEF g
  <2>8. ASSUME NEW k \in 1 .. j PROVE g[k] = TransferInst(g[k - 1], t[k])
    <3>1. k \in 0 .. j /\ k - 1 \in 0 .. j
      BY <2>1
    <3> QED
      BY <2>1, <2>4, <2>5, <2>6, <3>1
  <2>9. 0 \in 0 .. j /\ j \in 0 .. j
    BY <2>1
  <2>10. Trace(g, P, t)
    BY <2>4, <2>5, <2>6, <2>7, <2>8, <2>9 DEF Trace
  <2>11. TransferInsts(P, t) = g[j]
    BY <2>3, <2>4, <2>10, TraceEnds
  <2> QED
    BY <2>5, <2>6, <2>9, <2>11 DEF t
<1>3. i - 1 \in 0 .. Len(s) /\ i \in 0 .. Len(s)
  BY LenProperties
<1> QED
  BY <1>1, <1>2, <1>3 DEF Trace

LEMMA InstStart ==
  ASSUME NEW P \in PlaceStates, NEW s
  PROVE  TransferInsts(P, SubSeq(s, 1, 0)) = P
<1>1. SubSeq(s, 1, 0) = <<>> /\ <<>> \in Seq(Instructions) /\ Len(<<>>) = 0
  BY SubSeqEmpty
<1>2. PICK f : Trace(f, P, <<>>)
  BY <1>1, TraceExists
<1> QED
  BY <1>1, <1>2, TraceEnds DEF Trace

-----------------------------------------------------------------------------
(* Joining two paths, in any order of the keys.                            *)

\* What new says of q, P says too.
Weaker(q, new, P) ==
  /\ Here(q, new) => Here(q, P)
  /\ Inherited(q, new) = "Uninitialized" => Inherited(q, P) = "Uninitialized"
  /\ Inherited(q, new) = "Dropped" => Inherited(q, P) = "Dropped"
  /\ Inherited(q, new) \in Vanished => Inherited(q, P) \in Vanished

LEMMA JoinFacts ==
  ASSUME NEW d \in MoveState, NEW s \in MoveState
  PROVE  /\ Join(d, s) \in MoveState
         /\ Join(d, s) \in Sure => d \in Sure /\ s \in Sure
         /\ Join(d, s) = "Uninitialized" => d = "Uninitialized" /\ s = "Uninitialized"
         /\ Join(d, s) = "Dropped" => d = "Dropped" /\ s = "Dropped"
         /\ Join(d, s) \in Vanished => d \in Vanished /\ s \in Vanished
BY DEF Join, MoveState, Sure, Vanished

\* A place inherits what the deepest possible entry above it inherits.
LEMMA SameAbove ==
  ASSUME NEW P \in PlaceStates, NEW q \in Places, NEW k \in Places, IsAncestorOf(k, q),
         \A j \in DOMAIN P : IsAncestorOf(j, q) => Len(j) <= Len(k)
  PROVE  Inherited(q, P) = Inherited(k, P)
<1>1. \A j \in DOMAIN P : IsAncestorOf(j, q) <=> IsAncestorOf(j, k)
  BY StateFacts, Ancestry
<1>2. CASE \A j \in DOMAIN P : ~IsAncestorOf(j, k)
  BY <1>1, <1>2, InheritsNothing
<1>3. CASE \E j \in DOMAIN P : IsAncestorOf(j, k)
  <2>1. PICK j : Deepest(j, k, P)
    BY <1>3, DeepestExists
  <2>2. Deepest(j, q, P)
    BY <1>1, <2>1 DEF Deepest
  <2> QED
    BY <2>1, <2>2, InheritsFrom
<1> QED
  BY <1>2, <1>3

LEMMA MergeKeyGives ==
  ASSUME NEW P \in PlaceStates, NEW src \in PlaceStates, NEW k \in Places
  PROVE  /\ MergeKey(k, P, src) \in PlaceStates
         /\ \A q \in Places : Weaker(q, MergeKey(k, P, src), P)
         /\ Entry(k, P) # Entry(k, src) =>
              /\ HasEntry(MergeKey(k, P, src), k, MergeKey(k, P, src)[k], P)
              /\ MergeKey(k, P, src)[k] \in Sure => Here(k, src)
              /\ MergeKey(k, P, src)[k] = "Uninitialized" => Inherited(k, src) = "Uninitialized"
              /\ MergeKey(k, P, src)[k] = "Dropped" => Inherited(k, src) = "Dropped"
              /\ MergeKey(k, P, src)[k] \in Vanished => Inherited(k, src) \in Vanished
<1> DEFINE new == MergeKey(k, P, src)
<1>1. CASE Entry(k, P) = Entry(k, src)
  BY <1>1 DEF MergeKey, Weaker
<1>2. CASE Entry(k, P) # Entry(k, src)
  <2> DEFINE d == GetPlaceState(k, P)
             s == GetPlaceState(k, src)
             joined == Join(d, s)
  <2>1. d \in MoveState /\ s \in MoveState /\ (d \in Sure <=> Here(k, P)) /\ (s \in Sure <=> Here(k, src))
    BY PlaceStateIs
  <2>2. /\ d = "Uninitialized" => Inherited(k, P) = "Uninitialized"
        /\ s = "Uninitialized" => Inherited(k, src) = "Uninitialized"
        /\ d = "Dropped" => Inherited(k, P) = "Dropped"
        /\ s = "Dropped" => Inherited(k, src) = "Dropped"
        /\ d \in Vanished => Inherited(k, P) \in Vanished
        /\ s \in Vanished => Inherited(k, src) \in Vanished
    BY PlaceStateIs DEF Sure, Vanished
  <2>3. new = Put(k, joined, P)
    BY <1>2 DEF MergeKey, Put
  <2> HIDE DEF d, s, new
  <2>4. /\ joined \in MoveState
        /\ joined \in Sure => d \in Sure /\ s \in Sure
        /\ joined = "Uninitialized" => d = "Uninitialized" /\ s = "Uninitialized"
        /\ joined = "Dropped" => d = "Dropped" /\ s = "Dropped"
        /\ joined \in Vanished => d \in Vanished /\ s \in Vanished
    BY <2>1, JoinFacts
  <2> HIDE DEF joined
  <2>5. HasEntry(new, k, joined, P)
    BY <2>3, <2>4, PutGives
  <2>6. new[k] = joined
    BY <2>5 DEF HasEntry
  <2>7. ASSUME NEW q \in Places PROVE Weaker(q, new, P)
    <3>1. \/ Inherited(q, new) = Inherited(q, P)
          \/ Inherited(q, new) = joined /\ Inherited(q, P) = Inherited(k, P)
      BY <2>5 DEF HasEntry
    <3> QED
      BY <2>1, <2>2, <2>4, <3>1 DEF Weaker, Here
  <2>8. new \in PlaceStates
    BY <2>5 DEF HasEntry
  <2> QED
    BY <2>1, <2>2, <2>4, <2>5, <2>6, <2>7, <2>8 DEF new
<1> QED
  BY <1>1, <1>2

Merging(f, dest, src, keys) ==
  /\ f \in [0 .. Len(keys) -> PlaceStates]
  /\ f[0] = dest
  /\ \A i \in 1 .. Len(keys) : f[i] = MergeKey(keys[i], f[i - 1], src)

LEMMA MergingExists ==
  ASSUME NEW dest \in PlaceStates, NEW src \in PlaceStates, NEW keys \in Seq(Places)
  PROVE  \E f : Merging(f, dest, src, keys)
<1> DEFINE n == Len(keys)
           F == [i \in 1 .. n |-> [P \in PlaceStates |-> MergeKey(keys[i], P, src)]]
<1>1. n \in Nat
  BY LenProperties
<1>2. F \in [1 .. n -> [PlaceStates -> PlaceStates]]
  <2>1. ASSUME NEW i \in 1 .. n, NEW P \in PlaceStates PROVE MergeKey(keys[i], P, src) \in PlaceStates
    <3>1. keys[i] \in Places
      BY ElementOfSeq
    <3> QED
      BY <3>1, MergeKeyGives
  <2> QED
    BY <2>1
<1>3. \A i \in 1 .. n : \A P \in PlaceStates : F[i][P] = MergeKey(keys[i], P, src)
  OBVIOUS
<1> HIDE DEF F
<1>4. PICK f : Steps(f, PlaceStates, dest, F, n)
  <2> HIDE DEF n
  <2> QED
    BY <1>1, <1>2, StepsExist
<1>5. f \in [0 .. n -> PlaceStates] /\ f[0] = dest /\ \A i \in 1 .. n : f[i] = F[i][f[i - 1]]
  BY <1>4 DEF Steps
<1>6. ASSUME NEW i \in 1 .. n PROVE f[i] = MergeKey(keys[i], f[i - 1], src)
  <2>1. i - 1 \in 0 .. n
    BY <1>1
  <2>2. f[i - 1] \in PlaceStates
    BY <1>5, <2>1
  <2> QED
    BY <1>3, <1>5, <2>2
<1> QED
  BY <1>5, <1>6 DEF Merging

LEMMA MergingEnds ==
  ASSUME NEW dest \in PlaceStates, NEW src \in PlaceStates, NEW keys \in Seq(Places),
         NEW f, Merging(f, dest, src, keys)
  PROVE  MergeInOrder(keys, dest, src) = f[Len(keys)]
<1> DEFINE n == Len(keys)
           Fold(g) == g = [i \in 0 .. Len(keys) |->
                             IF i = 0 THEN dest
                             ELSE TheOnly({MergeKey(keys[i], a, src) : a \in {g[i - 1]}})]
           fold == CHOOSE g : Fold(g)
<1>1. n \in Nat
  BY LenProperties
<1>2. \A x, k : TheOnly({MergeKey(k, a, src) : a \in {x}}) = MergeKey(k, x, src)
  <2>1. \A x : TheOnly({x}) = x
    BY DEF TheOnly
  <2>2. \A x, k : {MergeKey(k, a, src) : a \in {x}} = {MergeKey(k, x, src)}
    OBVIOUS
  <2> QED
    BY <2>1, <2>2
<1>3. /\ f \in [0 .. n -> PlaceStates] /\ f[0] = dest
      /\ \A i \in 1 .. n : f[i] = MergeKey(keys[i], f[i - 1], src)
  BY DEF Merging
<1>4. Fold(f)
  <2> DEFINE g == [i \in 0 .. n |-> IF i = 0 THEN dest ELSE TheOnly({MergeKey(keys[i], a, src) : a \in {f[i - 1]}})]
  <2>1. ASSUME NEW i \in 0 .. n PROVE f[i] = g[i]
    <3>1. CASE i = 0
      BY <1>3, <3>1
    <3>2. CASE i # 0
      <4>1. i \in 1 .. n
        BY <1>1, <3>2
      <4>2. g[i] = MergeKey(keys[i], f[i - 1], src)
        BY <1>2, <3>2
      <4> QED
        BY <1>3, <4>1, <4>2
    <3> QED
      BY <3>1, <3>2
  <2>2. f = g
    BY <1>3, <2>1
  <2> QED
    BY <2>2
<1>5. MergeInOrder(keys, dest, src) = fold[n]
  BY DEF MergeInOrder, FoldStrictly
<1>6. Fold(fold)
  BY <1>4
<1>7. /\ fold[0] = dest
      /\ \A i \in 1 .. n : fold[i] = MergeKey(keys[i], fold[i - 1], src)
  <2> HIDE DEF fold
  <2>1. 0 \in 0 .. n /\ \A i \in 1 .. n : i \in 0 .. n /\ i # 0
    BY <1>1
  <2>2. \A i \in 0 .. n :
          fold[i] = IF i = 0 THEN dest ELSE TheOnly({MergeKey(keys[i], a, src) : a \in {fold[i - 1]}})
    BY <1>6
  <2>3. ASSUME NEW i \in 1 .. n PROVE fold[i] = MergeKey(keys[i], fold[i - 1], src)
    <3>1. fold[i] = TheOnly({MergeKey(keys[i], a, src) : a \in {fold[i - 1]}})
      BY <2>1, <2>2
    <3> QED
      BY <1>2, <3>1
  <2> QED
    BY <2>1, <2>2, <2>3
<1> HIDE DEF fold
<1> DEFINE H == {i \in 0 .. n : fold[i] = f[i]}
<1>8. 0 \in H
  BY <1>1, <1>3, <1>7
<1>9. ASSUME NEW i \in 1 .. n, i - 1 \in H PROVE i \in H
  BY <1>1, <1>3, <1>7, <1>9
<1>10. H = 0 .. n
  <2>1. H \in SUBSET (0 .. n)
    OBVIOUS
  <2> HIDE DEF H, n
  <2> QED
    BY <1>1, <1>8, <1>9, <2>1, Chain
<1>11. n \in H
  BY <1>1, <1>10
<1> QED
  BY <1>5, <1>11

\* An order of a finite set is a sequence that names every member once.
LEMMA OrderOfSet ==
  ASSUME NEW S, IsFiniteSet(S), NEW keys \in SetToSeqs(S)
  PROVE  /\ keys \in Seq(S)
         /\ \A i, j \in 1 .. Len(keys) : i # j => keys[i] # keys[j]
         /\ \A k \in S : \E i \in 1 .. Len(keys) : keys[i] = k
<1> DEFINE n == Cardinality(S)
           I == 1 .. n
<1>1. n \in Nat
  BY FS_CardinalityType
<1>2. keys \in [I -> S] /\ \A i, j \in I : i # j => keys[i] # keys[j]
  BY DEF SetToSeqs
<1>3. keys \in Seq(S) /\ Len(keys) = n
  BY <1>1, <1>2, LenProperties
<1>4. keys \in Injection(I, S)
  BY <1>2 DEF Injection, IsInjective
<1>5. Cardinality(I) = n
  <2>1. 1 \in Int /\ n \in Int
    BY <1>1
  <2>2. Cardinality(I) = IF 1 > n THEN 0 ELSE n - 1 + 1
    BY <2>1, FS_Interval
  <2> QED
    BY <1>1, <2>2
<1>6. Cardinality(I) = Cardinality(S) <=> keys \in Surjection(I, S)
  <2> HIDE DEF I
  <2> QED
    BY <1>4, FS_Injection
<1>7. keys \in Surjection(I, S)
  BY <1>5, <1>6
<1>8. \A k \in S : \E i \in I : keys[i] = k
  BY <1>7 DEF Surjection
<1> QED
  BY <1>2, <1>3, <1>8

\* After the first i keys: where f[i] has been joined, it says no more than src.
MergeInv(f, dest, src, keys, i) ==
  /\ \A q \in Places : Weaker(q, f[i], dest)
  /\ DOMAIN f[i] = DOMAIN dest \cup {keys[j] : j \in 1 .. i}
  /\ \A k \in DOMAIN f[i] :
       IF k \in {keys[j] : j \in 1 .. i}
       THEN /\ f[i][k] \in Sure => Here(k, src)
            /\ f[i][k] = "Uninitialized" => Inherited(k, src) = "Uninitialized"
            /\ f[i][k] = "Dropped" => Inherited(k, src) = "Dropped"
            /\ f[i][k] \in Vanished => Inherited(k, src) \in Vanished
       ELSE f[i][k] = dest[k]

LEMMA MergeInvStart ==
  ASSUME NEW dest \in PlaceStates, NEW src \in PlaceStates, NEW keys, NEW f, f[0] = dest
  PROVE  MergeInv(f, dest, src, keys, 0)
<1>1. 1 .. 0 = {}
  OBVIOUS
<1>2. {keys[j] : j \in 1 .. 0} = {}
  BY <1>1
<1> QED
  BY <1>2 DEF MergeInv, Weaker

LEMMA MergeInvStep ==
  ASSUME NEW dest \in PlaceStates, NEW src \in PlaceStates, NEW n \in Nat, NEW keys,
         NEW f, NEW i \in 1 .. n,
         \A j \in 1 .. n : keys[j] \in Disputed(dest, src),
         \A j, k \in 1 .. n : j # k => keys[j] # keys[k],
         f[i - 1] \in PlaceStates, f[i] = MergeKey(keys[i], f[i - 1], src),
         MergeInv(f, dest, src, keys, i - 1)
  PROVE  MergeInv(f, dest, src, keys, i)
<1> DEFINE P == f[i - 1]
           Q == f[i]
           k == keys[i]
           Before == {keys[j] : j \in 1 .. i - 1}
<1>1. k \in Disputed(dest, src) /\ k \in Places /\ Entry(k, dest) # Entry(k, src)
  BY StateFacts DEF Disputed
<1>2. {keys[j] : j \in 1 .. i} = Before \cup {k} /\ k \notin Before
  <2>1. \A j \in 1 .. i : j \in 1 .. n /\ (j = i \/ j \in 1 .. i - 1)
    OBVIOUS
  <2>2. \A j \in 1 .. i - 1 : j \in 1 .. i /\ j \in 1 .. n /\ j # i
    OBVIOUS
  <2>3. i \in 1 .. i
    OBVIOUS
  <2> QED
    BY <2>1, <2>2, <2>3
<1>3. /\ \A q \in Places : Weaker(q, P, dest)
      /\ DOMAIN P = DOMAIN dest \cup Before
      /\ \A h \in DOMAIN P :
           IF h \in Before
           THEN /\ P[h] \in Sure => Here(h, src)
                /\ P[h] = "Uninitialized" => Inherited(h, src) = "Uninitialized"
                /\ P[h] = "Dropped" => Inherited(h, src) = "Dropped"
                /\ P[h] \in Vanished => Inherited(h, src) \in Vanished
           ELSE P[h] = dest[h]
  BY DEF MergeInv
<1>4. Q = MergeKey(k, P, src) /\ P \in PlaceStates
  OBVIOUS
<1> HIDE DEF P, Q, k, Before
<1>5. Entry(k, P) # Entry(k, src)
  BY <1>1, <1>2, <1>3 DEF Entry
<1>6. /\ \A q \in Places : Weaker(q, Q, P)
      /\ HasEntry(Q, k, Q[k], P)
      /\ Q[k] \in Sure => Here(k, src)
      /\ Q[k] = "Uninitialized" => Inherited(k, src) = "Uninitialized"
      /\ Q[k] = "Dropped" => Inherited(k, src) = "Dropped"
      /\ Q[k] \in Vanished => Inherited(k, src) \in Vanished
  BY <1>1, <1>4, <1>5, MergeKeyGives
<1>7. \A q \in Places : Weaker(q, Q, dest)
  BY <1>3, <1>6 DEF Weaker
<1>8. DOMAIN Q = DOMAIN P \cup {k} /\ \A h \in DOMAIN Q : h # k => Q[h] = P[h]
  BY <1>6 DEF HasEntry
<1>9. ASSUME NEW h \in DOMAIN Q
      PROVE  IF h \in Before \cup {k}
             THEN /\ Q[h] \in Sure => Here(h, src)
                  /\ Q[h] = "Uninitialized" => Inherited(h, src) = "Uninitialized"
                  /\ Q[h] = "Dropped" => Inherited(h, src) = "Dropped"
                  /\ Q[h] \in Vanished => Inherited(h, src) \in Vanished
             ELSE Q[h] = dest[h]
  <2>1. CASE h = k
    BY <1>6, <2>1
  <2>2. CASE h # k
    BY <1>3, <1>8, <2>2
  <2> QED
    BY <2>1, <2>2
<1>10. {keys[j] : j \in 1 .. i} = Before \cup {k} /\ Q = f[i]
  BY <1>2 DEF Q
<1> QED
  BY <1>3, <1>7, <1>8, <1>9, <1>10 DEF MergeInv

\* The walk over the disputed keys that led to the merged state.
MergeRunOf(keys, f, dest, src, merged) ==
  /\ keys \in Seq(Disputed(dest, src)) /\ Len(keys) \in Nat
  /\ Merging(f, dest, src, keys) /\ merged = f[Len(keys)]
  /\ \A i, j \in 1 .. Len(keys) : i # j => keys[i] # keys[j]
  /\ \A k \in Disputed(dest, src) : \E i \in 1 .. Len(keys) : keys[i] = k

LEMMA MergeRun ==
  ASSUME NEW dest \in PlaceStates, NEW src \in PlaceStates, NEW merged \in MergePlaces(dest, src)
  PROVE  \E keys, f : MergeRunOf(keys, f, dest, src, merged)
<1> DEFINE D == Disputed(dest, src)
<1>1. D \subseteq Places /\ IsFiniteSet(D)
  <2>1. D \subseteq Places
    BY StateFacts DEF Disputed
  <2>2. IsFiniteSet(Places)
    BY PlacesAssumption DEF Places
  <2> QED
    BY <2>1, <2>2, FS_Subset
<1>2. PICK keys \in SetToSeqs(D) : merged = MergeInOrder(keys, dest, src)
  BY DEF MergePlaces
<1>3. /\ keys \in Seq(D) /\ Len(keys) \in Nat
      /\ \A i, j \in 1 .. Len(keys) : i # j => keys[i] # keys[j]
      /\ \A k \in D : \E i \in 1 .. Len(keys) : keys[i] = k
  <2> HIDE DEF D
  <2> QED
    BY <1>1, <1>2, OrderOfSet, LenProperties
<1>4. keys \in Seq(Places)
  BY <1>1, <1>3, ElementOfSeq
<1>5. PICK f : Merging(f, dest, src, keys)
  BY <1>4, MergingExists
<1>6. merged = f[Len(keys)]
  BY <1>2, <1>4, <1>5, MergingEnds
<1>7. MergeRunOf(keys, f, dest, src, merged)
  BY <1>3, <1>5, <1>6 DEF MergeRunOf
<1> QED
  BY <1>7

\* Whatever the order of the keys, a merged state says nothing that one of the two paths does not say.
LEMMA MergeGives ==
  ASSUME NEW dest \in PlaceStates, NEW src \in PlaceStates, NEW merged \in MergePlaces(dest, src)
  PROVE  /\ merged \in PlaceStates /\ DOMAIN merged \subseteq DOMAIN dest \cup DOMAIN src
         /\ DOMAIN src \subseteq DOMAIN merged
         /\ \A q \in Places : Weaker(q, merged, dest) /\ Weaker(q, merged, src)
<1>1. DOMAIN dest \subseteq Places /\ DOMAIN src \subseteq Places
  BY StateFacts
<1> DEFINE D == Disputed(dest, src)
<1>2. D \subseteq DOMAIN dest \cup DOMAIN src /\ D \subseteq Places
  BY <1>1 DEF Disputed
<1>3. PICK keys, f :
        /\ keys \in Seq(D) /\ Len(keys) \in Nat /\ Merging(f, dest, src, keys) /\ merged = f[Len(keys)]
        /\ \A i, j \in 1 .. Len(keys) : i # j => keys[i] # keys[j]
        /\ \A k \in D : \E i \in 1 .. Len(keys) : keys[i] = k
  BY MergeRun DEF MergeRunOf
<1> DEFINE n == Len(keys)
<1>4. /\ n \in Nat
      /\ \A i, j \in 1 .. n : i # j => keys[i] # keys[j]
      /\ \A k \in D : \E i \in 1 .. n : keys[i] = k
  BY <1>3
<1>5. \A j \in 1 .. n : keys[j] \in D
  BY <1>3, ElementOfSeq
<1>6. /\ f \in [0 .. n -> PlaceStates] /\ f[0] = dest
      /\ \A i \in 1 .. n : f[i] = MergeKey(keys[i], f[i - 1], src)
  BY <1>3 DEF Merging
<1>7. merged = f[n]
  BY <1>3
<1> HIDE DEF n
<1>8. MergeInv(f, dest, src, keys, n)
  <2> DEFINE G == {i \in 0 .. n : MergeInv(f, dest, src, keys, i)}
  <2>1. n \in Nat /\ 0 \in G
    BY <1>4, <1>6, MergeInvStart
  <2>2. ASSUME NEW i \in 1 .. n, i - 1 \in G PROVE i \in G
    <3>1. i - 1 \in 0 .. n /\ i \in 0 .. n
      BY <2>1
    <3>2. f[i - 1] \in PlaceStates /\ f[i] = MergeKey(keys[i], f[i - 1], src)
      BY <1>6, <3>1
    <3>3. \A j \in 1 .. n : keys[j] \in D
      BY <1>5
    <3>4. \A j, k \in 1 .. n : j # k => keys[j] # keys[k]
      BY <1>4
    <3>5. MergeInv(f, dest, src, keys, i - 1)
      BY <2>2
    <3>6. MergeInv(f, dest, src, keys, i)
      BY <2>1, <3>2, <3>3, <3>4, <3>5, MergeInvStep
    <3> QED
      BY <3>1, <3>6
  <2>3. G \in SUBSET (0 .. n)
    OBVIOUS
  <2> HIDE DEF G
  <2>4. G = 0 .. n
    BY <2>1, <2>2, <2>3, Chain
  <2>5. n \in G
    BY <2>1, <2>4
  <2> QED
    BY <2>5 DEF G
<1>9. merged \in PlaceStates
  <2>1. n \in 0 .. n
    BY <1>4
  <2> QED
    BY <1>6, <1>7, <2>1
<1>10. {keys[j] : j \in 1 .. n} = D
  BY <1>4, <1>5
<1>11. /\ \A q \in Places : Weaker(q, merged, dest)
       /\ DOMAIN merged = DOMAIN dest \cup D
       /\ \A k \in DOMAIN merged :
            IF k \in D
            THEN /\ merged[k] \in Sure => Here(k, src)
                 /\ merged[k] = "Uninitialized" => Inherited(k, src) = "Uninitialized"
                 /\ merged[k] = "Dropped" => Inherited(k, src) = "Dropped"
                 /\ merged[k] \in Vanished => Inherited(k, src) \in Vanished
            ELSE merged[k] = dest[k]
  BY <1>7, <1>8, <1>10 DEF MergeInv
<1>12. \A k \in Places : k \notin D /\ k \in DOMAIN dest \cup DOMAIN src =>
                           k \in DOMAIN dest /\ k \in DOMAIN src /\ dest[k] = src[k]
  <2> SUFFICES ASSUME NEW k \in Places, k \notin D, k \in DOMAIN dest \cup DOMAIN src
               PROVE  k \in DOMAIN dest /\ k \in DOMAIN src /\ dest[k] = src[k]
    OBVIOUS
  <2>1. Entry(k, dest) = Entry(k, src)
    BY DEF Disputed
  <2>2. /\ k \in DOMAIN dest => dest[k] # "none"
        /\ k \in DOMAIN src => src[k] # "none"
    BY StateFacts DEF MoveState
  <2> QED
    BY <2>1, <2>2 DEF Entry
<1> HIDE DEF D
<1>13. DOMAIN src \subseteq DOMAIN merged
  BY <1>1, <1>11, <1>12
<1>14. ASSUME NEW q \in Places PROVE Weaker(q, merged, src)
  <2>1. CASE \A k \in DOMAIN merged : ~IsAncestorOf(k, q)
    <3>1. Inherited(q, src) = "Live" /\ Inherited(q, merged) = "Live"
      BY <1>13, <2>1, InheritsNothing
    <3> QED
      BY <3>1 DEF Weaker, Here
  <2>2. CASE \E k \in DOMAIN merged : IsAncestorOf(k, q)
    <3>1. PICK k : Deepest(k, q, merged)
      BY <1>9, <2>2, DeepestExists
    <3>2. k \in DOMAIN merged /\ k \in Places /\ Inherited(q, merged) = merged[k]
      BY <1>9, <3>1, StateFacts, InheritsFrom DEF Deepest
    <3>3. Inherited(q, src) = Inherited(k, src)
      BY <1>13, <3>1, <3>2, SameAbove DEF Deepest
    <3>4. CASE k \in D
      BY <1>11, <3>2, <3>3, <3>4 DEF Weaker, Here
    <3>5. CASE k \notin D
      <4>1. k \in DOMAIN src /\ merged[k] = src[k]
        BY <1>11, <1>12, <3>2, <3>5
      <4>2. Inherited(k, src) = src[k]
        BY <4>1, OwnEntry
      <4> QED
        BY <3>2, <3>3, <4>1, <4>2 DEF Weaker, Here
    <3> QED
      BY <3>4, <3>5
  <2> QED
    BY <2>1, <2>2
<1> QED
  BY <1>2, <1>9, <1>11, <1>13, <1>14

-----------------------------------------------------------------------------
(* What the generator's functions guarantee.                               *)

LEMMA CodeFacts ==
  ASSUME NEW f \in Functions, NEW b \in DOMAIN f.code
  PROVE  /\ f.code \in Seq(Seq(Instructions)) /\ DOMAIN f.code = 1 .. Len(f.code) /\ Len(f.code) \in Nat
         /\ f.code[b] \in Seq(Instructions)
         /\ DOMAIN f.code[b] = 1 .. Len(f.code[b]) /\ Len(f.code[b]) \in Nat
         /\ f.ret[b] \in Places \cup {<<>>}
         /\ f.ret[b] # <<>> => f.succ[b] = <<>>
         /\ 1 \notin ToSet(f.succ[b])
<1>1. f.code \in Seq(Seq(Instructions)) /\ DOMAIN f.code = 1 .. Len(f.code) /\ Len(f.code) \in Nat
  BY FunctionsAssumption, LenProperties DEF WellFormed
<1>2. f.code[b] \in Seq(Instructions)
  BY <1>1, ElementOfSeq
<1>3. DOMAIN f.code[b] = 1 .. Len(f.code[b]) /\ Len(f.code[b]) \in Nat
  BY <1>2, LenProperties
<1> QED
  BY <1>1, <1>2, <1>3, FunctionsAssumption DEF WellFormed

LEMMA InstFacts ==
  ASSUME NEW f \in Functions, NEW b \in DOMAIN f.code, NEW i \in DOMAIN f.code[b]
  PROVE  /\ f.code[b][i] \in Instructions /\ f.code[b][i].place \in Places
         /\ WellPlaced(f, b, i)
         /\ f.code[b][i].place \in Allocas(f, f.code[b][i].op)
<1>1. f.code[b] \in Seq(Instructions) /\ DOMAIN f.code[b] = 1 .. Len(f.code[b])
  BY CodeFacts
<1>2. f.code[b][i] \in Instructions
  BY <1>1, ElementOfSeq
<1>3. f.code[b][i] \in UNION {ToSet(f.code[c]) : c \in DOMAIN f.code}
  BY DEF ToSet
<1> QED
  BY <1>2, <1>3, FunctionsAssumption DEF Instructions, WellFormed, Allocas

LEMMA AllocasAre ==
  ASSUME NEW f \in Functions, NEW op, NEW p \in Allocas(f, op)
  PROVE  \E b \in DOMAIN f.code : \E i \in DOMAIN f.code[b] : f.code[b][i].op = op /\ f.code[b][i].place = p
BY DEF Allocas, ToSet

\* Locals have no projections.
LEMMA DeclaredFacts ==
  ASSUME NEW f \in Functions, NEW a \in Declared(f)
  PROVE  a \in Places /\ Len(a) = 1
<1>1. PICK op \in {"alloca", "param"} : a \in Allocas(f, op)
  BY DEF Declared
<1>2. PICK b \in DOMAIN f.code : \E i \in DOMAIN f.code[b] : f.code[b][i].op = op /\ f.code[b][i].place = a
  BY <1>1, AllocasAre
<1>3. PICK i \in DOMAIN f.code[b] : f.code[b][i].op = op /\ f.code[b][i].place = a
  BY <1>2
<1> QED
  BY <1>3, InstFacts DEF WellPlaced

(***************************************************************************)
(* Only a local is explicitly uninitialised or, where only locals are      *)
(* dropped, explicitly dropped; what is there is part of a declared local; *)
(* and no entry says that a part of a local that gets its value as a whole *)
(* is there.                                                               *)
(***************************************************************************)
Tidy(f, P) ==
  \A k \in DOMAIN P :
    /\ P[k] = "Uninitialized" => k \in Allocas(f, "alloca")
    /\ P[k] = "Dropped" /\ RootDrops(f) => Len(k) = 1
    /\ P[k] \in Sure => \E a \in Declared(f) : IsAncestorOf(a, k)
    /\ \A a \in Allocas(f, "alloca") : WholeInit(f, a) /\ IsAncestorOf(a, k) /\ k # a => P[k] \notin Sure

LEMMA InitTidy ==
  ASSUME NEW f \in Functions, NEW P \in PlaceStates, Tidy(f, P), NEW p \in Allocas(f, "init"), p \in Places,
         Revives(p, P)
  PROVE  Front(p) \in Allocas(f, "alloca") /\ Front(p) \in Places /\ Len(Front(p)) = 1 /\ ~WholeInit(f, Front(p))
<1>1. Front(p) \in Allocas(f, "alloca") /\ Len(p) > 1
  BY DEF Revives, Tidy
<1>2. IsAncestorOf(Front(p), p) /\ Front(p) # p
  BY <1>1, ParentFacts
<1>3. Front(p) \in Declared(f)
  BY <1>1 DEF Declared
<1>4. Front(p) \in Places /\ Len(Front(p)) = 1
  BY <1>3, DeclaredFacts
<1> QED
  BY <1>1, <1>2, <1>4 DEF WholeInit

LEMMA TransferTidy ==
  ASSUME NEW f \in Functions, NEW b \in DOMAIN f.code, NEW i \in DOMAIN f.code[b],
         NEW P \in PlaceStates, Tidy(f, P)
  PROVE  Tidy(f, TransferInst(P, f.code[b][i]))
<1> DEFINE inst == f.code[b][i]
           p == inst.place
           op == inst.op
           Q == TransferInst(P, inst)
<1>1. /\ inst \in Instructions /\ p \in Places /\ p \in Allocas(f, op)
      /\ op \in {"alloca", "param", "free"} => Len(p) = 1
      /\ op \in {"param", "init"} => \E a \in Declared(f) : IsAncestorOf(a, p)
  <2>1. op = "param" => p \in Declared(f) /\ IsAncestorOf(p, p)
    BY InstFacts, Self DEF Declared
  <2> QED
    BY <2>1, InstFacts DEF WellPlaced
<1>2. /\ op = "alloca" => Q = Put(p, "Uninitialized", P)
      /\ op = "param" => Q = Put(p, "Live", P)
      /\ op = "init" => Q = MarkLive(p, P)
      /\ op \in {"move", "await"} => Q = MarkMoved(p, P)
      /\ op \in {"drop", "free"} => Q = MarkDropped(p, P)
      /\ op \notin {"alloca", "param", "init", "move", "await", "drop", "free"} => Q = P
  BY TransferCases
<1>3. /\ \A a \in Allocas(f, "alloca") : a \in Places /\ Len(a) = 1
      /\ "Live" \in MoveState /\ "Uninitialized" \in MoveState
  BY DeclaredFacts DEF Declared, MoveState
<1>4. ASSUME op \in {"alloca", "param"}, NEW a \in Allocas(f, "alloca"), IsAncestorOf(a, p) PROVE p = a
  BY <1>1, <1>3, <1>4, Self, Ancestry
<1> HIDE DEF inst, p, op, Q
<1>5. SUFFICES ASSUME NEW k \in DOMAIN Q
               PROVE  \/ k \in DOMAIN P /\ Q[k] = P[k]
                      \/ Q[k] = "Moved"
                      \/ k = p /\ op \in {"drop", "free"} /\ Q[k] = "Dropped"
                      \/ k = p /\ op = "alloca" /\ Q[k] = "Uninitialized"
                      \/ k = p /\ op = "param" /\ Q[k] = "Live"
                      \/ op = "init" /\ Q[k] = "Live" /\ (k = p \/ (k = Front(p) /\ Revives(p, P)))
  <2> SUFFICES ASSUME NEW k \in DOMAIN Q
               PROVE  /\ Q[k] = "Uninitialized" => k \in Allocas(f, "alloca")
                      /\ Q[k] = "Dropped" /\ RootDrops(f) => Len(k) = 1
                      /\ Q[k] \in Sure => \E a \in Declared(f) : IsAncestorOf(a, k)
                      /\ \A a \in Allocas(f, "alloca") :
                           WholeInit(f, a) /\ IsAncestorOf(a, k) /\ k # a => Q[k] \notin Sure
    BY DEF Tidy, Q, inst
  <2>1. CASE k \in DOMAIN P /\ Q[k] = P[k]
    BY <2>1 DEF Tidy
  <2>2. CASE Q[k] = "Moved" \/ (k = p /\ op \in {"drop", "free"} /\ Q[k] = "Dropped")
    BY <1>1, <2>2 DEF Sure, RootDrops
  <2>3. CASE k = p /\ op = "alloca" /\ Q[k] = "Uninitialized"
    BY <1>1, <2>3 DEF Sure
  <2>4. CASE k = p /\ op = "param" /\ Q[k] = "Live"
    BY <1>1, <1>4, <2>4
  <2>5. CASE op = "init" /\ Q[k] = "Live" /\ k = p
    BY <1>1, <2>5 DEF WholeInit
  <2>6. CASE op = "init" /\ Q[k] = "Live" /\ k = Front(p) /\ Revives(p, P)
    <3>1. k \in Places /\ Len(k) = 1 /\ k \in Declared(f) /\ IsAncestorOf(k, k)
      BY <1>1, <2>6, InitTidy, Self DEF Declared
    <3>2. ASSUME NEW a \in Allocas(f, "alloca"), IsAncestorOf(a, k) PROVE k = a
      BY <1>3, <3>1, <3>2, Self, Ancestry
    <3> QED
      BY <2>6, <3>1, <3>2
  <2> QED
    BY <1>5, <2>1, <2>2, <2>3, <2>4, <2>5, <2>6
<1>6. CASE op = "alloca"
  <2>1. HasEntry(Q, p, "Uninitialized", P)
    BY <1>1, <1>2, <1>3, <1>6, PutGives
  <2> QED
    BY <1>6, <2>1 DEF HasEntry
<1>7. CASE op = "param"
  <2>1. HasEntry(Q, p, "Live", P)
    BY <1>1, <1>2, <1>3, <1>7, PutGives
  <2> QED
    BY <1>7, <2>1 DEF HasEntry
<1>8. CASE op = "init"
  BY <1>1, <1>2, <1>8, LiveGives
<1>9. CASE op \in {"move", "await"}
  BY <1>1, <1>2, <1>9, MovedGives
<1>10. CASE op \in {"drop", "free"}
  BY <1>1, <1>2, <1>10, DroppedGives
<1>11. CASE op \notin {"alloca", "param", "init", "move", "await", "drop", "free"}
  BY <1>2, <1>11
<1> QED
  BY <1>6, <1>7, <1>8, <1>9, <1>10, <1>11

LEMMA MergeTidy ==
  ASSUME NEW f \in Functions, NEW dest \in PlaceStates, NEW src \in PlaceStates,
         Tidy(f, dest), Tidy(f, src), NEW merged \in MergePlaces(dest, src)
  PROVE  Tidy(f, merged)
<1>1. /\ merged \in PlaceStates /\ DOMAIN merged \subseteq DOMAIN dest \cup DOMAIN src
      /\ \A q \in Places : Weaker(q, merged, dest) /\ Weaker(q, merged, src)
  BY MergeGives
<1>2. ASSUME NEW k \in DOMAIN merged
      PROVE  \E P \in {dest, src} :
               /\ k \in DOMAIN P
               /\ merged[k] \in Sure => P[k] \in Sure
               /\ merged[k] = "Uninitialized" => P[k] = "Uninitialized"
               /\ merged[k] = "Dropped" => P[k] = "Dropped"
  <2>1. PICK P \in {dest, src} : k \in DOMAIN P
    BY <1>1
  <2>2. Inherited(k, merged) = merged[k] /\ Inherited(k, P) = P[k]
    BY <1>1, <2>1, OwnEntry
  <2>3. Weaker(k, merged, P)
    BY <1>1, StateFacts
  <2> QED
    BY <2>1, <2>2, <2>3 DEF Weaker, Here
<1> QED
  BY <1>2 DEF Tidy

-----------------------------------------------------------------------------
(* The states the engine computes.                                         *)

LEMMA BlockFacts ==
  ASSUME NEW f \in Functions, NEW b \in DOMAIN f.code, NEW P \in PlaceStates, Tidy(f, P), NEW j \in 0 .. Len(f.code[b])
  PROVE  /\ TransferInsts(P, SubSeq(f.code[b], 1, j)) \in PlaceStates
         /\ Tidy(f, TransferInsts(P, SubSeq(f.code[b], 1, j)))
<1> DEFINE s == f.code[b]
           n == Len(s)
           Before(i) == TransferInsts(P, SubSeq(s, 1, i))
           G == {i \in 0 .. n : Before(i) \in PlaceStates /\ Tidy(f, Before(i))}
<1>1. s \in Seq(Instructions) /\ n \in Nat /\ DOMAIN s = 1 .. n
  BY CodeFacts
<1>2. 0 \in G
  <2>1. Before(0) = P
    BY InstStart
  <2> QED
    BY <1>1, <2>1
<1>3. ASSUME NEW i \in 1 .. n, i - 1 \in G PROVE i \in G
  <2>1. i - 1 \in 0 .. n /\ i \in 0 .. n /\ i \in DOMAIN f.code[b] /\ i \in 1 .. Len(s)
    BY <1>1
  <2>2. Before(i) = TransferInst(Before(i - 1), s[i])
    BY <1>1, <2>1, InstStep
  <2>3. Before(i - 1) \in PlaceStates /\ Tidy(f, Before(i - 1))
    BY <1>3
  <2> HIDE DEF Before
  <2>4. Tidy(f, TransferInst(Before(i - 1), s[i]))
    BY <2>1, <2>3, TransferTidy
  <2>5. TransferInst(Before(i - 1), s[i]) \in PlaceStates
    <3>1. s[i] \in Instructions
      BY <2>1, InstFacts
    <3> QED
      BY <2>3, <3>1, TransferType
  <2> QED
    BY <2>1, <2>2, <2>4, <2>5
<1>4. G \in SUBSET (0 .. n)
  OBVIOUS
<1>5. G = 0 .. n
  <2> HIDE DEF G, n
  <2> QED
    BY <1>1, <1>2, <1>3, <1>4, Chain
<1> QED
  BY <1>5

LEMMA WholeBlock ==
  ASSUME NEW f \in Functions, NEW b \in DOMAIN f.code
  PROVE  SubSeq(f.code[b], 1, Len(f.code[b])) = f.code[b] /\ Len(f.code[b]) \in 0 .. Len(f.code[b])
<1>1. f.code[b] \in Seq(Instructions) /\ Len(f.code[b]) \in Nat
  BY CodeFacts
<1> QED
  BY <1>1, SubSeqFull

\* The states of the analysis.
MoveStates == [unvisited : BOOLEAN, places : PlaceStates]

LEMMA TransferGives ==
  ASSUME NEW f \in Functions, NEW b \in DOMAIN f.code, NEW s \in MoveStates, Tidy(f, s.places)
  PROVE  /\ MoveTransfer(f, b, s) \in MoveStates
         /\ Tidy(f, MoveTransfer(f, b, s).places)
         /\ f.succ[b] # <<>> => MoveTransfer(f, b, s).places = TransferInsts(s.places, f.code[b])
<1> DEFINE after == TransferInsts(s.places, f.code[b])
           P == IF f.ret[b] = <<>> THEN after ELSE MarkMoved(f.ret[b], after)
<1>1. s.places \in PlaceStates /\ s = [unvisited |-> s.unvisited, places |-> s.places] /\ s.unvisited \in BOOLEAN
  BY DEF MoveStates
<1>2. after \in PlaceStates /\ Tidy(f, after)
  BY <1>1, BlockFacts, WholeBlock
<1>3. MoveTransfer(f, b, s) = [s EXCEPT !.places = P]
  BY DEF MoveTransfer, TheOnly
<1>4. f.ret[b] \in Places \cup {<<>>} /\ (f.ret[b] # <<>> => f.succ[b] = <<>>)
  BY CodeFacts
<1> HIDE DEF after
<1>5. P \in PlaceStates /\ Tidy(f, P)
  <2>1. CASE f.ret[b] = <<>>
    BY <1>2, <2>1
  <2>2. CASE f.ret[b] # <<>>
    <3> DEFINE p == f.ret[b]
               Q == MarkMoved(p, after)
    <3>1. p \in Places /\ P = Q
      BY <1>4, <2>2
    <3> HIDE DEF p, P
    <3>2. Q \in PlaceStates /\ \A k \in DOMAIN Q : Q[k] = "Moved" \/ (k \in DOMAIN after /\ Q[k] = after[k])
      BY <1>2, <3>1, MovedGives
    <3> HIDE DEF Q
    <3>3. Tidy(f, Q)
      BY <1>2, <3>2 DEF Tidy, Sure
    <3> QED
      BY <3>1, <3>2, <3>3
  <2> QED
    BY <2>1, <2>2
<1>6. f.succ[b] # <<>> => P = after
  BY <1>4
<1> HIDE DEF P
<1>7. [s EXCEPT !.places = P] = [unvisited |-> s.unvisited, places |-> P]
  BY <1>1
<1> QED
  BY <1>1, <1>3, <1>5, <1>6, <1>7 DEF after, MoveStates

LEMMA MergedGives ==
  ASSUME NEW f \in Functions, NEW d \in MoveStates, NEW s \in MoveStates,
         Tidy(f, d.places), Tidy(f, s.places), NEW m \in MoveMergeResults(d, s)
  PROVE  /\ m \in MoveStates /\ ~m.unvisited /\ Tidy(f, m.places)
         /\ \A q \in Places : Weaker(q, m.places, s.places)
         /\ DOMAIN s.places \subseteq DOMAIN m.places
         /\ ~d.unvisited => \A q \in Places : Weaker(q, m.places, d.places)
<1>1. /\ d.places \in PlaceStates /\ d = [unvisited |-> d.unvisited, places |-> d.places] /\ d.unvisited \in BOOLEAN
      /\ s.places \in PlaceStates /\ s = [unvisited |-> s.unvisited, places |-> s.places] /\ s.unvisited \in BOOLEAN
  BY DEF MoveStates
<1>2. CASE d.unvisited
  <2>1. m = [unvisited |-> FALSE, places |-> s.places]
    BY <1>1, <1>2 DEF MoveMergeResults
  <2>2. m.places = s.places /\ m.unvisited = FALSE
    BY <2>1
  <2> QED
    BY <1>1, <1>2, <2>1, <2>2 DEF MoveStates, Weaker
<1>3. CASE ~d.unvisited
  <2>1. PICK merged \in MergePlaces(d.places, s.places) : m = [d EXCEPT !.places = merged]
    BY <1>3 DEF MoveMergeResults
  <2>2. m = [unvisited |-> FALSE, places |-> merged]
    BY <1>1, <1>3, <2>1
  <2>3. m.places = merged /\ m.unvisited = FALSE
    BY <2>2
  <2>4. /\ merged \in PlaceStates /\ DOMAIN s.places \subseteq DOMAIN merged
        /\ \A q \in Places : Weaker(q, merged, d.places) /\ Weaker(q, merged, s.places)
    BY <1>1, <2>1, MergeGives
  <2>5. Tidy(f, merged)
    BY <1>1, <2>1, MergeTidy
  <2>6. m \in MoveStates
    BY <2>2, <2>4 DEF MoveStates
  <2> QED
    BY <2>3, <2>4, <2>5, <2>6
<1> QED
  BY <1>1, <1>2, <1>3

LEMMA EntryFacts ==
  ASSUME NEW f \in Functions
  PROVE  /\ MoveEntryState(f) \in MoveStates /\ ~MoveEntryState(f).unvisited /\ Tidy(f, MoveEntryState(f).places)
         /\ \A a \in Declared(f), q \in Places :
              IsAncestorOf(a, q) => Inherited(q, MoveEntryState(f).places) =
                                      IF a \in Allocas(f, "param") THEN "Live" ELSE "Uninitialized"
<1> DEFINE P == MoveEntryState(f).places
           Live == Allocas(f, "param")
<1>1. /\ P = [p \in Declared(f) |-> IF p \in Live THEN "Live" ELSE "Uninitialized"]
      /\ MoveEntryState(f) = [unvisited |-> FALSE, places |-> P]
      /\ ~MoveEntryState(f).unvisited
  BY DEF MoveEntryState, Declared
<1>2. DOMAIN P = Declared(f) /\ \A k \in Declared(f) : P[k] = IF k \in Live THEN "Live" ELSE "Uninitialized"
  BY <1>1
<1>3. \A a \in Declared(f) : a \in Places /\ Len(a) = 1
  BY DeclaredFacts
<1> HIDE DEF P, Live
<1>4. P \in PlaceStates
  <2>1. DOMAIN P \subseteq Places /\ \A k \in DOMAIN P : P[k] \in MoveState
    BY <1>2, <1>3 DEF MoveState
  <2> QED
    BY <1>1, <1>2, <2>1, IsState
<1>5. Tidy(f, P)
  <2>1. ASSUME NEW k \in Declared(f), NEW a \in Declared(f), IsAncestorOf(a, k) PROVE k = a
    BY <1>3, <2>1, Self, Ancestry
  <2>2. \A k \in Declared(f) : P[k] = "Uninitialized" => k \in Allocas(f, "alloca")
    BY <1>2 DEF Declared, Live
  <2>3. \A a \in Allocas(f, "alloca") : a \in Declared(f)
    BY DEF Declared
  <2>4. \A k \in Declared(f) : IsAncestorOf(k, k)
    BY <1>3, Self
  <2> QED
    BY <1>2, <2>1, <2>2, <2>3, <2>4 DEF Tidy
<1>6. ASSUME NEW a \in Declared(f), NEW q \in Places, IsAncestorOf(a, q) PROVE Inherited(q, P) = P[a]
  <2>1. Deepest(a, q, P)
    BY <1>2, <1>3, <1>6 DEF Deepest
  <2> QED
    BY <1>3, <1>4, <2>1, InheritsFrom
<1>7. MoveEntryState(f) \in MoveStates
  BY <1>1, <1>4 DEF MoveStates
<1> QED
  BY <1>1, <1>2, <1>5, <1>6, <1>7 DEF P, Live

LEMMA DefaultFacts ==
  ASSUME NEW f \in Functions
  PROVE  MoveDefaultState \in MoveStates /\ Tidy(f, MoveDefaultState.places)
<1>1. <<>> \in [{} -> MoveState] /\ DOMAIN <<>> = {}
  OBVIOUS
<1>2. <<>> \in PlaceStates
  BY <1>1 DEF PlaceStates
<1> QED
  BY <1>1, <1>2 DEF MoveDefaultState, MoveStates, Tidy

-----------------------------------------------------------------------------
(* The engine that runs the move analysis.                                 *)

\* The parameters of the engine are the operators of the move analysis, as in every configuration that runs it.
MoveEngine ==
  /\ DefaultState = MoveDefaultState
  /\ \A f \in Functions :
       /\ NumBlocks(f) = MoveNumBlocks(f)
       /\ EntryState(f) = MoveEntryState(f)
       /\ \A b \in DOMAIN f.code :
            /\ Successors(f, b) = MoveSuccessors(f, b)
            /\ \A s \in MoveStates :
                 /\ Transfer(f, b, s) = MoveTransfer(f, b, s)
                 /\ \A c \in DOMAIN f.code : TransferEdge(f, b, c, s) = MoveTransferEdge(f, b, c, s)
  /\ \A d, s \in MoveStates : MergeResults(d, s) = MoveMergeResults(d, s)

\* Every reached block has been given a state, and the entry never says more than its initial state.
AnalysisInv ==
  /\ state \in [Blocks -> MoveStates]
  /\ \A b \in Blocks : Tidy(func, state[b].places)
  /\ out \in MoveStates /\ Tidy(func, out.places)
  /\ \A b \in reachable : ~state[b].unvisited
  /\ \A q \in Places : Weaker(q, state[1].places, MoveEntryState(func).places)

LEMMA FunctionShape ==
  ASSUME MoveEngine, FuncOK
  PROVE  /\ func \in Functions
         /\ Blocks = DOMAIN func.code /\ Blocks = 1 .. Len(func.code) /\ NumBlocks(func) = Len(func.code)
         /\ 1 \in Blocks
         /\ \A b \in Blocks : Succ(b) = func.succ[b]
<1>1. func \in Functions /\ NumBlocks(func) = Len(func.code) /\ NumBlocks(func) \in Nat \ {0}
  BY Shape DEF FuncOK, MoveEngine, MoveNumBlocks
<1>2. DOMAIN func.code = 1 .. Len(func.code)
  BY <1>1, FunctionsAssumption, LenProperties DEF WellFormed
<1>3. Blocks = DOMAIN func.code /\ 1 \in Blocks
  BY <1>1, <1>2 DEF Blocks
<1> QED
  BY <1>1, <1>2, <1>3 DEF MoveEngine, Succ, MoveSuccessors

LEMMA AnalysisInit == MoveEngine /\ EngineInit => AnalysisInv
<1> SUFFICES ASSUME MoveEngine, EngineInit PROVE AnalysisInv
  OBVIOUS
<1>1. FuncOK /\ EntryState(func) = MoveEntryState(func) /\ DefaultState = MoveDefaultState
  BY DEF EngineInit, FuncOK, MoveEngine
<1>2. func \in Functions /\ 1 \in Blocks
  BY <1>1, FunctionShape
<1>3. /\ MoveEntryState(func) \in MoveStates /\ ~MoveEntryState(func).unvisited
      /\ Tidy(func, MoveEntryState(func).places)
  BY <1>2, EntryFacts
<1>4. MoveDefaultState \in MoveStates /\ Tidy(func, MoveDefaultState.places)
  BY <1>2, DefaultFacts
<1>5. /\ state = [b \in Blocks |-> IF b = 1 THEN MoveEntryState(func) ELSE MoveDefaultState]
      /\ reachable = {1} /\ out = MoveDefaultState
  BY <1>1 DEF EngineInit
<1>6. state[1] = MoveEntryState(func)
  BY <1>2, <1>5
<1>7. state \in [Blocks -> MoveStates] /\ \A b \in Blocks : Tidy(func, state[b].places)
  BY <1>3, <1>4, <1>5
<1> QED
  BY <1>3, <1>4, <1>5, <1>6, <1>7 DEF AnalysisInv, Weaker

LEMMA AnalysisStep == MoveEngine /\ FixpointInv /\ AnalysisInv /\ [EngineNext]_engineVars => AnalysisInv'
<1> SUFFICES ASSUME MoveEngine, FixpointInv, AnalysisInv, [EngineNext]_engineVars PROVE AnalysisInv'
  OBVIOUS
<1>1. /\ FuncOK /\ func \in Functions /\ Blocks = DOMAIN func.code /\ 1 \in Blocks
      /\ reachable \in SUBSET Blocks /\ 1 \in reachable
  BY FunctionShape DEF FixpointInv, EngineTypeOK
<1>2. ASSUME UNCHANGED <<func, state, reachable, out>> PROVE AnalysisInv'
  BY <1>2 DEF AnalysisInv, Blocks
<1>3. CASE SkipUnreachable
  BY <1>2, <1>3 DEF SkipUnreachable
<1>4. CASE TransferBlock
  <2>1. cursor \in Blocks /\ state[cursor] \in MoveStates /\ Tidy(func, state[cursor].places)
    BY <1>1, <1>4 DEF TransferBlock, AnalysisInv
  <2>2. out' = MoveTransfer(func, cursor, state[cursor]) /\ UNCHANGED <<func, state, reachable>>
    BY <1>1, <1>4, <2>1 DEF TransferBlock, MoveEngine
  <2>3. out' \in MoveStates /\ Tidy(func, out'.places)
    BY <1>1, <2>1, <2>2, TransferGives
  <2> QED
    BY <2>2, <2>3 DEF AnalysisInv, Blocks
<1>5. CASE PropagateEdge
  <2> DEFINE c == Succ(cursor)[edge]
  <2>1. cursor \in Blocks /\ edge \in 1 .. Len(Succ(cursor)) /\ UNCHANGED <<func, out>>
        /\ reachable' = reachable \cup {c}
    BY <1>5 DEF PropagateEdge
  <2>2. c \in Blocks
    BY <1>1, <2>1, Shape
  <2>3. PICK m \in MergeResults(state[c], TransferEdge(func, cursor, c, out)) : state' = [state EXCEPT ![c] = m]
    BY <1>5 DEF PropagateEdge
  <2> HIDE DEF c
  <2>4. state[c] \in MoveStates /\ Tidy(func, state[c].places) /\ out \in MoveStates /\ Tidy(func, out.places)
    BY <2>2 DEF AnalysisInv
  <2>5. TransferEdge(func, cursor, c, out) = out
    BY <1>1, <2>1, <2>2, <2>4 DEF MoveEngine, MoveTransferEdge
  <2>6. m \in MoveMergeResults(state[c], out)
    BY <2>3, <2>4, <2>5 DEF MoveEngine
  <2>7. /\ m \in MoveStates /\ ~m.unvisited /\ Tidy(func, m.places)
        /\ ~state[c].unvisited => \A q \in Places : Weaker(q, m.places, state[c].places)
    BY <1>1, <2>4, <2>6, MergedGives
  <2>8. /\ state' \in [Blocks -> MoveStates]
        /\ \A b \in Blocks : state'[b] = IF b = c THEN m ELSE state[b]
    BY <2>2, <2>3, <2>7 DEF AnalysisInv
  <2>9. /\ \A b \in Blocks : Tidy(func, state'[b].places)
        /\ \A b \in reachable' : ~state'[b].unvisited
    BY <1>1, <2>1, <2>2, <2>7, <2>8 DEF AnalysisInv
  <2>10. \A q \in Places : Weaker(q, state'[1].places, MoveEntryState(func).places)
    <3>1. CASE c = 1
      <4>1. state'[1] = m /\ ~state[1].unvisited
        BY <1>1, <2>8, <3>1 DEF AnalysisInv
      <4> QED
        BY <2>7, <3>1, <4>1 DEF AnalysisInv, Weaker
    <3>2. CASE c # 1
      <4>1. state'[1] = state[1]
        BY <1>1, <2>8, <3>2
      <4> QED
        BY <4>1 DEF AnalysisInv
    <3> QED
      BY <3>1, <3>2
  <2> QED
    BY <2>1, <2>4, <2>8, <2>9, <2>10 DEF AnalysisInv, Blocks
<1>6. CASE LeaveBlock
  BY <1>2, <1>6 DEF LeaveBlock
<1>7. CASE EndPass
  BY <1>2, <1>7 DEF EndPass
<1>8. CASE UNCHANGED engineVars
  BY <1>2, <1>8 DEF engineVars
<1> QED
  BY <1>3, <1>4, <1>5, <1>6, <1>7, <1>8 DEF EngineNext

\* At the fixpoint, the state of a branch's target says nothing that the branching block does not end with,
\* and has its entries.
LEMMA FlowsAlong ==
  ASSUME MoveEngine, FixpointInv, AnalysisInv, finished, NEW b \in reachable, NEW i \in DOMAIN Succ(b)
  PROVE  /\ Succ(b)[i] \in reachable
         /\ \A q \in Places : Weaker(q, state[Succ(b)[i]].places, TransferInsts(state[b].places, func.code[b]))
         /\ DOMAIN TransferInsts(state[b].places, func.code[b]) \subseteq DOMAIN state[Succ(b)[i]].places
<1> DEFINE c == Succ(b)[i]
           after == MoveTransfer(func, b, state[b])
<1>1. /\ FuncOK /\ func \in Functions /\ Blocks = DOMAIN func.code /\ reachable \in SUBSET Blocks
      /\ \A d \in Blocks : Succ(d) = func.succ[d]
  BY FunctionShape DEF FixpointInv, EngineTypeOK
<1>2. b \in Blocks /\ Succ(b) \in Seq(Blocks) /\ i \in 1 .. Len(Succ(b)) /\ Succ(b) # <<>> /\ c \in Blocks
  <2>1. b \in Blocks /\ Succ(b) \in Seq(Blocks)
    BY <1>1, Shape
  <2>2. i \in 1 .. Len(Succ(b))
    BY <2>1, LenProperties
  <2>3. Succ(b) # <<>>
    BY <2>2
  <2> QED
    BY <2>1, <2>2, <2>3, ElementOfSeq
<1>3. EdgeStable(b, i)
  BY <1>2, FixpointHolds DEF Fixpoint
<1>4. c \in reachable /\ state[c] \in MergeResults(state[c], TransferEdge(func, b, c, Transfer(func, b, state[b])))
  BY <1>3 DEF EdgeStable
<1> HIDE DEF c
<1>5. /\ state[b] \in MoveStates /\ Tidy(func, state[b].places)
      /\ state[c] \in MoveStates /\ Tidy(func, state[c].places) /\ ~state[c].unvisited
  BY <1>2, <1>4 DEF AnalysisInv
<1>6. /\ after \in MoveStates /\ Tidy(func, after.places)
      /\ after.places = TransferInsts(state[b].places, func.code[b])
  BY <1>1, <1>2, <1>5, TransferGives
<1>7. Transfer(func, b, state[b]) = after
  BY <1>1, <1>2, <1>5 DEF MoveEngine
<1> HIDE DEF after
<1>8. TransferEdge(func, b, c, after) = after /\ MergeResults(state[c], after) = MoveMergeResults(state[c], after)
  BY <1>1, <1>2, <1>5, <1>6 DEF MoveEngine, MoveTransferEdge
<1>9. state[c] \in MoveMergeResults(state[c], after)
  BY <1>4, <1>7, <1>8
<1>10. /\ \A q \in Places : Weaker(q, state[c].places, after.places)
       /\ DOMAIN after.places \subseteq DOMAIN state[c].places
  BY <1>1, <1>5, <1>6, <1>9, MergedGives
<1> QED
  BY <1>4, <1>6, <1>10 DEF c

-----------------------------------------------------------------------------
(* What an accepted instruction does to the values.                        *)

LeafPlaces == {p \in Places : Owned[p] = {}}
Fates == [LeafPlaces -> {"uninit", "owned", "gone"}]

\* The effect of an instruction of the cleaned function: P is what the analysis says before it.
Executes(inst, P, o, o2) ==
  LET below(q) == IsAncestorOf(inst.place, q)
  IN  /\ inst.op = "alloca" => \A q \in LeafPlaces : o2[q] = IF below(q) THEN "uninit" ELSE o[q]
      /\ inst.op \in {"param", "init"} => \A q \in LeafPlaces : o2[q] = IF below(q) THEN "owned" ELSE o[q]
      /\ inst.op \in {"move", "await", "free"} => \A q \in LeafPlaces : o2[q] = IF below(q) THEN "gone" ELSE o[q]
      /\ inst.op = "drop" =>
           IF GetPlaceState(inst.place, P) \in {"Moved", "Dropped", "Uninitialized"}
           THEN o2 = o
           ELSE \A q \in LeafPlaces : o2[q] = IF below(q) THEN "gone" ELSE o[q]
      /\ inst.op \notin {"alloca", "param", "init", "move", "await", "drop", "free"} => o2 = o

\* Nothing has left p: it is there, or it is an uninitialised part.
Untouched(p, P) == Here(p, P) \/ (Len(p) > 1 /\ Inherited(p, P) = "Uninitialized")

LEMMA GoneStep ==
  ASSUME NEW f \in Functions, NEW b \in DOMAIN f.code, NEW i \in DOMAIN f.code[b],
         NEW P \in PlaceStates, NEW o \in Fates, NEW o2 \in Fates, Executes(f.code[b][i], P, o, o2),
         NEW q \in LeafPlaces, Untouched(q, P) => o[q] # "gone", Untouched(q, TransferInst(P, f.code[b][i]))
  PROVE  o2[q] # "gone"
<1> DEFINE inst == f.code[b][i]
           p == inst.place
           op == inst.op
           Q == TransferInst(P, inst)
           below == IsAncestorOf(p, q)
<1>1. /\ p \in Places /\ q \in Places /\ Owned[q] = {}
      /\ op \in {"alloca", "param"} => Len(p) = 1
      /\ op = "free" => Len(p) = 1 /\ Owned[p] = {}
  BY InstFacts DEF WellPlaced, LeafPlaces
<1>2. /\ op = "alloca" => Q = Put(p, "Uninitialized", P)
      /\ op = "param" => Q = Put(p, "Live", P)
      /\ op = "init" => Q = MarkLive(p, P)
      /\ op \in {"move", "await"} => Q = MarkMoved(p, P)
      /\ op \in {"drop", "free"} => Q = MarkDropped(p, P)
      /\ op \notin {"alloca", "param", "init", "move", "await", "drop", "free"} => Q = P
  BY TransferCases
<1>3. /\ op = "alloca" => o2[q] = IF below THEN "uninit" ELSE o[q]
      /\ op \in {"param", "init"} => o2[q] = IF below THEN "owned" ELSE o[q]
      /\ op \in {"move", "await", "free"} => o2[q] = IF below THEN "gone" ELSE o[q]
      /\ op = "drop" =>
           IF GetPlaceState(p, P) \in {"Moved", "Dropped", "Uninitialized"}
           THEN o2[q] = o[q]
           ELSE o2[q] = IF below THEN "gone" ELSE o[q]
      /\ op \notin {"alloca", "param", "init", "move", "await", "drop", "free"} => o2 = o
  BY DEF Executes
<1>4. Untouched(q, Q)
  OBVIOUS
<1> HIDE DEF inst, p, op, Q, below
<1>5. CASE op \in {"alloca", "param"}
  <2>1. /\ HasEntry(Put(p, "Uninitialized", P), p, "Uninitialized", P)
        /\ HasEntry(Put(p, "Live", P), p, "Live", P)
    BY <1>1, PutGives DEF MoveState
  <2>2. ~below => Inherited(q, Q) = Inherited(q, P)
    BY <1>1, <1>2, <1>5, <2>1 DEF HasEntry, below
  <2> QED
    BY <1>3, <1>4, <1>5, <2>2 DEF Untouched, Here
<1>6. CASE op = "init"
  <2>1. ~below => \/ Inherited(q, Q) = Inherited(q, P)
                  \/ /\ Revives(p, P) /\ IsAncestorOf(Front(p), q)
                     /\ Inherited(q, P) = "Uninitialized"
    BY <1>1, <1>2, <1>6, LiveGives DEF below
  <2>2. ASSUME Revives(p, P), IsAncestorOf(Front(p), q) PROVE Len(q) > 1
    <3>1. Front(p) \in Places /\ Owned[Front(p)] # {}
      BY <1>1, <2>2, ParentFacts DEF Revives
    <3>2. Len(q) \in Nat /\ Len(Front(p)) \in Nat /\ Len(Front(p)) > 0 /\ Len(Front(p)) <= Len(q)
      BY <1>1, <2>2, <3>1, PlaceFacts, Ancestry
    <3>3. Len(Front(p)) # Len(q)
      BY <1>1, <2>2, <3>1, Self, Ancestry
    <3> QED
      BY <3>2, <3>3
  <2> QED
    BY <1>3, <1>4, <1>6, <2>1, <2>2 DEF Untouched, Here
<1>7. CASE op \in {"move", "await"}
  <2>1. Inherited(q, Q) = "Moved" \/ (~below /\ Inherited(q, Q) = Inherited(q, P))
    BY <1>1, <1>2, <1>7, MovedGives DEF below
  <2> QED
    BY <1>3, <1>4, <1>7, <2>1 DEF Untouched, Here, Sure
<1>8. CASE op = "drop"
  <2>1. /\ Inherited(q, Q) = "Dropped" \/ Inherited(q, Q) = Inherited(q, P)
        /\ below => Inherited(q, Q) = "Dropped" \/ GetPlaceState(p, P) \in {"Moved", "Uninitialized"}
    BY <1>1, <1>2, <1>8, DroppedGives DEF below
  <2> QED
    BY <1>3, <1>4, <1>8, <2>1 DEF Untouched, Here, Sure
<1>9. CASE op = "free"
  <2>1. /\ Inherited(q, Q) = "Dropped" \/ Inherited(q, Q) = Inherited(q, P)
        /\ below => Inherited(q, Q) = "Dropped" \/ (GetPlaceState(p, P) \in {"Moved", "Uninitialized"} /\ Q = P)
    BY <1>1, <1>2, <1>9, DroppedGives DEF below
  <2>2. below => q = p
    BY <1>1, <1>9, NothingBelow DEF below
  <2>3. GetPlaceState(p, P) \in {"Moved", "Uninitialized"} => Inherited(p, P) = GetPlaceState(p, P)
    BY <1>1, PlaceStateIs DEF Sure
  <2>4. ASSUME below PROVE FALSE
    <3>1. Here(q, Q)
      <4>1. q = p
        BY <2>2, <2>4
      <4>2. Len(p) = 1
        BY <1>1, <1>9
      <4>3. ~(Len(q) > 1)
        BY <4>1, <4>2
      <4> QED
        BY <1>4, <4>3 DEF Untouched
    <3> QED
      BY <2>1, <2>2, <2>3, <2>4, <3>1 DEF Here, Sure
  <2> QED
    BY <1>3, <1>4, <1>9, <2>1, <2>4 DEF Untouched, Here, Sure
<1>10. CASE op \notin {"alloca", "param", "init", "move", "await", "drop", "free"}
  BY <1>2, <1>3, <1>4, <1>10
<1> QED
  BY <1>5, <1>6, <1>7, <1>8, <1>9, <1>10

LEMMA OwnedStep ==
  ASSUME NEW f \in Functions, NEW b \in DOMAIN f.code, NEW i \in DOMAIN f.code[b],
         NEW P \in PlaceStates, Tidy(f, P),
         NEW o \in Fates, NEW o2 \in Fates, Executes(f.code[b][i], P, o, o2),
         NEW a \in Declared(f), WholeInit(f, a),
         NEW q \in LeafPlaces, IsAncestorOf(a, q), Here(q, TransferInst(P, f.code[b][i]))
  PROVE  \/ o2[q] = "owned"
         \/ /\ Here(q, P) /\ o2[q] = o[q]
            /\ ~(f.code[b][i].op = "param" /\ IsAncestorOf(f.code[b][i].place, q))
<1> DEFINE inst == f.code[b][i]
           p == inst.place
           op == inst.op
           Q == TransferInst(P, inst)
           below == IsAncestorOf(p, q)
<1>1. /\ p \in Places /\ q \in Places /\ Owned[q] = {} /\ p \in Allocas(f, op)
      /\ op \in {"alloca", "param"} => Len(p) = 1
      /\ op = "free" => Len(p) = 1 /\ Owned[p] = {}
  BY InstFacts DEF WellPlaced, LeafPlaces
<1>2. /\ op = "alloca" => Q = Put(p, "Uninitialized", P)
      /\ op = "param" => Q = Put(p, "Live", P)
      /\ op = "init" => Q = MarkLive(p, P)
      /\ op \in {"move", "await"} => Q = MarkMoved(p, P)
      /\ op \in {"drop", "free"} => Q = MarkDropped(p, P)
      /\ op \notin {"alloca", "param", "init", "move", "await", "drop", "free"} => Q = P
  BY TransferCases
<1>3. /\ op = "alloca" => o2[q] = IF below THEN "uninit" ELSE o[q]
      /\ op \in {"param", "init"} => o2[q] = IF below THEN "owned" ELSE o[q]
      /\ op \in {"move", "await", "free"} => o2[q] = IF below THEN "gone" ELSE o[q]
      /\ op = "drop" =>
           IF GetPlaceState(p, P) \in {"Moved", "Dropped", "Uninitialized"}
           THEN o2[q] = o[q]
           ELSE o2[q] = IF below THEN "gone" ELSE o[q]
      /\ op \notin {"alloca", "param", "init", "move", "await", "drop", "free"} => o2 = o
  BY DEF Executes
<1>4. Here(q, Q) /\ Tidy(f, Q)
  BY TransferTidy
<1>5. SUFFICES o2[q] = "owned" \/ (Here(q, P) /\ o2[q] = o[q] /\ ~(op = "param" /\ below))
  OBVIOUS
<1> HIDE DEF inst, p, op, Q, below
<1>12. ASSUME NEW k \in Places, Len(k) = 1, IsAncestorOf(k, q) PROVE k = a
  BY <1>1, <1>12, DeclaredFacts, Self, Ancestry
<1>6. CASE op \in {"alloca", "param"}
  <2>1. /\ HasEntry(Put(p, "Uninitialized", P), p, "Uninitialized", P)
        /\ HasEntry(Put(p, "Live", P), p, "Live", P)
    BY <1>1, PutGives DEF MoveState
  <2>2. ~below => Inherited(q, Q) = Inherited(q, P)
    BY <1>1, <1>2, <1>6, <2>1 DEF HasEntry, below
  <2>3. ASSUME op = "alloca", below PROVE FALSE
    <3>1. HasEntry(Q, p, "Uninitialized", P)
      BY <1>2, <2>1, <2>3
    <3>2. Q \in PlaceStates /\ p \in DOMAIN Q /\ Q[p] = "Uninitialized"
      BY <3>1 DEF HasEntry
    <3>3. PICK k : Deepest(k, q, Q)
      BY <1>1, <2>3, <3>2, DeepestExists DEF below
    <3>4. k \in DOMAIN Q /\ k \in Places /\ Inherited(q, Q) = Q[k] /\ IsAncestorOf(k, q) /\ Len(p) <= Len(k)
      BY <1>1, <2>3, <3>2, <3>3, InheritsFrom, StateFacts DEF Deepest, below
    <3>5. IsAncestorOf(p, k)
      BY <1>1, <2>3, <3>4, Ancestry DEF below
    <3>6. p \in Allocas(f, "alloca") /\ p = a
      BY <1>1, <1>12, <2>3 DEF below
    <3>7. Q[k] \notin Sure
      <4>1. CASE k = p
        BY <3>2, <4>1 DEF Sure
      <4>2. CASE k # p
        BY <1>4, <3>4, <3>5, <3>6, <4>2 DEF Tidy
      <4> QED
        BY <4>1, <4>2
    <3> QED
      BY <1>4, <3>4, <3>7 DEF Here
  <2> QED
    BY <1>3, <1>4, <1>6, <2>2, <2>3 DEF Here
<1>7. CASE op = "init"
  <2>1. ~below => Inherited(q, Q) = Inherited(q, P) \/ (Revives(p, P) /\ IsAncestorOf(Front(p), q))
    BY <1>1, <1>2, <1>7, LiveGives DEF below
  <2>2. ~(Revives(p, P) /\ IsAncestorOf(Front(p), q))
    BY <1>1, <1>7, <1>12, InitTidy
  <2> QED
    BY <1>3, <1>4, <1>7, <2>1, <2>2 DEF Here
<1>8. CASE op \in {"move", "await"}
  <2>1. Inherited(q, Q) = "Moved" \/ (~below /\ Inherited(q, Q) = Inherited(q, P))
    BY <1>1, <1>2, <1>8, MovedGives DEF below
  <2> QED
    BY <1>3, <1>4, <1>8, <2>1 DEF Here, Sure
<1>9. CASE op = "drop"
  <2>1. /\ Inherited(q, Q) = "Dropped" \/ Inherited(q, Q) = Inherited(q, P)
        /\ below => Inherited(q, Q) = "Dropped" \/ GetPlaceState(p, P) \in {"Moved", "Uninitialized"}
    BY <1>1, <1>2, <1>9, DroppedGives DEF below
  <2> QED
    BY <1>3, <1>4, <1>9, <2>1 DEF Here, Sure
<1>10. CASE op = "free"
  <2>1. /\ Inherited(q, Q) = "Dropped" \/ Inherited(q, Q) = Inherited(q, P)
        /\ below => Inherited(q, Q) = "Dropped" \/ (GetPlaceState(p, P) \in {"Moved", "Uninitialized"} /\ Q = P)
    BY <1>1, <1>2, <1>10, DroppedGives DEF below
  <2>2. below => q = p
    BY <1>1, <1>10, NothingBelow DEF below
  <2>3. GetPlaceState(p, P) \in {"Moved", "Uninitialized"} => Inherited(p, P) = GetPlaceState(p, P)
    BY <1>1, PlaceStateIs DEF Sure
  <2> QED
    BY <1>1, <1>3, <1>4, <1>10, <2>1, <2>2, <2>3 DEF Here, Sure
<1>11. CASE op \notin {"alloca", "param", "init", "move", "await", "drop", "free"}
  BY <1>2, <1>3, <1>4, <1>11
<1> QED
  BY <1>6, <1>7, <1>8, <1>9, <1>10, <1>11

-----------------------------------------------------------------------------
(* The checker: analysis, reports and the position of the execution.       *)

\* What the analysis says at the position the execution has reached.
Now == PlacesBefore(at[1], at[2])

ReportInv ==
  /\ phase \in {"analyse", "emit", "run", "rejected", "returned"}
  /\ phase # "analyse" => finished
  /\ emitted \in 0 .. NumBlocks(func)
  /\ phase = "analyse" => emitted = 0
  /\ diagnostics = UNION {BlockReports(b) : b \in 1 .. emitted}
  /\ deadDrops = UNION {BlockDeadDrops(b) : b \in 1 .. emitted}
  /\ phase \in {"run", "returned"} => diagnostics = {} /\ emitted = NumBlocks(func)

PositionInv ==
  /\ own \in Fates
  /\ at[1] \in reachable /\ at[2] \in 1 .. Len(func.code[at[1]]) + 1
  /\ phase \in {"analyse", "emit"} => at = <<1, 1>> /\ \A q \in LeafPlaces : own[q] = "uninit"

CheckInv == MoveEngine /\ FixpointInv /\ AnalysisInv /\ ReportInv /\ PositionInv

LEMMA CheckInit == MoveEngine /\ Init => CheckInv
<1> SUFFICES ASSUME MoveEngine, Init PROVE CheckInv
  OBVIOUS
<1>1. EngineInit /\ FixpointInv /\ AnalysisInv
  BY InitInv, AnalysisInit DEF Init
<1>2. /\ func \in Functions /\ 1 \in DOMAIN func.code /\ 1 \in reachable /\ NumBlocks(func) \in Nat
  BY <1>1, FunctionShape, Shape DEF FixpointInv, EngineTypeOK
<1>3. ReportInv
  <2>1. 1 .. 0 = {} /\ emitted = 0
    BY DEF Init
  <2>2. UNION {BlockReports(b) : b \in 1 .. emitted} = {} /\ UNION {BlockDeadDrops(b) : b \in 1 .. emitted} = {}
    BY <2>1
  <2> QED
    BY <1>2, <2>1, <2>2 DEF ReportInv, Init
<1>4. PositionInv
  <2>1. Len(func.code[1]) \in Nat
    BY <1>2, CodeFacts
  <2>2. at = <<1, 1>> /\ own = [q \in LeafPlaces |-> "uninit"]
    BY DEF Init, LeafPlaces
  <2> QED
    BY <1>2, <2>1, <2>2 DEF PositionInv, Fates
<1> QED
  BY <1>1, <1>3, <1>4 DEF CheckInv

LEMMA EngineAlong == [Next]_vars => [EngineNext]_engineVars
BY DEF Next, Analyse, EmitBlock, FinishCheck, StepInst, Branch, Return, vars

LEMMA PositionFacts ==
  ASSUME CheckInv
  PROVE  /\ func \in Functions /\ at[1] \in DOMAIN func.code /\ at[1] \in Blocks /\ at[2] \in Nat \ {0}
         /\ Len(func.code[at[1]]) \in Nat
         /\ at[2] <= Len(func.code[at[1]]) => at[2] \in DOMAIN func.code[at[1]]
         /\ Now \in PlaceStates /\ Tidy(func, Now)
<1>1. /\ func \in Functions /\ at[1] \in DOMAIN func.code /\ at[1] \in Blocks
      /\ at[2] \in 1 .. Len(func.code[at[1]]) + 1
  BY FunctionShape DEF CheckInv, FixpointInv, EngineTypeOK, PositionInv
<1>2. Len(func.code[at[1]]) \in Nat /\ DOMAIN func.code[at[1]] = 1 .. Len(func.code[at[1]])
  BY <1>1, CodeFacts
<1>3. state[at[1]].places \in PlaceStates /\ Tidy(func, state[at[1]].places)
  BY <1>1 DEF CheckInv, AnalysisInv, MoveStates
<1>4. at[2] - 1 \in 0 .. Len(func.code[at[1]])
  BY <1>1, <1>2
<1>5. Now \in PlaceStates /\ Tidy(func, Now)
  BY <1>1, <1>3, <1>4, BlockFacts DEF Now, PlacesBefore
<1> QED
  BY <1>1, <1>2, <1>5

\* A function that runs was reported nothing, and lost exactly the drops of what is not there.
LEMMA Accepted ==
  ASSUME CheckInv, phase = "run", at[2] <= Len(func.code[at[1]])
  PROVE  /\ Report(Now, func.code[at[1]][at[2]]) = {}
         /\ <<at[1], at[2]>> \in deadDrops <=>
              /\ func.code[at[1]][at[2]].op = "drop"
              /\ GetPlaceState(func.code[at[1]][at[2]].place, Now) \in {"Moved", "Dropped", "Uninitialized"}
<1>1. at[1] \in 1 .. emitted /\ at[2] \in DOMAIN func.code[at[1]] /\ diagnostics = {}
  BY PositionFacts DEF CheckInv, ReportInv, Blocks
<1>2. BlockReports(at[1]) = {}
  BY <1>1 DEF CheckInv, ReportInv
<1>3. Report(PlacesBefore(at[1], at[2]), func.code[at[1]][at[2]]) = {}
  BY <1>1, <1>2 DEF BlockReports
<1>4. <<at[1], at[2]>> \in deadDrops <=> <<at[1], at[2]>> \in BlockDeadDrops(at[1])
  <2>1. deadDrops = UNION {BlockDeadDrops(b) : b \in 1 .. emitted}
    BY DEF CheckInv, ReportInv
  <2>2. \A b : <<at[1], at[2]>> \in BlockDeadDrops(b) => b = at[1]
    BY DEF BlockDeadDrops
  <2> QED
    BY <1>1, <2>1, <2>2
<1>5. <<at[1], at[2]>> \in BlockDeadDrops(at[1]) <=>
        /\ func.code[at[1]][at[2]].op = "drop"
        /\ GetPlaceState(func.code[at[1]][at[2]].place, PlacesBefore(at[1], at[2]))
             \in {"Moved", "Dropped", "Uninitialized"}
  BY <1>1 DEF BlockDeadDrops
<1> QED
  BY <1>3, <1>4, <1>5 DEF Now

LEMMA StepExecutes ==
  ASSUME CheckInv, StepInst
  PROVE  /\ at[1] \in DOMAIN func.code /\ at[2] \in DOMAIN func.code[at[1]]
         /\ own' \in Fates
         /\ Executes(func.code[at[1]][at[2]], Now, own, own')
         /\ Now' = TransferInst(Now, func.code[at[1]][at[2]])
<1> DEFINE b == at[1]
           i == at[2]
           inst == func.code[b][i]
           p == inst.place
           op == inst.op
           clean == Cleaned(b, i)
<1>1. /\ phase = "run" /\ i <= Len(func.code[b]) /\ at' = <<b, i + 1>>
      /\ UNCHANGED <<func, state, deadDrops>>
  BY DEF StepInst, engineVars, checkVars
<1>2. /\ func \in Functions /\ b \in DOMAIN func.code /\ i \in DOMAIN func.code[b] /\ i \in Nat
      /\ state[b].places \in PlaceStates /\ func.code[b] \in Seq(Instructions) /\ i \in 1 .. Len(func.code[b])
  <2>1. func \in Functions /\ b \in DOMAIN func.code /\ b \in Blocks /\ i \in DOMAIN func.code[b] /\ i \in Nat
    BY <1>1, PositionFacts
  <2>2. state[b].places \in PlaceStates
    BY <2>1 DEF CheckInv, AnalysisInv, MoveStates
  <2> QED
    BY <2>1, <2>2, CodeFacts
<1>3. Now' = TransferInst(Now, inst)
  <2>1. Now = TransferInsts(state[b].places, SubSeq(func.code[b], 1, i - 1))
    BY DEF Now, PlacesBefore
  <2>2. Now' = TransferInsts(state[b].places, SubSeq(func.code[b], 1, i))
    <3>1. at'[1] = b /\ at'[2] = i + 1 /\ at'[2] - 1 = i
      BY <1>1, <1>2
    <3>2. Now' = TransferInsts(state'[at'[1]].places, SubSeq(func'.code[at'[1]], 1, at'[2] - 1))
      BY DEF Now, PlacesBefore
    <3> QED
      BY <1>1, <3>1, <3>2
  <2> QED
    BY <1>2, <2>1, <2>2, InstStep
<1>4. /\ <<b, i>> \in deadDrops <=>
           op = "drop" /\ GetPlaceState(p, Now) \in {"Moved", "Dropped", "Uninitialized"}
      /\ clean = IF <<b, i>> \in deadDrops THEN Removed(inst) ELSE inst
  BY <1>1, Accepted DEF Cleaned, Removed
<1>5. own \in Fates /\ DOMAIN own = LeafPlaces
  BY DEF CheckInv, PositionInv, Fates
<1>6. \A q \in LeafPlaces : q \in Leaves(p) <=> IsAncestorOf(p, q)
  BY DEF Leaves, LeafPlaces
<1>7. CASE <<b, i>> \in deadDrops
  <2>1. clean.op = "nop" /\ op = "drop"
    BY <1>4, <1>7 DEF Removed
  <2>2. own' = own
    BY <2>1 DEF StepInst
  <2> QED
    BY <1>2, <1>3, <1>4, <1>5, <1>7, <2>1, <2>2 DEF Executes
<1>8. CASE <<b, i>> \notin deadDrops
  <2>1. clean = inst /\ (op = "drop" => GetPlaceState(p, Now) \notin {"Moved", "Dropped", "Uninitialized"})
    BY <1>4, <1>8
  <2>2. /\ op = "alloca" => own' = Set(p, "uninit")
        /\ op \in {"param", "init"} => own' = Set(p, "owned")
        /\ op \in {"move", "await", "free", "drop"} => own' = Set(p, "gone")
        /\ op \notin {"alloca", "param", "init", "move", "await", "free", "drop"} => own' = own
    BY <2>1 DEF StepInst
  <2>3. \A v \in {"uninit", "owned", "gone"} :
          Set(p, v) \in Fates /\ \A q \in LeafPlaces : Set(p, v)[q] = IF IsAncestorOf(p, q) THEN v ELSE own[q]
    BY <1>5, <1>6 DEF Set, Fates
  <2>4. own' \in Fates
    BY <1>5, <2>2, <2>3
  <2>5. Executes(inst, Now, own, own')
    BY <2>1, <2>2, <2>3 DEF Executes
  <2> QED
    BY <1>2, <1>3, <2>4, <2>5
<1> QED
  BY <1>7, <1>8

LEMMA ReportStep == CheckInv /\ [Next]_vars => ReportInv'
<1> SUFFICES ASSUME CheckInv, [Next]_vars PROVE ReportInv'
  OBVIOUS
<1>1. NumBlocks(func) \in Nat /\ FuncOK /\ ReportInv /\ (1 .. 0 = {})
  BY Shape DEF CheckInv, FixpointInv
<1>2. CASE Analyse
  <2>1. /\ phase = "analyse" /\ emitted = 0 /\ UNCHANGED <<emitted, diagnostics, deadDrops>>
        /\ phase' = IF finished' THEN "emit" ELSE "analyse"
    BY <1>1, <1>2 DEF Analyse, ReportInv
  <2>2. diagnostics' = {} /\ deadDrops' = {} /\ emitted' = 0 /\ 1 .. emitted' = {}
    BY <1>1, <2>1 DEF ReportInv
  <2>3. /\ UNION {BlockReports(b)' : b \in 1 .. emitted'} = {}
        /\ UNION {BlockDeadDrops(b)' : b \in 1 .. emitted'} = {}
    BY <2>2
  <2>4. func' = func
    BY <1>2 DEF Analyse, EngineNext, SkipUnreachable, TransferBlock, PropagateEdge, LeaveBlock, EndPass
  <2>5. 0 \in 0 .. NumBlocks(func)
    BY <1>1
  <2>6. /\ phase' \in {"analyse", "emit"}
        /\ phase' # "analyse" => finished'
        /\ emitted' \in 0 .. NumBlocks(func')
    BY <2>1, <2>2, <2>4, <2>5
  <2>7. /\ diagnostics' = UNION {BlockReports(b)' : b \in 1 .. emitted'}
        /\ deadDrops' = UNION {BlockDeadDrops(b)' : b \in 1 .. emitted'}
    BY <2>2, <2>3
  <2> QED
    BY <2>2, <2>6, <2>7 DEF ReportInv
<1>3. ASSUME UNCHANGED engineVars
      PROVE  \A b : BlockReports(b)' = BlockReports(b) /\ BlockDeadDrops(b)' = BlockDeadDrops(b)
  BY <1>3 DEF engineVars, BlockReports, BlockDeadDrops, PlacesBefore
<1>4. CASE EmitBlock
  <2>1. /\ phase = "emit" /\ phase' = phase /\ emitted < NumBlocks(func) /\ emitted' = emitted + 1
        /\ diagnostics' = diagnostics \cup BlockReports(emitted + 1)
        /\ deadDrops' = deadDrops \cup BlockDeadDrops(emitted + 1)
        /\ UNCHANGED engineVars /\ func' = func /\ finished' = finished
    BY <1>4 DEF EmitBlock, engineVars
  <2>2. emitted \in Nat /\ 1 .. emitted' = 1 .. emitted \cup {emitted + 1} /\ emitted' \in 0 .. NumBlocks(func)
    BY <1>1, <2>1 DEF ReportInv
  <2>3. \A b : BlockReports(b)' = BlockReports(b) /\ BlockDeadDrops(b)' = BlockDeadDrops(b)
    BY <1>3, <2>1
  <2>4. /\ diagnostics' = UNION {BlockReports(b)' : b \in 1 .. emitted'}
        /\ deadDrops' = UNION {BlockDeadDrops(b)' : b \in 1 .. emitted'}
    BY <1>1, <2>1, <2>2, <2>3 DEF ReportInv
  <2> QED
    BY <1>1, <2>1, <2>2, <2>4 DEF ReportInv
<1>5. ASSUME UNCHANGED <<engineVars, emitted, diagnostics, deadDrops>>,
             phase' \in {"run", "rejected", "returned"}, phase # "analyse",
             phase' \in {"run", "returned"} => diagnostics = {} /\ emitted = NumBlocks(func)
      PROVE  ReportInv'
  <2>1. \A b : BlockReports(b)' = BlockReports(b) /\ BlockDeadDrops(b)' = BlockDeadDrops(b)
    BY <1>3, <1>5
  <2>2. func' = func /\ finished' = finished
    BY <1>5 DEF engineVars
  <2> QED
    BY <1>1, <1>5, <2>1, <2>2 DEF ReportInv
<1>6. CASE FinishCheck
  BY <1>5, <1>6 DEF FinishCheck
<1>7. CASE StepInst \/ Branch
  BY <1>1, <1>5, <1>7 DEF StepInst, Branch, checkVars, ReportInv
<1>8. CASE Return
  BY <1>1, <1>5, <1>8 DEF Return, ReportInv
<1>9. CASE UNCHANGED vars
  <2>1. \A b : BlockReports(b)' = BlockReports(b) /\ BlockDeadDrops(b)' = BlockDeadDrops(b)
    BY <1>3, <1>9 DEF vars
  <2>2. UNCHANGED <<func, finished, phase, emitted, diagnostics, deadDrops>>
    BY <1>9 DEF vars, engineVars, checkVars
  <2> QED
    BY <1>1, <2>1, <2>2 DEF ReportInv
<1> QED
  BY <1>2, <1>4, <1>6, <1>7, <1>8, <1>9 DEF Next

LEMMA PositionStep == CheckInv /\ [Next]_vars => PositionInv'
<1> SUFFICES ASSUME CheckInv, [Next]_vars PROVE PositionInv'
  OBVIOUS
<1>1. PositionInv /\ at[1] \in reachable /\ func \in Functions /\ Blocks = DOMAIN func.code
  BY FunctionShape DEF CheckInv, FixpointInv, PositionInv
<1>2. CASE Analyse
  <2>1. func' = func /\ reachable \subseteq reachable'
    BY <1>2 DEF Analyse, EngineNext, SkipUnreachable, TransferBlock, PropagateEdge, LeaveBlock, EndPass
  <2>2. phase = "analyse" /\ UNCHANGED runVars
    BY <1>2 DEF Analyse
  <2> QED
    BY <1>1, <2>1, <2>2 DEF PositionInv, runVars, LeafPlaces
<1>3. CASE EmitBlock \/ FinishCheck
  <2>1. UNCHANGED <<func, reachable, runVars>> /\ phase = "emit"
    BY <1>3 DEF EmitBlock, FinishCheck, engineVars
  <2> QED
    BY <1>1, <2>1 DEF PositionInv, runVars
<1>4. CASE StepInst
  <2>1. /\ at[2] \in DOMAIN func.code[at[1]] /\ own' \in Fates /\ Len(func.code[at[1]]) \in Nat
        /\ DOMAIN func.code[at[1]] = 1 .. Len(func.code[at[1]])
    BY <1>1, <1>4, StepExecutes, CodeFacts
  <2>2. UNCHANGED <<func, reachable, phase>> /\ phase = "run" /\ at' = <<at[1], at[2] + 1>>
    BY <1>4 DEF StepInst, engineVars, checkVars
  <2>3. at[2] + 1 \in 1 .. Len(func.code[at[1]]) + 1
    BY <2>1
  <2> QED
    BY <1>1, <2>1, <2>2, <2>3 DEF PositionInv
<1>5. CASE Branch
  <2>1. UNCHANGED <<func, reachable, phase, own>> /\ phase = "run"
    BY <1>5 DEF Branch, engineVars, checkVars
  <2>2. PICK i \in DOMAIN Succ(at[1]) : at' = <<Succ(at[1])[i], 1>>
    BY <1>5 DEF Branch
  <2>3. Succ(at[1])[i] \in reachable
    BY <1>1, <2>1, FlowsAlong DEF CheckInv, ReportInv
  <2> DEFINE c == Succ(at[1])[i]
  <2>4. c \in DOMAIN func.code
    BY <1>1, <2>3 DEF CheckInv, FixpointInv, EngineTypeOK
  <2> HIDE DEF c
  <2>5. Len(func.code[c]) \in Nat
    BY <1>1, <2>4, CodeFacts
  <2>6. at'[1] = c /\ at'[2] = 1 /\ c \in reachable /\ 1 \in 1 .. Len(func.code[c]) + 1
    BY <2>2, <2>3, <2>5 DEF c
  <2> QED
    BY <1>1, <2>1, <2>6 DEF PositionInv
<1>6. CASE Return
  BY <1>1, <1>6 DEF Return, PositionInv, engineVars
<1>7. CASE UNCHANGED vars
  BY <1>1, <1>7 DEF vars, engineVars, checkVars, runVars, PositionInv
<1> QED
  BY <1>2, <1>3, <1>4, <1>5, <1>6, <1>7 DEF Next

LEMMA CheckStep == CheckInv /\ [Next]_vars => CheckInv'
<1> SUFFICES ASSUME CheckInv, [Next]_vars PROVE CheckInv'
  OBVIOUS
<1>1. FixpointInv' /\ AnalysisInv'
  BY EngineAlong, FixpointStep, AnalysisStep DEF CheckInv
<1>2. MoveEngine'
  BY DEF CheckInv, MoveEngine
<1> QED
  BY <1>1, <1>2, ReportStep, PositionStep DEF CheckInv

-----------------------------------------------------------------------------
(* The execution keeps to what the analysis says.                          *)

\* What the analysis holds to be there, or never initialised, has not gone.
NoneGone == \A q \in LeafPlaces : Untouched(q, Now) => own[q] # "gone"

\* The parameter that q is a part of is still to be declared.
Awaited(q) ==
  /\ at[1] = 1
  /\ \E j \in at[2] .. Len(func.code[1]) :
       func.code[1][j].op = "param" /\ IsAncestorOf(func.code[1][j].place, q)

\* What the analysis holds to be there is owned.
AllOwned ==
  \A q \in LeafPlaces, a \in Declared(func) :
    WholeInit(func, a) /\ IsAncestorOf(a, q) /\ Here(q, Now) /\ ~Awaited(q) => own[q] = "owned"

RunInv == phase = "run" => NoneGone /\ AllOwned

MoveInv == CheckInv /\ RunInv

LEMMA RunStarts ==
  ASSUME CheckInv, phase \in {"analyse", "emit"}
  PROVE  NoneGone /\ AllOwned
<1>1. at = <<1, 1>> /\ at[1] = 1 /\ at[2] = 1 /\ \A q \in LeafPlaces : own[q] = "uninit"
  BY DEF CheckInv, PositionInv
<1>2. NoneGone
  BY <1>1 DEF NoneGone
<1>3. /\ func \in Functions /\ 1 \in DOMAIN func.code /\ state[1].places \in PlaceStates
      /\ \A q \in Places : Weaker(q, state[1].places, MoveEntryState(func).places)
  <2>1. func \in Functions /\ 1 \in Blocks /\ Blocks = DOMAIN func.code
    BY FunctionShape DEF CheckInv, FixpointInv
  <2> QED
    BY <2>1 DEF CheckInv, AnalysisInv, MoveStates
<1>4. Now = state[1].places
  BY <1>1, <1>3, InstStart DEF Now, PlacesBefore
<1>5. ASSUME NEW q \in LeafPlaces, NEW a \in Declared(func), IsAncestorOf(a, q), Here(q, Now) PROVE Awaited(q)
  <2>1. a \in Allocas(func, "param")
    <3>1. q \in Places
      BY DEF LeafPlaces
    <3>2. Here(q, MoveEntryState(func).places)
      BY <1>3, <1>4, <1>5, <3>1 DEF Weaker
    <3> QED
      BY <1>3, <1>5, <3>1, <3>2, EntryFacts DEF Here, Sure
  <2>2. PICK b \in DOMAIN func.code : \E j \in DOMAIN func.code[b] : func.code[b][j].op = "param" /\ func.code[b][j].place = a
    BY <1>3, <2>1, AllocasAre
  <2>3. PICK j \in DOMAIN func.code[b] : func.code[b][j].op = "param" /\ func.code[b][j].place = a
    BY <2>2
  <2>4. b = 1
    BY <1>3, <2>3, InstFacts DEF WellPlaced
  <2>5. j \in 1 .. Len(func.code[1])
    BY <1>3, <2>3, <2>4, CodeFacts
  <2> QED
    BY <1>1, <1>5, <2>3, <2>4, <2>5 DEF Awaited
<1> QED
  BY <1>2, <1>5 DEF AllOwned

LEMMA NoneGoneStep ==
  ASSUME CheckInv, NoneGone, StepInst
  PROVE  NoneGone'
<1> DEFINE inst == func.code[at[1]][at[2]]
<1>1. /\ at[1] \in DOMAIN func.code /\ at[2] \in DOMAIN func.code[at[1]]
      /\ own' \in Fates /\ Executes(inst, Now, own, own')
      /\ Now' = TransferInst(Now, inst)
  BY StepExecutes
<1>2. func \in Functions /\ Now \in PlaceStates /\ own \in Fates
  BY PositionFacts DEF CheckInv, PositionInv
<1> SUFFICES ASSUME NEW q \in LeafPlaces, Untouched(q, Now') PROVE own'[q] # "gone"
  BY DEF NoneGone
<1>3. Untouched(q, Now) => own[q] # "gone"
  BY DEF NoneGone
<1>4. Untouched(q, TransferInst(Now, inst))
  BY <1>1
<1> QED
  BY <1>1, <1>2, <1>3, <1>4, GoneStep

LEMMA AllOwnedStep ==
  ASSUME CheckInv, AllOwned, StepInst
  PROVE  AllOwned'
<1> DEFINE inst == func.code[at[1]][at[2]]
<1>1. /\ at[1] \in DOMAIN func.code /\ at[2] \in DOMAIN func.code[at[1]]
      /\ own' \in Fates /\ Executes(inst, Now, own, own')
      /\ Now' = TransferInst(Now, inst)
  BY StepExecutes
<1>2. func \in Functions /\ Now \in PlaceStates /\ Tidy(func, Now) /\ own \in Fates /\ at[2] \in Nat
      /\ Len(func.code[at[1]]) \in Nat
  BY PositionFacts DEF CheckInv, PositionInv
<1>3. func' = func /\ at' = <<at[1], at[2] + 1>> /\ at'[1] = at[1] /\ at'[2] = at[2] + 1
  BY DEF StepInst, engineVars
<1> SUFFICES ASSUME NEW q \in LeafPlaces, NEW a \in Declared(func), WholeInit(func, a),
                    IsAncestorOf(a, q), Here(q, Now'), ~Awaited(q)'
             PROVE  own'[q] = "owned"
  BY <1>3 DEF AllOwned, WholeInit
<1>4. \/ own'[q] = "owned"
      \/ Here(q, Now) /\ own'[q] = own[q] /\ ~(inst.op = "param" /\ IsAncestorOf(inst.place, q))
  <2>1. Here(q, TransferInst(Now, inst))
    BY <1>1
  <2> QED
    BY <1>1, <1>2, <2>1, OwnedStep
<1>5. SUFFICES ASSUME Here(q, Now), own'[q] = own[q], ~(inst.op = "param" /\ IsAncestorOf(inst.place, q))
               PROVE  own'[q] = "owned"
  BY <1>4
<1>6. ~Awaited(q)
  <2> SUFFICES ASSUME at[1] = 1, NEW j \in at[2] .. Len(func.code[1]),
                      func.code[1][j].op = "param", IsAncestorOf(func.code[1][j].place, q)
               PROVE  FALSE
    BY DEF Awaited
  <2>1. j # at[2]
    BY <1>5
  <2>2. j \in at[2] + 1 .. Len(func.code[1])
    BY <1>2, <2>1
  <2> QED
    BY <1>3, <2>2 DEF Awaited
<1> QED
  BY <1>5, <1>6 DEF AllOwned

\* Along a branch the analysis forgets, and makes nothing up.
LEMMA BranchWeakens ==
  ASSUME CheckInv, Branch
  PROVE  \A q \in Places : Weaker(q, Now', Now)
<1> DEFINE b == at[1]
<1>1. /\ phase = "run" /\ at[2] > Len(func.code[b]) /\ UNCHANGED <<func, state>>
  BY DEF Branch, engineVars
<1>2. PICK i \in DOMAIN Succ(b) : at' = <<Succ(b)[i], 1>>
  BY DEF Branch
<1> DEFINE c == Succ(b)[i]
<1>3. /\ func \in Functions /\ b \in DOMAIN func.code /\ at[2] = Len(func.code[b]) + 1
      /\ Len(func.code[b]) \in Nat /\ b \in reachable /\ finished
  BY <1>1, PositionFacts DEF CheckInv, PositionInv, ReportInv
<1>4. c \in reachable /\ \A q \in Places : Weaker(q, state[c].places, TransferInsts(state[b].places, func.code[b]))
  BY <1>3, FlowsAlong DEF CheckInv
<1>5. Now = TransferInsts(state[b].places, func.code[b])
  <2>1. SubSeq(func.code[b], 1, at[2] - 1) = func.code[b]
    BY <1>3, WholeBlock
  <2> QED
    BY <2>1 DEF Now, PlacesBefore
<1>6. Now' = state[c].places
  <2>1. at'[1] = c /\ at'[2] - 1 = 0
    BY <1>2
  <2>2. c \in Blocks
    BY <1>4 DEF CheckInv, FixpointInv, EngineTypeOK
  <2>3. state[c].places \in PlaceStates
    BY <2>2 DEF CheckInv, AnalysisInv, MoveStates
  <2>4. Now' = TransferInsts(state'[at'[1]].places, SubSeq(func'.code[at'[1]], 1, at'[2] - 1))
    BY DEF Now, PlacesBefore
  <2> QED
    BY <1>1, <2>1, <2>3, <2>4, InstStart
<1> QED
  BY <1>4, <1>5, <1>6

LEMMA BranchKeeps ==
  ASSUME CheckInv, NoneGone, AllOwned, Branch
  PROVE  NoneGone' /\ AllOwned'
<1>1. /\ UNCHANGED <<func, state, own>>
      /\ at[2] = Len(func.code[at[1]]) + 1 /\ Len(func.code[at[1]]) \in Nat
  BY PositionFacts DEF Branch, engineVars, CheckInv, PositionInv
<1>2. ASSUME NEW q \in LeafPlaces
      PROVE  Weaker(q, Now', Now) /\ ~Awaited(q)
  <2>1. Weaker(q, Now', Now)
    BY BranchWeakens DEF LeafPlaces
  <2>2. ~Awaited(q)
    BY <1>1 DEF Awaited
  <2> QED
    BY <2>1, <2>2
<1>3. NoneGone'
  BY <1>1, <1>2 DEF NoneGone, Weaker, Untouched
<1>4. AllOwned'
  BY <1>1, <1>2 DEF AllOwned, Weaker
<1> QED
  BY <1>3, <1>4

LEMMA RunStep == CheckInv /\ RunInv /\ [Next]_vars => RunInv'
<1> SUFFICES ASSUME CheckInv, RunInv, [Next]_vars, phase' = "run" PROVE NoneGone' /\ AllOwned'
  BY DEF RunInv
<1>1. CASE Analyse
  BY <1>1 DEF Analyse
<1>2. CASE EmitBlock
  BY <1>2 DEF EmitBlock
<1>3. CASE FinishCheck
  <2>1. NoneGone /\ AllOwned
    BY <1>3, RunStarts DEF FinishCheck
  <2>2. UNCHANGED <<func, state, at, own>>
    BY <1>3 DEF FinishCheck, engineVars, runVars
  <2> QED
    BY <2>1, <2>2 DEF NoneGone, AllOwned, Awaited, Now, PlacesBefore
<1>4. CASE StepInst
  BY <1>4, NoneGoneStep, AllOwnedStep DEF StepInst, RunInv
<1>5. CASE Branch
  BY <1>5, BranchKeeps DEF Branch, RunInv
<1>6. CASE Return
  BY <1>6 DEF Return
<1>7. CASE UNCHANGED vars
  <2>1. UNCHANGED <<func, state, at, own, phase>>
    BY <1>7 DEF vars, engineVars, checkVars, runVars
  <2>2. NoneGone /\ AllOwned
    BY <2>1 DEF RunInv
  <2> QED
    BY <2>1, <2>2 DEF NoneGone, AllOwned, Awaited, Now, PlacesBefore
<1> QED
  BY <1>1, <1>2, <1>3, <1>4, <1>5, <1>6, <1>7 DEF Next

\* The inductive invariant of the checker and of the execution of what it accepts.
THEOREM MoveInvariant == ASSUME MoveEngine PROVE Spec => []MoveInv
<1>1. MoveEngine /\ Init => MoveInv
  <2> SUFFICES ASSUME MoveEngine, Init PROVE CheckInv /\ RunInv
    BY DEF MoveInv
  <2>1. CheckInv
    BY CheckInit
  <2> QED
    BY <2>1 DEF RunInv, Init
<1>2. MoveInv /\ [Next]_vars => MoveInv'
  BY CheckStep, RunStep DEF MoveInv
<1> QED
  BY <1>1, <1>2, PTL DEF Spec

-----------------------------------------------------------------------------
(* What the runs show on small functions, for all of them.                 *)

(***************************************************************************)
(* An accepted function never reads or moves a place a part of which has   *)
(* been moved out or dropped on the path it took, whatever the order in    *)
(* which the analysis merged the paths.                                    *)
(***************************************************************************)
NeverReadsGone ==
  phase = "run" /\ at[2] <= Len(func.code[at[1]]) =>
    LET inst == Cleaned(at[1], at[2])
    IN  inst.op \in {"use", "move", "await"} => ~Holds(inst.place, "gone")

\* What is used or moved without a report has all its parts.
LEMMA UsedIsHere ==
  ASSUME CheckInv, phase = "run", at[2] <= Len(func.code[at[1]]),
         Cleaned(at[1], at[2]).op \in {"use", "move", "await"},
         NEW q \in Leaves(Cleaned(at[1], at[2]).place)
  PROVE  q \in LeafPlaces /\ Here(q, Now)
<1> DEFINE inst == func.code[at[1]][at[2]]
           p == inst.place
<1>1. /\ Report(Now, inst) = {} /\ Cleaned(at[1], at[2]) = inst
  BY Accepted DEF Cleaned, Removed
<1>2. p \in Places /\ Now \in PlaceStates
  <2>1. func \in Functions /\ at[1] \in DOMAIN func.code /\ at[2] \in DOMAIN func.code[at[1]] /\ Now \in PlaceStates
    BY PositionFacts
  <2> QED
    BY <2>1, InstFacts
<1>3. inst.op \in {"use", "move", "await"} /\ q \in Leaves(p)
  BY <1>1
<1>4. q \in Places /\ q \in LeafPlaces /\ IsAncestorOf(p, q)
  BY <1>3 DEF Leaves, LeafPlaces
<1>5. GetPlaceState(p, Now) = "Live"
  BY <1>1, <1>3 DEF Report
<1> HIDE DEF p, inst
<1> QED
  BY <1>2, <1>4, <1>5, LiveIsWhole

\* `report_use_after_move` guards every read: what an accepted function reads has not left it.
THEOREM ReadsAreThere == ASSUME MoveEngine PROVE Spec => []NeverReadsGone
<1>1. MoveInv => NeverReadsGone
  <2> SUFFICES ASSUME MoveInv, phase = "run", at[2] <= Len(func.code[at[1]]),
                      Cleaned(at[1], at[2]).op \in {"use", "move", "await"},
                      NEW q \in Leaves(Cleaned(at[1], at[2]).place)
               PROVE  own[q] # "gone"
    BY DEF NeverReadsGone, Holds
  <2>1. q \in LeafPlaces /\ Here(q, Now)
    BY UsedIsHere DEF MoveInv
  <2> QED
    BY <2>1 DEF MoveInv, RunInv, NoneGone, Untouched
<1> QED
  BY <1>1, MoveInvariant, PTL

\* p is part of a local that gets its value field by field.
InParts(f, p) == \E a \in Allocas(f, "alloca") : IsAncestorOf(a, p) /\ ~WholeInit(f, a)

\* Where an instruction names a place, the parts of it that the analysis holds to be there are owned.
LEMMA HereIsOwned ==
  ASSUME MoveInv, phase = "run", at[2] <= Len(func.code[at[1]]),
         ~InParts(func, func.code[at[1]][at[2]].place),
         func.code[at[1]][at[2]].op \in {"use", "move", "await", "extract", "drop", "init"},
         NEW q \in Leaves(func.code[at[1]][at[2]].place), Here(q, Now)
  PROVE  own[q] = "owned"
<1> DEFINE inst == func.code[at[1]][at[2]]
           p == inst.place
<1>1. CheckInv /\ AllOwned
  BY DEF MoveInv, RunInv
<1>2. /\ func \in Functions /\ at[1] \in DOMAIN func.code /\ at[2] \in DOMAIN func.code[at[1]]
      /\ at[2] \in Nat
  BY <1>1, PositionFacts
<1>3. p \in Places /\ WellPlaced(func, at[1], at[2])
  BY <1>2, InstFacts
<1>4. q \in LeafPlaces /\ q \in Places /\ IsAncestorOf(p, q)
  BY DEF Leaves, LeafPlaces
<1>5. PICK a \in Declared(func) : IsAncestorOf(a, p)
  BY <1>3 DEF WellPlaced
<1>8. WholeInit(func, a)
  BY <1>5 DEF InParts, WholeInit
<1>6. IsAncestorOf(a, q)
  BY <1>2, <1>3, <1>4, <1>5, DeclaredFacts, Ancestry
<1>7. ~Awaited(q)
  <2> SUFFICES ASSUME at[1] = 1, NEW j \in at[2] .. Len(func.code[1]), func.code[1][j].op = "param"
               PROVE  FALSE
    BY DEF Awaited
  <2>1. at[2] \in 1 .. j /\ j \in 1 .. Len(func.code[1])
    BY <1>2, CodeFacts
  <2>2. WellPlaced(func, 1, j)
    BY <1>2, <2>1, CodeFacts, InstFacts
  <2>3. inst.op \in {"alloca", "param"}
    BY <2>1, <2>2 DEF WellPlaced
  <2> QED
    BY <2>3
<1> QED
  BY <1>1, <1>4, <1>5, <1>6, <1>7, <1>8 DEF AllOwned

\* An instruction that uses a place of an accepted function finds all of it.
LEMMA UsedIsOwned ==
  ASSUME MoveInv, StepInst, ~InParts(func, Cleaned(at[1], at[2]).place),
         Cleaned(at[1], at[2]).op \in {"use", "extract", "move", "await"},
         Cleaned(at[1], at[2]).op = "extract" => Owned[Cleaned(at[1], at[2]).place] = {}
  PROVE  ~NotOwned(Cleaned(at[1], at[2]).place)
<1> DEFINE inst == func.code[at[1]][at[2]]
           p == inst.place
<1>1. CheckInv /\ phase = "run" /\ at[2] <= Len(func.code[at[1]])
  BY DEF MoveInv, StepInst
<1>2. Report(Now, inst) = {} /\ Cleaned(at[1], at[2]) = inst
  BY <1>1, Accepted DEF Cleaned, Removed
<1>3. p \in Places /\ p \in Allocas(func, inst.op) /\ Now \in PlaceStates
  <2>1. func \in Functions /\ at[1] \in DOMAIN func.code /\ at[2] \in DOMAIN func.code[at[1]] /\ Now \in PlaceStates
    BY <1>1, PositionFacts
  <2> QED
    BY <2>1, InstFacts
<1> SUFFICES ASSUME NEW q \in Leaves(p) PROVE own[q] = "owned"
  BY <1>2 DEF NotOwned
<1>4. Here(q, Now)
  <2>1. CASE inst.op = "extract"
    <3>1. Owned[p] = {} /\ q = p
      BY <1>2, <1>3, <2>1, NothingBelow DEF Leaves
    <3>2. GetPlaceState(p, Now) \notin Gone
      <4>1. CASE GetPlaceState(p, Now) = "Live"
        BY <4>1 DEF Gone
      <4>2. CASE GetPlaceState(p, Now) # "Live"
        BY <1>2, <2>1, <4>2 DEF Report
      <4> QED
        BY <4>1, <4>2
    <3> HIDE DEF p
    <3>3. GetPlaceState(p, Now) \in MoveState /\ (GetPlaceState(p, Now) \in Sure <=> Here(p, Now))
      BY <1>3, PlaceStateIs
    <3> QED
      BY <3>1, <3>2, <3>3 DEF Gone, MoveState, Sure
  <2>2. CASE inst.op # "extract"
    BY <1>1, <1>2, <2>2, UsedIsHere
  <2> QED
    BY <2>1, <2>2
<1> QED
  BY <1>1, <1>2, <1>4, HereIsOwned

(***************************************************************************)
(* What an accepted function uses without it being there is part of a      *)
(* local that gets its value field by field (the analysis calls a struct   *)
(* literal live after its first field), or a struct that is extracted from *)
(* another.                                                                *)
(***************************************************************************)
UsesWhatIsThere ==
  \A p \in Committed("use") : InParts(func, p) \/ (p \in Allocas(func, "extract") /\ Owned[p] # {})

\* A use, move, await or extraction that the checker accepts finds its operand on every path.
THEOREM UsesAreThere == ASSUME MoveEngine PROVE Spec => []UsesWhatIsThere
<1>1. Init => UsesWhatIsThere
  BY DEF Init, UsesWhatIsThere, Committed
<1>2. MoveInv /\ UsesWhatIsThere /\ [Next]_vars => UsesWhatIsThere'
  <2> SUFFICES ASSUME MoveInv, UsesWhatIsThere, [Next]_vars, NEW p \in Places, <<"use", p>> \in fault'
               PROVE  (InParts(func, p) \/ (p \in Allocas(func, "extract") /\ Owned[p] # {}))'
    BY DEF UsesWhatIsThere, Committed
  <2>1. func' = func
    <3>1. [EngineNext]_engineVars
      BY EngineAlong
    <3> QED
      BY <3>1 DEF engineVars, EngineNext, SkipUnreachable, TransferBlock, PropagateEdge, LeaveBlock, EndPass
  <2>2. SUFFICES InParts(func, p) \/ (p \in Allocas(func, "extract") /\ Owned[p] # {})
    BY <2>1 DEF InParts, WholeInit, Allocas
  <2>3. CASE <<"use", p>> \in fault
    BY <2>3 DEF UsesWhatIsThere, Committed
  <2>4. CASE <<"use", p>> \notin fault
    <3>1. CASE StepInst
      <4> DEFINE inst == Cleaned(at[1], at[2])
      <4>1. inst.op \in {"use", "extract", "move", "await"} /\ inst.place = p /\ NotOwned(p)
        BY <2>4, <3>1 DEF StepInst, Commit
      <4>2. inst.op = "extract" => p \in Allocas(func, "extract")
        <5>1. func \in Functions /\ at[1] \in DOMAIN func.code /\ at[2] \in DOMAIN func.code[at[1]]
          BY <3>1, StepExecutes DEF MoveInv, CheckInv, FixpointInv, FuncOK
        <5>2. inst.op = "extract" => inst = func.code[at[1]][at[2]]
          BY DEF Cleaned, Removed
        <5> QED
          BY <4>1, <5>1, <5>2, InstFacts
      <4> QED
        BY <3>1, <4>1, <4>2, UsedIsOwned
    <3>2. CASE Return
      BY <2>4, <3>2 DEF Return
    <3>3. CASE ~StepInst /\ ~Return
      BY <2>4, <3>3 DEF Next, Analyse, EmitBlock, FinishCheck, Branch, runVars, vars
    <3> QED
      BY <3>1, <3>2, <3>3
  <2> QED
    BY <2>3, <2>4
<1> QED
  BY <1>1, <1>2, MoveInvariant, PTL DEF Spec

(***************************************************************************)
(* An accepted function whose locals are initialised as a whole never uses *)
(* a value that is not there, uninitialised ones included.                 *)
(***************************************************************************)
THEOREM NeverUsesGone ==
  ASSUME MoveEngine
  PROVE  Spec => [](WholeInits(func) /\ LeafExtracts(func) => AcceptedNeverUsesGone)
<1> DEFINE Inv == WholeInits(func) /\ LeafExtracts(func) => AcceptedNeverUsesGone
<1>1. UsesWhatIsThere => Inv
  <2> SUFFICES ASSUME UsesWhatIsThere, WholeInits(func), LeafExtracts(func), NEW p \in Committed("use")
               PROVE  FALSE
    BY DEF AcceptedNeverUsesGone
  <2> QED
    BY DEF UsesWhatIsThere, WholeInits, LeafExtracts, InParts
<1> HIDE DEF Inv
<1>2. Spec => []Inv
  BY <1>1, UsesAreThere, PTL
<1> QED
  BY <1>2 DEF Inv

-----------------------------------------------------------------------------
(* Values with a Drop implementation stay whole.                           *)

\* The entries of P say that all of g is there.
Whole(g, P) == Inherited(g, P) = "Live" /\ \A k \in DOMAIN P : IsAncestorOf(g, k) => P[k] = "Live"

HereWhole(g, P) == Here(g, P) => Whole(g, P)

\* The locals whose type has a Drop implementation.
Guards == {g \in Places \cap DropImpl : Len(g) = 1}

LEMMA WholeIsLive ==
  ASSUME NEW P \in PlaceStates, NEW g \in Places, Whole(g, P), NEW k \in Places, IsAncestorOf(g, k)
  PROVE  GetPlaceState(k, P) = "Live"
<1>1. \A j \in DOMAIN P : IsAncestorOf(k, j) => P[j] = "Live"
  BY StateFacts, Ancestry DEF Whole
<1>2. Inherited(k, P) = "Live"
  <2>1. CASE \E j \in DOMAIN P : IsAncestorOf(g, j) /\ IsAncestorOf(j, k)
    <3>1. PICK j : Deepest(j, k, P)
      BY <2>1, DeepestExists
    <3>2. j \in Places /\ IsAncestorOf(j, k) /\ Len(g) <= Len(j)
      <4>1. PICK i \in DOMAIN P : IsAncestorOf(g, i) /\ IsAncestorOf(i, k)
        BY <2>1
      <4>2. j \in Places /\ i \in Places /\ IsAncestorOf(j, k) /\ Len(i) <= Len(j) /\ Len(g) <= Len(i)
        BY <3>1, <4>1, StateFacts, Ancestry DEF Deepest
      <4> QED
        BY <4>2, PlaceFacts
    <3>3. IsAncestorOf(g, j)
      BY <3>2, Ancestry
    <3> QED
      BY <3>1, <3>3, InheritsFrom DEF Deepest, Whole
  <2>2. CASE \A j \in DOMAIN P : ~(IsAncestorOf(g, j) /\ IsAncestorOf(j, k))
    <3>1. ASSUME NEW j \in DOMAIN P, IsAncestorOf(j, k) PROVE Len(j) <= Len(g)
      <4>1. j \in Places /\ Len(j) \in Nat /\ Len(g) \in Nat
        BY StateFacts, PlaceFacts
      <4>2. ~(Len(g) <= Len(j))
        BY <2>2, <3>1, <4>1, Ancestry
      <4> QED
        BY <4>1, <4>2
    <3>2. Inherited(k, P) = Inherited(g, P)
      BY <3>1, SameAbove
    <3> QED
      BY <3>2 DEF Whole
  <2> QED
    BY <2>1, <2>2
<1> QED
  BY <1>1, <1>2 DEF GetPlaceState, Gone

\* Nothing but a local itself is above a local.
LEMMA AboveLocal ==
  ASSUME NEW g \in Places, Len(g) = 1, NEW k \in Places, IsAncestorOf(k, g)
  PROVE  k = g
<1>1. Len(k) \in Nat /\ Len(g) \in Nat /\ Len(k) > 0 /\ Len(k) <= Len(g) /\ Len(g) = 1
  BY PlaceFacts, Ancestry
<1>2. Len(k) = 1
  <2> DEFINE m == Len(k)
             n == Len(g)
  <2>1. m \in Nat /\ m > 0 /\ m <= n /\ n = 1
    BY <1>1
  <2> HIDE DEF m, n
  <2>2. m = 1
    BY <2>1
  <2> QED
    BY <2>2 DEF m
<1> QED
  BY <1>1, <1>2, Self, Ancestry

LEMMA MergeKeyWhole ==
  ASSUME NEW P \in PlaceStates, NEW src \in PlaceStates, NEW k \in Places, NEW g \in Guards,
         HereWhole(g, src), Here(g, P) /\ Here(g, src) => Whole(g, P),
         Here(g, MergeKey(k, P, src)), Here(g, src)
  PROVE  Whole(g, MergeKey(k, P, src))
<1> DEFINE Q == MergeKey(k, P, src)
           joined == Join(GetPlaceState(k, P), GetPlaceState(k, src))
<1>1. g \in Places /\ Len(g) = 1
  BY DEF Guards
<1>2. Here(g, P) /\ Whole(g, P) /\ Whole(g, src)
  BY <1>1, MergeKeyGives DEF Weaker, HereWhole
<1>3. CASE Entry(k, P) = Entry(k, src)
  BY <1>2, <1>3 DEF MergeKey
<1>4. CASE Entry(k, P) # Entry(k, src)
  <2>1. Q = Put(k, joined, P)
    BY <1>4 DEF MergeKey, Put
  <2>2. joined \in MoveState
    <3>1. GetPlaceState(k, P) \in MoveState /\ GetPlaceState(k, src) \in MoveState
      BY PlaceStateIs
    <3> QED
      BY <3>1, JoinFacts
  <2>3. IsAncestorOf(g, k) => joined = "Live"
    BY <1>1, <1>2, WholeIsLive DEF Join
  <2> HIDE DEF Q, joined
  <2>4. HasEntry(Q, k, joined, P)
    BY <2>1, <2>2, PutGives
  <2>5. Inherited(g, Q) = "Live"
    <3>1. Inherited(g, P) = "Live"
      BY <1>2 DEF Whole
    <3>2. IsAncestorOf(k, g) => joined = "Live"
      BY <1>1, <2>3, AboveLocal, Self
    <3> QED
      BY <1>1, <2>4, <3>1, <3>2 DEF HasEntry
  <2>6. \A j \in DOMAIN Q : IsAncestorOf(g, j) => Q[j] = "Live"
    BY <1>2, <2>3, <2>4 DEF HasEntry, Whole
  <2> QED
    BY <2>5, <2>6 DEF Q, Whole
<1> QED
  BY <1>3, <1>4

LEMMA MergeWhole ==
  ASSUME NEW dest \in PlaceStates, NEW src \in PlaceStates, NEW merged \in MergePlaces(dest, src),
         NEW g \in Guards, HereWhole(g, dest), HereWhole(g, src)
  PROVE  HereWhole(g, merged)
<1>1. PICK keys, f : MergeRunOf(keys, f, dest, src, merged)
  BY MergeRun
<1> DEFINE n == Len(keys)
           G == {i \in 0 .. n : Here(g, f[i]) /\ Here(g, src) => Whole(g, f[i])}
<1>2. /\ n \in Nat /\ merged = f[n] /\ g \in Places
      /\ f \in [0 .. n -> PlaceStates] /\ f[0] = dest
      /\ \A i \in 1 .. n : f[i] = MergeKey(keys[i], f[i - 1], src)
  BY <1>1 DEF MergeRunOf, Merging, Guards
<1>3. \A i \in 1 .. n : keys[i] \in Places
  <2>1. Disputed(dest, src) \subseteq Places
    BY StateFacts DEF Disputed
  <2>2. keys \in Seq(Disputed(dest, src))
    BY <1>1 DEF MergeRunOf
  <2> QED
    BY <2>1, <2>2, ElementOfSeq
<1> HIDE DEF n
<1>4. 0 \in G /\ G \in SUBSET (0 .. n)
  BY <1>2 DEF HereWhole
<1>5. ASSUME NEW i \in 1 .. n, i - 1 \in G PROVE i \in G
  <2>1. i \in 0 .. n /\ i - 1 \in 0 .. n
    BY <1>2
  <2>2. f[i - 1] \in PlaceStates /\ f[i] = MergeKey(keys[i], f[i - 1], src) /\ keys[i] \in Places
    BY <1>2, <1>3, <2>1
  <2>3. Here(g, f[i - 1]) /\ Here(g, src) => Whole(g, f[i - 1])
    BY <1>5
  <2>4. Here(g, f[i]) /\ Here(g, src) => Whole(g, f[i])
    BY <2>2, <2>3, MergeKeyWhole
  <2> QED
    BY <2>1, <2>4
<1> HIDE DEF G
<1>6. n \in G
  BY <1>2, <1>4, <1>5, Chain
<1>7. Here(g, merged) => Here(g, src)
  BY <1>2, MergeGives DEF Weaker
<1> QED
  BY <1>2, <1>6, <1>7 DEF G, HereWhole

\* The checker reports a move out of a value with a Drop implementation.
NoMoveUnderDrop(f) ==
  \A p \in Allocas(f, "move") \cup Allocas(f, "await") : ProperAncestors(p) \cap DropImpl = {}

Guarded(f, g) == WholeInit(f, g) /\ RootDrops(f) /\ NoMoveUnderDrop(f)

LEMMA ProperAncestorIs ==
  ASSUME NEW p \in Places, NEW g \in Places, IsAncestorOf(g, p), g # p
  PROVE  g \in ProperAncestors(p)
<1>1. /\ g \in Seq(Nat) /\ p \in Seq(Nat) /\ Len(g) \in Nat /\ Len(p) \in Nat /\ Len(g) > 0 /\ Len(g) <= Len(p)
  BY PlaceFacts, Ancestry
<1>2. Len(g) # Len(p)
  BY Self, Ancestry
<1>3. Len(g) \in 1 .. Len(p) - 1
  BY <1>1, <1>2
<1>4. g = SubSeq(p, 1, Len(g))
  BY <1>1, SubSeqFull DEF IsAncestorOf, IsPrefix
<1> QED
  BY <1>3, <1>4 DEF ProperAncestors

LEMMA TransferWhole ==
  ASSUME NEW f \in Functions, NEW b \in DOMAIN f.code, NEW i \in DOMAIN f.code[b],
         NEW P \in PlaceStates, Tidy(f, P), NEW g \in Guards, Guarded(f, g), HereWhole(g, P),
         f.code[b][i].op = "param" => \A k \in DOMAIN P : Len(k) = 1
  PROVE  HereWhole(g, TransferInst(P, f.code[b][i]))
<1> DEFINE inst == f.code[b][i]
           p == inst.place
           op == inst.op
           Q == TransferInst(P, inst)
<1>1. /\ p \in Places /\ p \in Allocas(f, op)
      /\ op \in {"alloca", "param"} => Len(p) = 1
      /\ op \in {"drop", "free"} => Len(p) = 1
  BY InstFacts DEF WellPlaced, Guarded, RootDrops
<1>2. /\ op = "alloca" => Q = Put(p, "Uninitialized", P)
      /\ op = "param" => Q = Put(p, "Live", P)
      /\ op = "init" => Q = MarkLive(p, P)
      /\ op \in {"move", "await"} => Q = MarkMoved(p, P)
      /\ op \in {"drop", "free"} => Q = MarkDropped(p, P)
      /\ op \notin {"alloca", "param", "init", "move", "await", "drop", "free"} => Q = P
  BY TransferCases
<1>3. g \in Places /\ Len(g) = 1 /\ g \in DropImpl /\ IsAncestorOf(g, g)
  BY Self DEF Guards
<1>4. op = "param" => \A k \in DOMAIN P : Len(k) = 1
  OBVIOUS
<1>5. \A k \in Places : Len(k) = 1 /\ IsAncestorOf(g, k) => k = g
  BY <1>3, Self, Ancestry
<1>6. SUFFICES HereWhole(g, Q)
  OBVIOUS
<1> HIDE DEF inst, p, op, Q
<1>7. ASSUME Inherited(g, Q) = Inherited(g, P),
             \A k \in DOMAIN Q : IsAncestorOf(g, k) => (k \in DOMAIN P /\ Q[k] = P[k]) \/ Q[k] = "Live"
      PROVE  HereWhole(g, Q)
  BY <1>7 DEF HereWhole, Here, Whole
<1>8. CASE op = "alloca"
  <2>1. HasEntry(Q, p, "Uninitialized", P)
    BY <1>1, <1>2, <1>8, PutGives DEF MoveState
  <2>2. CASE p = g
    <3>1. Inherited(g, Q) = "Uninitialized"
      BY <2>1, <2>2, OwnEntry DEF HasEntry
    <3> QED
      BY <3>1 DEF HereWhole, Here, Sure
  <2>3. CASE p # g
    <3>1. ~IsAncestorOf(g, p) /\ ~IsAncestorOf(p, g)
      BY <1>1, <1>3, <1>5, <1>8, <2>3, AboveLocal
    <3> QED
      BY <1>3, <1>7, <2>1, <3>1 DEF HasEntry
  <2> QED
    BY <2>2, <2>3
<1>9. CASE op = "param"
  <2>1. HasEntry(Q, p, "Live", P)
    BY <1>1, <1>2, <1>9, PutGives DEF MoveState
  <2>2. CASE p = g
    <3>1. \A k \in DOMAIN Q : IsAncestorOf(g, k) => k = g
      BY <1>4, <1>5, <1>9, <2>1, <2>2, StateFacts DEF HasEntry
    <3>2. Inherited(g, Q) = "Live" /\ Q[g] = "Live"
      BY <2>1, <2>2, OwnEntry DEF HasEntry
    <3> QED
      BY <3>1, <3>2 DEF HereWhole, Whole
  <2>3. CASE p # g
    <3>1. ~IsAncestorOf(g, p) /\ ~IsAncestorOf(p, g)
      BY <1>1, <1>3, <1>5, <1>9, <2>3, AboveLocal
    <3> QED
      BY <1>3, <1>7, <2>1, <3>1 DEF HasEntry
  <2> QED
    BY <2>2, <2>3
<1>10. CASE op = "init"
  <2>1. ~(Revives(p, P) /\ IsAncestorOf(Front(p), g))
    <3> SUFFICES ASSUME Revives(p, P), IsAncestorOf(Front(p), g) PROVE FALSE
      OBVIOUS
    <3>1. Front(p) \in Places /\ Len(Front(p)) = 1 /\ ~WholeInit(f, Front(p))
      BY <1>1, <1>10, InitTidy
    <3>2. Front(p) = g
      BY <1>3, <3>1, Ancestry
    <3> QED
      BY <3>1, <3>2 DEF Guarded
  <2>2. /\ IsAncestorOf(p, g) => Inherited(g, Q) = "Live"
        /\ ~IsAncestorOf(p, g) => Inherited(g, Q) = Inherited(g, P)
        /\ \A k \in DOMAIN Q : Q[k] = "Live" \/ (k \in DOMAIN P /\ Q[k] = P[k])
    BY <1>1, <1>2, <1>3, <1>10, <2>1, LiveGives
  <2>3. CASE IsAncestorOf(p, g)
    <3>1. p = g
      BY <1>1, <1>3, <2>3, AboveLocal
    <3>2. Q = Overwrite(p, "Live", P)
      <4>1. Len(p) = 1
        BY <1>3, <3>1
      <4>2. ~(Len(p) > 1)
        BY <4>1
      <4> QED
        BY <1>2, <1>10, <4>2 DEF MarkLive
    <3>3. \A k \in DOMAIN Q : IsAncestorOf(p, k) => k = p /\ Q[k] = "Live"
      BY <3>2 DEF Overwrite
    <3> QED
      BY <2>2, <2>3, <3>1, <3>3 DEF HereWhole, Whole
  <2>4. CASE ~IsAncestorOf(p, g)
    BY <1>7, <2>2, <2>4
  <2> QED
    BY <2>3, <2>4
<1>11. CASE op \in {"move", "await"}
  <2>1. /\ Inherited(g, Q) = "Moved" \/ Inherited(g, Q) = Inherited(g, P)
        /\ IsAncestorOf(p, g) => Inherited(g, Q) = "Moved"
        /\ \A k \in DOMAIN Q : (Q[k] = "Moved" /\ IsAncestorOf(k, p)) \/ (k \in DOMAIN P /\ Q[k] = P[k])
        /\ Q \in PlaceStates
    BY <1>1, <1>2, <1>3, <1>11, MovedGives
  <2>2. CASE Inherited(g, Q) = "Moved"
    BY <2>2 DEF HereWhole, Here, Sure
  <2>3. CASE Inherited(g, Q) # "Moved"
    <3>1. ~IsAncestorOf(g, p)
      <4>1. ProperAncestors(p) \cap DropImpl = {}
        BY <1>1, <1>11 DEF Guarded, NoMoveUnderDrop
      <4>2. g # p
        BY <1>3, <2>1, <2>3
      <4> QED
        BY <1>1, <1>3, <4>1, <4>2, ProperAncestorIs
    <3>2. ASSUME NEW k \in DOMAIN Q, IsAncestorOf(g, k) PROVE k \in DOMAIN P /\ Q[k] = P[k]
      <4>1. ~IsAncestorOf(k, p)
        BY <1>1, <1>3, <2>1, <3>1, <3>2, StateFacts, Ancestry
      <4> QED
        BY <2>1, <4>1
    <3> QED
      BY <1>7, <2>1, <2>3, <3>2
  <2> QED
    BY <2>2, <2>3
<1>12. CASE op \in {"drop", "free"}
  <2>1. /\ Inherited(g, Q) = "Dropped" \/ Inherited(g, Q) = Inherited(g, P)
        /\ IsAncestorOf(p, g) => Inherited(g, Q) = "Dropped" \/ Q = P
        /\ \A k \in DOMAIN Q : (Q[k] = "Dropped" /\ k = p) \/ (k \in DOMAIN P /\ Q[k] = P[k])
    BY <1>1, <1>2, <1>3, <1>12, DroppedGives
  <2>2. CASE Inherited(g, Q) = "Dropped"
    BY <2>2 DEF HereWhole, Here, Sure
  <2>3. CASE Inherited(g, Q) # "Dropped" /\ p = g
    BY <1>3, <2>1, <2>3
  <2>4. CASE Inherited(g, Q) # "Dropped" /\ p # g
    <3>1. ~IsAncestorOf(g, p)
      BY <1>1, <1>5, <1>12, <2>4
    <3> QED
      BY <1>7, <2>1, <2>4, <3>1
  <2> QED
    BY <2>2, <2>3, <2>4
<1>13. CASE op \notin {"alloca", "param", "init", "move", "await", "drop", "free"}
  BY <1>2, <1>13
<1> QED
  BY <1>8, <1>9, <1>10, <1>11, <1>12, <1>13

\* Before the parameters are declared, the analysis knows nothing about their parts.
OnlyLocals(P) == \A k \in DOMAIN P : Len(k) = 1

LEMMA BeforeParams ==
  ASSUME NEW f \in Functions, NEW b \in DOMAIN f.code, NEW P \in PlaceStates, b = 1 => OnlyLocals(P),
         NEW j \in 0 .. Len(f.code[b]), NEW h \in j + 1 .. Len(f.code[b]), f.code[b][h].op = "param"
  PROVE  OnlyLocals(TransferInsts(P, SubSeq(f.code[b], 1, j)))
<1> DEFINE s == f.code[b]
           n == Len(s)
           Before(i) == TransferInsts(P, SubSeq(s, 1, i))
           G == {i \in 0 .. n : i <= j => OnlyLocals(Before(i))}
<1>1. s \in Seq(Instructions) /\ n \in Nat /\ DOMAIN s = 1 .. n /\ j \in Nat /\ h \in 1 .. n
  <2>1. s \in Seq(Instructions) /\ n \in Nat /\ DOMAIN s = 1 .. n
    BY CodeFacts
  <2> QED
    BY <2>1
<1>2. b = 1 /\ \A i \in 1 .. h : s[i].op \in {"alloca", "param"}
  BY <1>1, InstFacts DEF WellPlaced
<1>3. 0 \in G
  <2>1. Before(0) = P
    BY InstStart
  <2> HIDE DEF Before
  <2> QED
    BY <1>1, <1>2, <2>1
<1>4. ASSUME NEW i \in 1 .. n, i - 1 \in G PROVE i \in G
  <2> SUFFICES ASSUME i <= j PROVE OnlyLocals(Before(i))
    BY <1>1
  <2>1. i \in DOMAIN f.code[b] /\ i \in 1 .. Len(s) /\ i \in 1 .. h
    BY <1>1
  <2>2. Before(i) = TransferInst(Before(i - 1), s[i])
    BY <1>1, <2>1, InstStep
  <2>3. OnlyLocals(Before(i - 1))
    BY <1>1, <1>4
  <2> DEFINE p == s[i].place
             Q == Before(i)
  <2>4. s[i].op \in {"alloca", "param"} /\ Len(p) = 1
    BY <1>2, <2>1, InstFacts DEF WellPlaced
  <2> HIDE DEF Before
  <2>5. \E v \in MoveState : Q = Put(p, v, Before(i - 1))
    BY <2>2, <2>4, TransferCases DEF MoveState
  <2>6. PICK v \in MoveState : Q = Put(p, v, Before(i - 1))
    BY <2>5
  <2> HIDE DEF p, Q
  <2>7. DOMAIN Q = DOMAIN Before(i - 1) \cup {p}
    BY <2>6 DEF Put
  <2>8. OnlyLocals(Q)
    BY <2>3, <2>4, <2>7 DEF OnlyLocals
  <2> QED
    BY <2>8 DEF Q
<1>5. G \in SUBSET (0 .. n)
  OBVIOUS
<1>6. G = 0 .. n
  <2> HIDE DEF G, n
  <2> QED
    BY <1>1, <1>3, <1>4, <1>5, Chain
<1> QED
  BY <1>1, <1>6

LEMMA BlockWhole ==
  ASSUME NEW f \in Functions, NEW b \in DOMAIN f.code, NEW P \in PlaceStates, Tidy(f, P),
         b = 1 => OnlyLocals(P), NEW g \in Guards, Guarded(f, g), HereWhole(g, P), NEW j \in 0 .. Len(f.code[b])
  PROVE  HereWhole(g, TransferInsts(P, SubSeq(f.code[b], 1, j)))
<1> DEFINE s == f.code[b]
           n == Len(s)
           Before(i) == TransferInsts(P, SubSeq(s, 1, i))
           G == {i \in 0 .. n : HereWhole(g, Before(i))}
<1>1. s \in Seq(Instructions) /\ n \in Nat /\ DOMAIN s = 1 .. n
  BY CodeFacts
<1>3. 0 \in G
  <2>1. Before(0) = P
    BY InstStart
  <2> HIDE DEF Before
  <2> QED
    BY <1>1, <2>1
<1>4. ASSUME NEW i \in 1 .. n, i - 1 \in G PROVE i \in G
  <2>1. i - 1 \in 0 .. n /\ i \in 0 .. n /\ i \in DOMAIN f.code[b] /\ i \in 1 .. Len(s) /\ i \in (i - 1) + 1 .. n
    BY <1>1
  <2>2. Before(i) = TransferInst(Before(i - 1), s[i])
    BY <1>1, <2>1, InstStep
  <2>3. Before(i - 1) \in PlaceStates /\ Tidy(f, Before(i - 1))
    BY <2>1, BlockFacts
  <2>4. HereWhole(g, Before(i - 1))
    BY <1>4
  <2>5. s[i].op = "param" => OnlyLocals(Before(i - 1))
    BY <2>1, BeforeParams
  <2> HIDE DEF Before
  <2>6. s[i].op = "param" => \A k \in DOMAIN Before(i - 1) : Len(k) = 1
    BY <2>5 DEF OnlyLocals
  <2>7. HereWhole(g, TransferInst(Before(i - 1), s[i]))
    BY <2>1, <2>3, <2>4, <2>6, TransferWhole
  <2> QED
    BY <2>1, <2>2, <2>7
<1>5. G \in SUBSET (0 .. n)
  OBVIOUS
<1>6. G = 0 .. n
  <2> HIDE DEF G, n
  <2> QED
    BY <1>1, <1>3, <1>4, <1>5, Chain
<1> QED
  BY <1>6

LEMMA EntryWhole ==
  ASSUME NEW f \in Functions, NEW g \in Guards
  PROVE  /\ OnlyLocals(MoveEntryState(f).places) /\ HereWhole(g, MoveEntryState(f).places)
         /\ HereWhole(g, MoveDefaultState.places)
<1> DEFINE P == MoveEntryState(f).places
<1>1. /\ DOMAIN P = Declared(f)
      /\ \A k \in Declared(f) : P[k] = IF k \in Allocas(f, "param") THEN "Live" ELSE "Uninitialized"
  BY DEF MoveEntryState, Declared
<1>2. OnlyLocals(P)
  BY <1>1, DeclaredFacts DEF OnlyLocals
<1>3. g \in Places /\ Len(g) = 1 /\ P \in PlaceStates
  BY EntryFacts DEF Guards, MoveStates
<1>4. \A k \in DOMAIN P : k \in Places /\ Len(k) = 1 /\ (IsAncestorOf(g, k) \/ IsAncestorOf(k, g) => k = g)
  <2> SUFFICES ASSUME NEW k \in DOMAIN P
               PROVE  k \in Places /\ Len(k) = 1 /\ (IsAncestorOf(g, k) \/ IsAncestorOf(k, g) => k = g)
    OBVIOUS
  <2>1. k \in Places /\ Len(k) = 1
    BY <1>1, DeclaredFacts
  <2> HIDE DEF P
  <2> QED
    BY <1>3, <2>1, AboveLocal
<1>5. HereWhole(g, P)
  <2> HIDE DEF P
  <2>1. CASE g \in DOMAIN P
    <3>1. Inherited(g, P) = P[g]
      BY <1>3, <2>1, OwnEntry
    <3> QED
      BY <1>1, <1>4, <2>1, <3>1 DEF HereWhole, Here, Whole, Sure
  <2>2. CASE g \notin DOMAIN P
    <3>1. Inherited(g, P) = "Live"
      BY <1>4, <2>2, InheritsNothing
    <3> QED
      BY <1>4, <2>2, <3>1 DEF HereWhole, Whole
  <2> QED
    BY <2>1, <2>2
<1>6. HereWhole(g, MoveDefaultState.places)
  <2>1. DOMAIN MoveDefaultState.places = {}
    BY DEF MoveDefaultState
  <2>2. Inherited(g, MoveDefaultState.places) = "Live"
    BY <2>1, InheritsNothing
  <2> QED
    BY <2>1, <2>2 DEF HereWhole, Whole
<1> QED
  BY <1>2, <1>5, <1>6

\* Nothing flows into the entry, and no state of the analysis says that a part of a guarded local has left it.
WholeInv ==
  /\ state[1] = MoveEntryState(func)
  /\ \A g \in Guards : Guarded(func, g) =>
       /\ \A b \in Blocks : HereWhole(g, state[b].places)
       /\ edge > 0 /\ Succ(cursor) # <<>> => HereWhole(g, out.places)

\* The part of the checker's invariant that is about the engine.
EngineInv == MoveEngine /\ FixpointInv /\ AnalysisInv

LEMMA WholeStart == EngineInv /\ EngineInit => WholeInv
<1> SUFFICES ASSUME EngineInv, EngineInit PROVE WholeInv
  OBVIOUS
<1>1. func \in Functions /\ 1 \in Blocks
  BY FunctionShape DEF EngineInv, FixpointInv
<1>2. /\ state = [b \in Blocks |-> IF b = 1 THEN MoveEntryState(func) ELSE MoveDefaultState]
      /\ edge = 0
  BY <1>1 DEF EngineInit, EngineInv, MoveEngine
<1>3. state[1] = MoveEntryState(func)
  BY <1>1, <1>2
<1>4. ASSUME NEW g \in Guards, NEW b \in Blocks PROVE HereWhole(g, state[b].places)
  BY <1>1, <1>2, <1>4, EntryWhole
<1> QED
  BY <1>2, <1>3, <1>4 DEF WholeInv

LEMMA WholeStep == EngineInv /\ WholeInv /\ [EngineNext]_engineVars => WholeInv'
<1> SUFFICES ASSUME EngineInv, WholeInv, [EngineNext]_engineVars PROVE WholeInv'
  OBVIOUS
<1>1. /\ FuncOK /\ func \in Functions /\ Blocks = DOMAIN func.code /\ 1 \in Blocks
      /\ reachable \in SUBSET Blocks /\ (edge > 0 => cursor \in reachable)
      /\ \A b \in Blocks : Succ(b) = func.succ[b]
      /\ NumBlocks(func) \in Nat
  BY FunctionShape, Shape DEF EngineInv, FixpointInv, EngineTypeOK
<1>2. ASSUME UNCHANGED <<func, state, out>>, edge' > 0 => edge' = edge /\ cursor' = cursor PROVE WholeInv'
  BY <1>2 DEF WholeInv, Blocks, Succ
<1>3. CASE SkipUnreachable
  BY <1>1, <1>2, <1>3 DEF SkipUnreachable
<1>4. CASE TransferBlock
  <2>1. cursor \in Blocks /\ state[cursor] \in MoveStates /\ Tidy(func, state[cursor].places)
    BY <1>1, <1>4 DEF TransferBlock, EngineInv, AnalysisInv
  <2>2. out' = MoveTransfer(func, cursor, state[cursor]) /\ UNCHANGED <<func, state, cursor>>
    BY <1>1, <1>4, <2>1 DEF TransferBlock, EngineInv, MoveEngine
  <2>3. ASSUME NEW g \in Guards, Guarded(func, g), Succ(cursor) # <<>> PROVE HereWhole(g, out'.places)
    <3> DEFINE P == state[cursor].places
    <3>1. P \in PlaceStates /\ HereWhole(g, P)
      BY <2>1, <2>3 DEF MoveStates, WholeInv
    <3>2. cursor = 1 => OnlyLocals(P)
      BY <1>1, <2>3, EntryWhole DEF WholeInv
    <3>3. out'.places = TransferInsts(P, func.code[cursor])
      BY <1>1, <2>1, <2>2, <2>3, TransferGives
    <3> HIDE DEF P
    <3>4. HereWhole(g, TransferInsts(P, SubSeq(func.code[cursor], 1, Len(func.code[cursor]))))
      <4>1. Tidy(func, P) /\ cursor \in DOMAIN func.code /\ Len(func.code[cursor]) \in 0 .. Len(func.code[cursor])
        BY <1>1, <2>1, WholeBlock DEF P
      <4> QED
        BY <1>1, <2>3, <3>1, <3>2, <4>1, BlockWhole
    <3> QED
      BY <1>1, <2>1, <3>3, <3>4, WholeBlock
  <2> QED
    BY <2>2, <2>3 DEF WholeInv, Blocks, Succ, Guarded, WholeInit
<1>5. CASE PropagateEdge
  <2> DEFINE c == Succ(cursor)[edge]
  <2>1. cursor \in Blocks /\ edge \in 1 .. Len(Succ(cursor)) /\ UNCHANGED <<func, cursor, out>>
    BY <1>5 DEF PropagateEdge
  <2>2. c \in Blocks /\ c # 1 /\ Succ(cursor) # <<>> /\ edge > 0
    <3>1. c \in Blocks /\ Succ(cursor) \in Seq(Blocks)
      BY <1>1, <2>1, Shape
    <3>2. c \in ToSet(func.succ[cursor])
      BY <1>1, <2>1, <3>1, LenProperties DEF ToSet
    <3>3. 1 \notin ToSet(func.succ[cursor])
      BY <1>1, <2>1, CodeFacts
    <3> QED
      BY <2>1, <3>1, <3>2, <3>3
  <2>3. PICK m \in MergeResults(state[c], TransferEdge(func, cursor, c, out)) : state' = [state EXCEPT ![c] = m]
    BY <1>5 DEF PropagateEdge
  <2> HIDE DEF c
  <2>4. state[c] \in MoveStates /\ out \in MoveStates /\ state \in [Blocks -> MoveStates]
    BY <2>2 DEF EngineInv, AnalysisInv
  <2>5. TransferEdge(func, cursor, c, out) = out
    BY <1>1, <2>1, <2>2, <2>4 DEF EngineInv, MoveEngine, MoveTransferEdge
  <2>6. m \in MoveMergeResults(state[c], out)
    BY <2>3, <2>4, <2>5 DEF EngineInv, MoveEngine
  <2>7. \A b \in Blocks : state'[b] = IF b = c THEN m ELSE state[b]
    BY <2>2, <2>3, <2>4
  <2>8. state'[1] = state[1]
    BY <1>1, <2>2, <2>7
  <2>9. ASSUME NEW g \in Guards, Guarded(func, g) PROVE HereWhole(g, m.places) /\ HereWhole(g, out.places)
    <3>1. HereWhole(g, state[c].places) /\ HereWhole(g, out.places)
      BY <2>2, <2>9 DEF WholeInv
    <3>2. CASE state[c].unvisited
      <4>1. m = [out EXCEPT !.unvisited = FALSE]
        BY <2>6, <3>2 DEF MoveMergeResults
      <4>2. m.places = out.places
        BY <2>4, <4>1 DEF MoveStates
      <4> QED
        BY <3>1, <4>2
    <3>3. CASE ~state[c].unvisited
      <4>1. PICK merged \in MergePlaces(state[c].places, out.places) : m = [state[c] EXCEPT !.places = merged]
        BY <2>6, <3>3 DEF MoveMergeResults
      <4>2. m.places = merged /\ state[c].places \in PlaceStates /\ out.places \in PlaceStates
        BY <2>4, <4>1 DEF MoveStates
      <4>3. HereWhole(g, merged)
        BY <3>1, <4>1, <4>2, MergeWhole
      <4> QED
        BY <3>1, <4>2, <4>3
    <3> QED
      BY <3>2, <3>3
  <2>10. ASSUME NEW g \in Guards, Guarded(func, g), NEW b \in Blocks PROVE HereWhole(g, state'[b].places)
    BY <2>7, <2>9, <2>10 DEF WholeInv
  <2> QED
    BY <2>1, <2>8, <2>9, <2>10 DEF WholeInv, Blocks, Succ
<1>6. CASE LeaveBlock
  BY <1>2, <1>6 DEF LeaveBlock
<1>7. CASE EndPass
  <2>1. cursor \notin reachable
    BY <1>1, <1>7 DEF EndPass, Blocks
  <2>2. ~(edge > 0) /\ edge' = edge
    BY <1>1, <1>7, <2>1 DEF EndPass
  <2> QED
    BY <1>2, <1>7, <2>2 DEF EndPass
<1>8. CASE UNCHANGED engineVars
  BY <1>2, <1>8 DEF engineVars
<1> QED
  BY <1>3, <1>4, <1>5, <1>6, <1>7, <1>8 DEF EngineNext

\* The invariant that the drops of values with a Drop implementation rest on.
THEOREM StatesAreWhole == ASSUME MoveEngine PROVE Spec => []WholeInv
<1>1. MoveInv /\ Init => WholeInv
  BY WholeStart DEF MoveInv, CheckInv, EngineInv, Init
<1>2. MoveInv /\ WholeInv /\ [Next]_vars => WholeInv'
  BY EngineAlong, WholeStep DEF MoveInv, CheckInv, EngineInv
<1> QED
  BY <1>1, <1>2, MoveInvariant, PTL DEF Spec

\* A function that was reported nothing moves nothing out of a value with a Drop implementation.
LEMMA AcceptedGuards ==
  ASSUME CheckInv, diagnostics = {}, emitted = NumBlocks(func)
  PROVE  NoMoveUnderDrop(func)
<1> SUFFICES ASSUME NEW op \in {"move", "await"}, NEW p \in Allocas(func, op)
             PROVE  ProperAncestors(p) \cap DropImpl = {}
  BY DEF NoMoveUnderDrop
<1>1. func \in Functions /\ Blocks = DOMAIN func.code
  BY FunctionShape DEF CheckInv, FixpointInv
<1>2. PICK b \in DOMAIN func.code : \E i \in DOMAIN func.code[b] : func.code[b][i].op = op /\ func.code[b][i].place = p
  BY <1>1, AllocasAre
<1>3. PICK i \in DOMAIN func.code[b] : func.code[b][i].op = op /\ func.code[b][i].place = p
  BY <1>2
<1>4. BlockReports(b) = {}
  BY <1>1, <1>2 DEF CheckInv, ReportInv, Blocks
<1>5. Report(PlacesBefore(b, i), func.code[b][i]) = {}
  BY <1>3, <1>4 DEF BlockReports
<1> QED
  BY <1>3, <1>5 DEF Report

\* A drop that an accepted function performs finds all of a value without fields, or with a Drop implementation.
LEMMA DroppedIsOwned ==
  ASSUME MoveInv, WholeInv, StepInst, ~InParts(func, Cleaned(at[1], at[2]).place), RootDrops(func), Cleaned(at[1], at[2]).op = "drop",
         Owned[Cleaned(at[1], at[2]).place] = {} \/ Cleaned(at[1], at[2]).place \in DropImpl
  PROVE  ~NotOwned(Cleaned(at[1], at[2]).place)
<1> DEFINE inst == func.code[at[1]][at[2]]
           p == inst.place
           b == at[1]
<1>1. CheckInv /\ phase = "run" /\ at[2] <= Len(func.code[at[1]])
  BY DEF MoveInv, StepInst
<1>2. /\ Report(Now, inst) = {} /\ Cleaned(at[1], at[2]) = inst /\ inst.op = "drop"
      /\ GetPlaceState(p, Now) \notin {"Moved", "Dropped", "Uninitialized"}
  <2>1. /\ Report(Now, inst) = {}
        /\ <<at[1], at[2]>> \in deadDrops <=>
             inst.op = "drop" /\ GetPlaceState(p, Now) \in {"Moved", "Dropped", "Uninitialized"}
    BY <1>1, Accepted
  <2>2. CASE <<at[1], at[2]>> \in deadDrops
    <3>1. Cleaned(at[1], at[2]) = [inst EXCEPT !.op = "nop"] /\ inst.op = "drop"
      BY <2>1, <2>2 DEF Cleaned, Removed
    <3>2. Cleaned(at[1], at[2]).op # "drop"
      BY <3>1
    <3> QED
      BY <3>2
  <2>3. CASE <<at[1], at[2]>> \notin deadDrops
    <3>1. Cleaned(at[1], at[2]) = inst
      BY <2>3 DEF Cleaned
    <3>2. inst.op = "drop"
      BY <3>1
    <3> QED
      BY <2>1, <2>3, <3>1, <3>2
  <2> QED
    BY <2>2, <2>3
<1>3. /\ func \in Functions /\ b \in DOMAIN func.code /\ at[2] \in DOMAIN func.code[b] /\ b \in Blocks
      /\ Now \in PlaceStates /\ at[2] \in Nat \ {0} /\ Len(func.code[b]) \in Nat
  BY <1>1, PositionFacts
<1>4. p \in Places /\ p \in Allocas(func, "drop") /\ Len(p) = 1
  <2>1. p \in Places /\ p \in Allocas(func, inst.op)
    BY <1>3, InstFacts
  <2> HIDE DEF p
  <2>2. p \in Allocas(func, "drop")
    BY <1>2, <2>1
  <2> QED
    BY <2>1, <2>2 DEF RootDrops
<1>5. GetPlaceState(p, Now) # "ConditionallyMoved"
  BY <1>2 DEF Report
<1> SUFFICES ASSUME NEW q \in Leaves(p) PROVE own[q] = "owned"
  BY <1>2 DEF NotOwned
<1>6. Here(p, Now)
  <2> HIDE DEF p
  <2>1. GetPlaceState(p, Now) \in MoveState /\ (GetPlaceState(p, Now) \in Sure <=> Here(p, Now))
    BY <1>3, <1>4, PlaceStateIs
  <2> QED
    BY <1>2, <1>5, <2>1 DEF MoveState, Sure
<1>7. Here(q, Now)
  <2>1. q \in Places /\ IsAncestorOf(p, q)
    BY DEF Leaves
  <2>2. CASE Owned[p] = {}
    BY <1>4, <1>6, <2>1, <2>2, NothingBelow
  <2>3. CASE p \in DropImpl
    <3>2. p \in Guards
      BY <1>4, <2>3 DEF Guards
    <3>1. Guarded(func, p)
      <4>1. NoMoveUnderDrop(func)
        BY <1>1, AcceptedGuards DEF CheckInv, ReportInv
      <4>2. WholeInit(func, p)
        BY <1>2, <1>4, Self DEF InParts, WholeInit
      <4> QED
        BY <4>1, <4>2 DEF Guarded
    <3>3. HereWhole(p, Now)
      <4> DEFINE P == state[b].places
      <4>1. P \in PlaceStates /\ Tidy(func, P) /\ HereWhole(p, P)
        BY <1>1, <1>3, <3>1, <3>2 DEF CheckInv, AnalysisInv, MoveStates, WholeInv
      <4>2. b = 1 => OnlyLocals(P)
        BY <1>3, <3>2, EntryWhole DEF WholeInv
      <4>3. at[2] - 1 \in 0 .. Len(func.code[b])
        BY <1>1, <1>3
      <4> HIDE DEF P, p
      <4>4. HereWhole(p, TransferInsts(P, SubSeq(func.code[b], 1, at[2] - 1)))
        BY <1>3, <3>1, <3>2, <4>1, <4>2, <4>3, BlockWhole
      <4> QED
        BY <4>4 DEF Now, PlacesBefore, P
    <3>4. Whole(p, Now)
      BY <1>6, <3>3 DEF HereWhole
    <3> HIDE DEF p
    <3>5. GetPlaceState(q, Now) = "Live"
      BY <1>3, <1>4, <2>1, <3>4, WholeIsLive
    <3> QED
      BY <1>3, <2>1, <3>5, PlaceStateIs DEF Sure
  <2> QED
    BY <1>2, <2>2, <2>3
<1> QED
  BY <1>1, <1>2, <1>7, HereIsOwned

(***************************************************************************)
(* What an accepted function drops without it being there is part of a     *)
(* local that gets its value field by field, or has owned fields and no    *)
(* Drop implementation on or above it.                                     *)
(***************************************************************************)
DropsWhatIsThere ==
  \A p \in Committed("drop") :
    InParts(func, p) \/ (Owned[p] # {} /\ p \notin DropImpl /\ ProperAncestors(p) \cap DropImpl = {})

\* A drop that the checker accepts finds its value, or what a partial move has left of it.
THEOREM DropsAreThere ==
  ASSUME MoveEngine
  PROVE  Spec => [](RootDrops(func) => DropsWhatIsThere)
<1> DEFINE Inv == RootDrops(func) => DropsWhatIsThere
<1>1. Init => Inv
  BY DEF Init, DropsWhatIsThere, Committed
<1>2. MoveInv /\ WholeInv /\ Inv /\ [Next]_vars => Inv'
  <2> SUFFICES ASSUME MoveInv, WholeInv, Inv, [Next]_vars, RootDrops(func)',
                      NEW p \in Places, <<"drop", p>> \in fault'
               PROVE  \/ InParts(func, p)'
                      \/ Owned[p] # {} /\ p \notin DropImpl /\ ProperAncestors(p) \cap DropImpl = {}
    BY DEF DropsWhatIsThere, Committed
  <2>1. func' = func
    <3>1. [EngineNext]_engineVars
      BY EngineAlong
    <3> QED
      BY <3>1 DEF engineVars, EngineNext, SkipUnreachable, TransferBlock, PropagateEdge, LeaveBlock, EndPass
  <2>2. RootDrops(func) /\ (InParts(func, p)' <=> InParts(func, p))
    BY <2>1 DEF RootDrops, InParts, WholeInit, Allocas
  <2>3. CASE <<"drop", p>> \in fault
    BY <2>2, <2>3 DEF DropsWhatIsThere, Committed
  <2>4. CASE <<"drop", p>> \notin fault
    <3>1. CASE StepInst
      <4>1. Cleaned(at[1], at[2]).op = "drop" /\ Cleaned(at[1], at[2]).place = p /\ NotOwned(p)
        BY <2>4, <3>1 DEF StepInst, Commit
      <4>2. InParts(func, p) \/ (Owned[p] # {} /\ p \notin DropImpl)
        BY <2>2, <3>1, <4>1, DroppedIsOwned
      <4>3. ProperAncestors(p) = {}
        <5>1. p \in Allocas(func, "drop")
          <6>1. func \in Functions /\ at[1] \in DOMAIN func.code /\ at[2] \in DOMAIN func.code[at[1]]
            BY <3>1, StepExecutes DEF MoveInv, CheckInv, FixpointInv, FuncOK
          <6>2. Cleaned(at[1], at[2]) = func.code[at[1]][at[2]]
            BY <4>1 DEF Cleaned, Removed
          <6> QED
            BY <4>1, <6>1, <6>2, InstFacts
        <5>2. Len(p) = 1
          BY <2>2, <5>1 DEF RootDrops
        <5>3. 1 .. Len(p) - 1 = {}
          BY <5>2
        <5> QED
          BY <5>3 DEF ProperAncestors
      <4> QED
        BY <2>2, <4>2, <4>3
    <3>2. CASE Return
      BY <2>4, <3>2 DEF Return
    <3>3. CASE ~StepInst /\ ~Return
      BY <2>4, <3>3 DEF Next, Analyse, EmitBlock, FinishCheck, Branch, runVars, vars
    <3> QED
      BY <3>1, <3>2, <3>3
  <2> QED
    BY <2>3, <2>4
<1> HIDE DEF Inv
<1>3. Spec => []Inv
  BY <1>1, <1>2, StatesAreWhole, MoveInvariant, PTL DEF Spec
<1> QED
  BY <1>3 DEF Inv

(***************************************************************************)
(* What an accepted function whose locals are initialised as a whole drops *)
(* twice is at most a field of a struct without a Drop implementation: the *)
(* field was moved, and the struct is dropped with what is left of it.     *)
(***************************************************************************)
THEOREM OnlyPartsAreDroppedTwice ==
  ASSUME MoveEngine
  PROVE  Spec => [](WholeInits(func) /\ RootDrops(func) => OnlyPartsDropTwice)
<1> DEFINE Drops == RootDrops(func) => DropsWhatIsThere
           Inv   == WholeInits(func) /\ RootDrops(func) => OnlyPartsDropTwice
<1>1. Drops => Inv
  <2> SUFFICES ASSUME DropsWhatIsThere, WholeInits(func), NEW p \in Committed("drop")
               PROVE  Owned[p] # {} /\ p \notin DropImpl /\ ProperAncestors(p) \cap DropImpl = {}
    BY DEF OnlyPartsDropTwice
  <2> QED
    BY DEF DropsWhatIsThere, WholeInits, InParts
<1>2. Spec => []Drops
  BY DropsAreThere
<1> HIDE DEF Drops, Inv
<1>3. Spec => []Inv
  BY <1>1, <1>2, PTL
<1> QED
  BY <1>3 DEF Inv


-----------------------------------------------------------------------------
(* No drop that is due is removed.                                         *)

\* X has every single value and every place that is part of another.
Watched(X) == X \subseteq Places /\ \A p \in Places : Len(p) > 1 \/ Owned[p] = {} => p \in X

\* As long as a value is owned, no place of X around it has vanished.
Vouched(o, P, X) ==
  \A q \in LeafPlaces, x \in X : o[q] = "owned" /\ IsAncestorOf(x, q) => Inherited(x, P) \notin Vanished

\* What one state says of a place, for the whole place.
LEMMA VanishedIs ==
  ASSUME NEW P \in PlaceStates, NEW p \in Places
  PROVE  GetPlaceState(p, P) \in Vanished <=> Inherited(p, P) \in Vanished
BY PlaceStateIs DEF Vanished, Sure

\* Where two places part: a field of a common ancestor, which only q has.
LEMMA PartingPlace ==
  ASSUME NEW p \in Places, NEW q \in LeafPlaces, ~IsAncestorOf(p, q),
         NEW a \in Places, IsAncestorOf(a, p), IsAncestorOf(a, q)
  PROVE  \E b \in ProperAncestors(p), g \in Nat :
           /\ IsAncestorOf(a, b) /\ g \in Owned[b] /\ p[Len(b) + 1] # g
           /\ Append(b, g) \in Places /\ Len(Append(b, g)) > 1
           /\ IsAncestorOf(Append(b, g), q) /\ ~IsAncestorOf(p, Append(b, g))
<1>1. /\ p \in Seq(Nat) /\ Len(p) \in Nat /\ Len(p) > 0
      /\ q \in Places /\ q \in Seq(Nat) /\ Len(q) \in Nat /\ Owned[q] = {}
      /\ a \in Seq(Nat) /\ Len(a) \in Nat /\ Len(a) > 0
  BY PlaceFacts DEF LeafPlaces
<1> DEFINE D == {i \in 1 .. Len(p) : i > Len(q) \/ p[i] # q[i]}
<1>2. D \in SUBSET Nat /\ D # {}
  <2>1. ~(Len(p) <= Len(q) /\ \A i \in 1 .. Len(p) : p[i] = q[i])
    BY <1>1, PrefixIs
  <2>2. CASE Len(p) <= Len(q)
    BY <2>1, <2>2
  <2>3. CASE ~(Len(p) <= Len(q))
    <3>1. Len(p) \in 1 .. Len(p) /\ Len(p) > Len(q)
      BY <1>1, <2>3
    <3> QED
      BY <1>1, <3>1
  <2> QED
    BY <2>2, <2>3
<1>3. PICK m \in D : \A i \in D : m <= i
  <2> HIDE DEF D
  <2> QED
    BY <1>2, LeastExists
<1>4. m \in 1 .. Len(p) /\ m \in Nat /\ \A i \in 1 .. m - 1 : i <= Len(q) /\ p[i] = q[i]
  <2>1. m \in 1 .. Len(p) /\ m \in Nat
    BY <1>1, <1>3
  <2>2. ASSUME NEW i \in 1 .. m - 1 PROVE i <= Len(q) /\ p[i] = q[i]
    <3>1. i \in 1 .. Len(p) /\ ~(m <= i) /\ i \in Nat
      BY <1>1, <2>1
    <3>2. i \notin D
      BY <1>3, <3>1
    <3> QED
      BY <1>1, <3>1, <3>2
  <2> QED
    BY <2>1, <2>2
<1>5. m <= Len(q) /\ p[m] # q[m]
  <2> SUFFICES ASSUME m > Len(q) PROVE FALSE
    BY <1>1, <1>3
  <2>1. Len(q) <= Len(p) /\ \A i \in 1 .. Len(q) : q[i] = p[i]
    BY <1>1, <1>4
  <2>2. IsAncestorOf(q, p)
    BY <1>1, <2>1, PrefixIs
  <2>3. q = p
    BY <1>1, <2>2, NothingBelow
  <2> QED
    BY <2>3, Self
<1>6. /\ Len(a) <= Len(p) /\ Len(a) <= Len(q)
      /\ \A i \in 1 .. Len(a) : a[i] = p[i] /\ a[i] = q[i]
  BY <1>1, PrefixIs
<1>7. Len(a) < m
  <2> SUFFICES ASSUME m <= Len(a) PROVE FALSE
    BY <1>1, <1>4
  <2>1. m \in 1 .. Len(a)
    BY <1>1, <1>4
  <2> QED
    BY <1>5, <1>6, <2>1
<1> DEFINE b == SubSeq(p, 1, m - 1)
           g == q[m]
           y == SubSeq(q, 1, m)
<1>8. b \in ProperAncestors(p) /\ b \in Places
  <2>1. m - 1 \in 1 .. Len(p) - 1
    BY <1>1, <1>4, <1>7
  <2> QED
    BY <2>1, PlacesAssumption DEF ProperAncestors, Places
<1>9. /\ b \in Seq(Nat) /\ Len(b) = m - 1 /\ \A i \in 1 .. m - 1 : b[i] = p[i]
  <2>1. 1 \in Int /\ m - 1 \in Int /\ \A i \in 1 .. m - 1 : p[i] \in Nat
    BY <1>1, <1>4, ElementOfSeq
  <2>2. /\ SubSeq(p, 1, m - 1) \in Seq(Nat)
        /\ Len(SubSeq(p, 1, m - 1)) = IF 1 <= m - 1 THEN m - 1 - 1 + 1 ELSE 0
        /\ \A i \in 1 .. m - 1 - 1 + 1 : SubSeq(p, 1, m - 1)[i] = p[1 + i - 1]
    BY <2>1, SubSeqProperties
  <2> QED
    BY <1>1, <1>4, <1>7, <2>2
<1>10. /\ y \in Seq(Nat) /\ Len(y) = m /\ \A i \in 1 .. m : y[i] = q[i]
  <2>1. 1 \in Int /\ m \in Int /\ \A i \in 1 .. m : q[i] \in Nat
    BY <1>1, <1>4, <1>5, ElementOfSeq
  <2>2. /\ SubSeq(q, 1, m) \in Seq(Nat)
        /\ Len(SubSeq(q, 1, m)) = IF 1 <= m THEN m - 1 + 1 ELSE 0
        /\ \A i \in 1 .. m - 1 + 1 : SubSeq(q, 1, m)[i] = q[1 + i - 1]
    BY <2>1, SubSeqProperties
  <2> QED
    BY <1>4, <2>2
<1>11. g \in Nat
  BY <1>1, <1>4, <1>5, ElementOfSeq
<1>12. y \in Places
  <2>1. CASE m = Len(q)
    BY <1>1, <2>1, SubSeqFull
  <2>2. CASE m # Len(q)
    <3>1. m \in 1 .. Len(q) - 1
      BY <1>1, <1>4, <1>5, <2>2
    <3> QED
      BY <1>1, <3>1, PlacesAssumption DEF Places
  <2> QED
    BY <2>1, <2>2
<1>13. b = SubSeq(q, 1, m - 1)
  <2>1. 1 \in Int /\ m - 1 \in Int /\ \A i \in 1 .. m - 1 : q[i] \in Nat
    BY <1>1, <1>4, <1>5, ElementOfSeq
  <2>2. /\ SubSeq(q, 1, m - 1) \in Seq(Nat)
        /\ Len(SubSeq(q, 1, m - 1)) = IF 1 <= m - 1 THEN m - 1 - 1 + 1 ELSE 0
        /\ \A i \in 1 .. m - 1 - 1 + 1 : SubSeq(q, 1, m - 1)[i] = q[1 + i - 1]
    BY <2>1, SubSeqProperties
  <2> DEFINE c == SubSeq(q, 1, m - 1)
  <2>3. c \in Seq(Nat) /\ Len(c) = m - 1 /\ \A i \in 1 .. m - 1 : c[i] = q[i]
    BY <1>1, <1>4, <1>7, <2>2
  <2> HIDE DEF b, c
  <2>4. b = c
    BY <1>4, <1>9, <2>3, SeqEqual
  <2> QED
    BY <2>4 DEF c
<1>14. g \in Owned[b]
  <2>1. m - 1 \in 1 .. Len(q) - 1 /\ (m - 1) + 1 = m
    BY <1>1, <1>4, <1>5, <1>7
  <2>2. q[(m - 1) + 1] \in Owned[SubSeq(q, 1, m - 1)]
    BY <1>1, <2>1, PlacesAssumption DEF Places
  <2> QED
    BY <1>13, <2>1, <2>2
<1>15. Append(b, g) = y
  <2>1. /\ Append(b, g) \in Seq(Nat) /\ Len(Append(b, g)) = Len(b) + 1
        /\ \A i \in 1 .. Len(b) : Append(b, g)[i] = b[i]
        /\ Append(b, g)[Len(b) + 1] = g
    BY <1>9, <1>11, AppendProperties
  <2> DEFINE z == Append(b, g)
  <2>2. Len(z) = m /\ \A i \in 1 .. m : z[i] = y[i]
    BY <1>4, <1>9, <1>10, <2>1
  <2> HIDE DEF b, g, y, z
  <2>3. z = y
    BY <1>10, <2>1, <2>2, SeqEqual DEF z
  <2> QED
    BY <2>3 DEF z
<1> HIDE DEF D, b, g, y
<1>16. IsAncestorOf(a, b)
  <2>1. ASSUME NEW i \in 1 .. Len(a) PROVE a[i] = b[i]
    <3>1. i \in 1 .. m - 1
      BY <1>1, <1>4, <1>7
    <3> QED
      BY <1>6, <1>9, <3>1
  <2>2. Len(a) <= Len(b)
    BY <1>1, <1>4, <1>7, <1>9
  <2> QED
    BY <1>1, <1>9, <2>1, <2>2, PrefixIs
<1>17. IsAncestorOf(y, q)
  BY <1>1, <1>5, <1>10, PrefixIs
<1>18. ~IsAncestorOf(p, y)
  BY <1>17, <1>12, <1>1, Ancestry
<1>19. p[Len(b) + 1] # g /\ Len(y) > 1
  BY <1>1, <1>4, <1>5, <1>7, <1>9, <1>10 DEF g
<1> QED
  BY <1>8, <1>11, <1>12, <1>14, <1>15, <1>16, <1>17, <1>18, <1>19

\* A move leaves what is around a value that stays.
LEMMA MovedVouches ==
  ASSUME NEW P \in PlaceStates, NEW p \in Places, NEW X, Watched(X), NEW q \in LeafPlaces, ~IsAncestorOf(p, q),
         \A x \in X : IsAncestorOf(x, q) => Inherited(x, P) \notin Vanished
  PROVE  \A x \in X : IsAncestorOf(x, q) => Inherited(x, MarkMoved(p, P)) \notin Vanished
<1> DEFINE moved == Overwrite(p, "Moved", P)
<1>1. PICK top \in Places :
        /\ IsAncestorOf(top, p)
        /\ MarkMoved(p, P) = Overwrite(top, "Moved", moved)
        /\ top # p => \A b \in ProperAncestors(p) : IsAncestorOf(top, b) => Exhausted(b, p, moved)
  BY MoveTakes
<1>2. "Moved" \in MoveState
  BY DEF MoveState
<1>3. Overwritten(moved, p, "Moved", P)
  BY <1>2, OverwriteGives
<1> HIDE DEF moved
<1>4. Overwritten(Overwrite(top, "Moved", moved), top, "Moved", moved)
  BY <1>2, <1>3, OverwriteGives DEF Overwritten
<1> SUFFICES ASSUME NEW x \in X, IsAncestorOf(x, q) PROVE Inherited(x, MarkMoved(p, P)) \notin Vanished
  OBVIOUS
<1>5. x \in Places /\ q \in Places
  BY DEF Watched, LeafPlaces
<1>6. ~IsAncestorOf(p, x)
  BY <1>5, Ancestry
<1>7. ~IsAncestorOf(top, x)
  <2> SUFFICES ASSUME IsAncestorOf(top, x) PROVE FALSE
    OBVIOUS
  <2>1. IsAncestorOf(top, q) /\ top # p
    BY <1>5, <1>6, Ancestry
  <2>2. PICK b \in ProperAncestors(p), g \in Nat :
          /\ IsAncestorOf(top, b) /\ g \in Owned[b] /\ p[Len(b) + 1] # g
          /\ Append(b, g) \in Places /\ Len(Append(b, g)) > 1
          /\ IsAncestorOf(Append(b, g), q) /\ ~IsAncestorOf(p, Append(b, g))
    BY <1>1, <2>1, PartingPlace
  <2> DEFINE y == Append(b, g)
  <2>3. GetPlaceState(y, moved) \in Vanished
    BY <1>1, <2>1, <2>2 DEF Exhausted, Vanished
  <2>4. y \in Places /\ y \in X /\ IsAncestorOf(y, q) /\ ~IsAncestorOf(p, y)
    BY <2>2 DEF Watched
  <2> HIDE DEF y
  <2>5. Inherited(y, moved) \in Vanished
    BY <1>3, <2>3, <2>4, VanishedIs DEF Overwritten
  <2> QED
    BY <1>3, <2>4, <2>5 DEF Overwritten
<1> QED
  BY <1>1, <1>3, <1>4, <1>5, <1>6, <1>7 DEF Overwritten

\* What an instruction leaves owned, its transfer function leaves noticed.
LEMMA StepVouches ==
  ASSUME NEW f \in Functions, NEW b \in DOMAIN f.code, NEW i \in DOMAIN f.code[b],
         NEW P \in PlaceStates, NEW o \in Fates, NEW o2 \in Fates, Executes(f.code[b][i], P, o, o2),
         NEW X, Watched(X), Vouched(o, P, X),
         f.code[b][i].op = "param" => OnlyLocals(P),
         f.code[b][i].op = "drop" => f.code[b][i].place \in X,
         f.code[b][i].op = "init" => \A a \in ProperAncestors(f.code[b][i].place) \cap X :
                                       GetPlaceState(a, TransferInst(P, f.code[b][i])) \notin Vanished
  PROVE  Vouched(o2, TransferInst(P, f.code[b][i]), X)
<1> DEFINE inst == f.code[b][i]
           p == inst.place
           op == inst.op
           Q == TransferInst(P, inst)
<1>1. /\ p \in Places /\ (op \in {"alloca", "param"} => Len(p) = 1)
      /\ Q \in PlaceStates
  <2>1. inst \in Instructions
    BY InstFacts
  <2>2. Q \in PlaceStates
    BY <2>1, TransferType
  <2> QED
    BY <2>2, InstFacts DEF WellPlaced
<1>2. /\ op = "alloca" => Q = Put(p, "Uninitialized", P)
      /\ op = "param" => Q = Put(p, "Live", P)
      /\ op = "init" => Q = MarkLive(p, P)
      /\ op \in {"move", "await"} => Q = MarkMoved(p, P)
      /\ op \in {"drop", "free"} => Q = MarkDropped(p, P)
      /\ op \notin {"alloca", "param", "init", "move", "await", "drop", "free"} => Q = P
  BY TransferCases
<1>3. /\ op = "alloca" => \A q \in LeafPlaces : o2[q] = IF IsAncestorOf(p, q) THEN "uninit" ELSE o[q]
      /\ op \in {"param", "init"} => \A q \in LeafPlaces : o2[q] = IF IsAncestorOf(p, q) THEN "owned" ELSE o[q]
      /\ op \in {"move", "await", "free"} => \A q \in LeafPlaces : o2[q] = IF IsAncestorOf(p, q) THEN "gone" ELSE o[q]
      /\ op = "drop" =>
           IF GetPlaceState(p, P) \in Vanished
           THEN o2 = o
           ELSE \A q \in LeafPlaces : o2[q] = IF IsAncestorOf(p, q) THEN "gone" ELSE o[q]
      /\ op \notin {"alloca", "param", "init", "move", "await", "drop", "free"} => o2 = o
  BY DEF Executes, Vanished
<1>4. /\ op = "param" => OnlyLocals(P)
      /\ op = "drop" => p \in X
      /\ op = "init" => \A a \in ProperAncestors(p) \cap X : GetPlaceState(a, Q) \notin Vanished
  OBVIOUS
<1> SUFFICES ASSUME NEW q \in LeafPlaces, NEW x \in X, o2[q] = "owned", IsAncestorOf(x, q)
             PROVE  Inherited(x, Q) \notin Vanished
  BY DEF Vouched
<1> HIDE DEF inst, p, op, Q
<1>5. /\ x \in Places /\ q \in Places /\ Len(x) \in Nat /\ Len(p) \in Nat /\ Len(p) > 0
      /\ IsAncestorOf(p, x) => IsAncestorOf(p, q)
      /\ IsAncestorOf(p, q) => IF Len(p) <= Len(x) THEN IsAncestorOf(p, x) ELSE IsAncestorOf(x, p) /\ x # p
  <2>1. x \in Places /\ q \in Places
    BY DEF Watched, LeafPlaces
  <2>2. Len(x) \in Nat /\ Len(p) \in Nat /\ Len(p) > 0
    BY <1>1, <2>1, PlaceFacts
  <2> QED
    BY <1>1, <2>1, <2>2, Ancestry
<1>6. ASSUME o[q] = "owned" PROVE \A y \in X : IsAncestorOf(y, q) => Inherited(y, P) \notin Vanished
  BY <1>6 DEF Vouched
<1>7. /\ HasEntry(Put(p, "Uninitialized", P), p, "Uninitialized", P)
      /\ HasEntry(Put(p, "Live", P), p, "Live", P)
  BY <1>1, PutGives DEF MoveState
<1>8. CASE op \in {"alloca", "param"} /\ ~IsAncestorOf(p, q)
  <2>1. o[q] = "owned" /\ ~IsAncestorOf(p, x)
    BY <1>3, <1>5, <1>8
  <2>2. Inherited(x, Q) = Inherited(x, P)
    BY <1>2, <1>5, <1>7, <1>8, <2>1 DEF HasEntry
  <2> QED
    BY <1>6, <2>1, <2>2
<1>9. CASE op \in {"alloca", "param"} /\ IsAncestorOf(p, q)
  <2>1. op = "param" /\ HasEntry(Q, p, "Live", P)
    BY <1>2, <1>3, <1>7, <1>9
  <2>2. Len(p) = 1 /\ Len(p) <= Len(x) /\ IsAncestorOf(p, x)
    <3>1. Len(p) = 1 /\ Len(x) > 0
      BY <1>1, <1>5, <1>9, PlaceFacts
    <3> QED
      BY <1>5, <1>9, <3>1
  <2>3. Deepest(p, x, Q)
    <3>1. DOMAIN Q = DOMAIN P \cup {p} /\ OnlyLocals(P)
      BY <1>4, <2>1 DEF HasEntry
    <3>2. \A k \in DOMAIN Q : Len(k) = 1
      BY <2>2, <3>1 DEF OnlyLocals
    <3>3. 1 <= Len(p)
      BY <2>2
    <3> QED
      BY <2>2, <3>1, <3>2, <3>3 DEF Deepest
  <2>4. Inherited(x, Q) = "Live"
    BY <1>1, <1>5, <2>1, <2>3, InheritsFrom DEF HasEntry
  <2> QED
    BY <2>4 DEF Vanished
<1>10. CASE op = "init"
  <2>1. CASE IsAncestorOf(p, x)
    BY <1>1, <1>2, <1>5, <1>10, <2>1, LiveGives DEF Vanished
  <2>2. CASE ~IsAncestorOf(p, x) /\ IsAncestorOf(p, q)
    <3>1. x \in ProperAncestors(p)
      BY <1>1, <1>5, <2>2, ProperAncestorIs
    <3> QED
      BY <1>1, <1>4, <1>5, <1>10, <3>1, VanishedIs
  <2>3. CASE ~IsAncestorOf(p, x) /\ ~IsAncestorOf(p, q)
    <3>1. Inherited(x, Q) = Inherited(x, P) \/ Inherited(x, Q) = "Live"
      BY <1>1, <1>2, <1>5, <1>10, <2>3, LiveGives
    <3> QED
      BY <1>3, <1>6, <1>10, <2>3, <3>1 DEF Vanished
  <2> QED
    BY <2>1, <2>2, <2>3
<1>11. CASE op \in {"move", "await"}
  <2>1. o[q] = "owned" /\ ~IsAncestorOf(p, q)
    BY <1>3, <1>11
  <2> QED
    BY <1>1, <1>2, <1>6, <1>11, <2>1, MovedVouches
<1>12. CASE op \in {"drop", "free"}
  <2>1. o[q] = "owned"
    BY <1>3, <1>12
  <2>2. Q = P \/ Overwritten(Q, p, "Dropped", P)
    BY <1>1, <1>2, <1>12, OverwriteGives DEF MarkDropped, MoveState
  <2>3. CASE ~IsAncestorOf(p, x)
    BY <1>5, <1>6, <2>1, <2>2, <2>3 DEF Overwritten
  <2>4. CASE IsAncestorOf(p, x)
    <3>1. IsAncestorOf(p, q) /\ op = "drop" /\ p \in X /\ GetPlaceState(p, P) \in Vanished
      BY <1>3, <1>4, <1>5, <1>12, <2>4
    <3>2. Inherited(p, P) \notin Vanished
      BY <1>6, <2>1, <3>1
    <3> QED
      BY <1>1, <3>1, <3>2, VanishedIs
  <2> QED
    BY <2>3, <2>4
<1>13. CASE op \notin {"alloca", "param", "init", "move", "await", "drop", "free"}
  BY <1>2, <1>3, <1>6, <1>13
<1> QED
  BY <1>8, <1>9, <1>10, <1>11, <1>12, <1>13

\* What the analysis takes for gone holds nothing.
VouchInv == phase = "run" /\ StoresNoticed => Vouched(own, Now, Places)

LEMMA AllWatched == Watched(Places)
BY DEF Watched

\* Nothing is known about the parts of a parameter before it is declared.
LEMMA NowAtParam ==
  ASSUME CheckInv, WholeInv, phase = "run", at[2] <= Len(func.code[at[1]]), func.code[at[1]][at[2]].op = "param"
  PROVE  OnlyLocals(Now)
<1> DEFINE b == at[1]
           P == state[b].places
<1>1. /\ func \in Functions /\ b \in DOMAIN func.code /\ b \in Blocks /\ at[2] \in Nat \ {0}
      /\ Len(func.code[b]) \in Nat /\ P \in PlaceStates
  <2>1. b \in Blocks
    BY PositionFacts
  <2> QED
    BY <2>1, PositionFacts DEF CheckInv, AnalysisInv, MoveStates
<1>2. b = 1 => OnlyLocals(P)
  <2>1. DOMAIN MoveEntryState(func).places = Declared(func)
    BY DEF MoveEntryState, Declared
  <2> QED
    BY <1>1, <2>1, DeclaredFacts DEF WholeInv, OnlyLocals
<1> HIDE DEF P
<1>3. at[2] - 1 \in 0 .. Len(func.code[b]) /\ at[2] \in (at[2] - 1) + 1 .. Len(func.code[b])
  BY <1>1
<1>4. OnlyLocals(TransferInsts(P, SubSeq(func.code[b], 1, at[2] - 1)))
  BY <1>1, <1>2, <1>3, BeforeParams
<1> QED
  BY <1>4 DEF Now, PlacesBefore, P

LEMMA VouchStep ==
  ASSUME CheckInv, WholeInv, StepInst, StoresNoticed, Vouched(own, Now, Places)
  PROVE  Vouched(own', Now', Places)
<1> DEFINE b == at[1]
           i == at[2]
           inst == func.code[b][i]
<1>1. /\ b \in DOMAIN func.code /\ i \in DOMAIN func.code[b] /\ own' \in Fates
      /\ Executes(inst, Now, own, own') /\ Now' = TransferInst(Now, inst)
  BY StepExecutes
<1>2. func \in Functions /\ Now \in PlaceStates /\ own \in Fates /\ b \in Blocks
  BY PositionFacts DEF CheckInv, PositionInv
<1>3. phase = "run" /\ i <= Len(func.code[b]) /\ at' = <<b, i + 1>> /\ UNCHANGED <<func, state>>
  BY DEF StepInst, engineVars
<1>4. inst.op = "param" => OnlyLocals(Now)
  BY <1>3, NowAtParam
<1>5. inst.op = "init" => \A a \in ProperAncestors(inst.place) \cap Places :
                            GetPlaceState(a, TransferInst(Now, inst)) \notin Vanished
  <2>1. Now' = PlacesBefore(b, i + 1)
    BY <1>3 DEF Now, PlacesBefore
  <2> QED
    BY <1>1, <1>2, <2>1 DEF StoresNoticed, StoreNoticed
<1>6. inst.op = "drop" => inst.place \in Places
  BY <1>1, <1>2, InstFacts
<1>7. Vouched(own', TransferInst(Now, inst), Places)
  BY <1>1, <1>2, <1>4, <1>5, <1>6, AllWatched, StepVouches
<1> QED
  BY <1>1, <1>7

LEMMA VouchAlong == CheckInv /\ WholeInv /\ VouchInv /\ [Next]_vars => VouchInv'
<1> SUFFICES ASSUME CheckInv, WholeInv, VouchInv, [Next]_vars, phase' = "run", StoresNoticed'
             PROVE  Vouched(own', Now', Places)
  BY DEF VouchInv, Vouched
<1>1. ASSUME UNCHANGED <<func, state>> PROVE StoresNoticed
  BY <1>1 DEF StoresNoticed, StoreNoticed, PlacesBefore, Blocks
<1>2. CASE Analyse
  BY <1>2 DEF Analyse
<1>3. CASE EmitBlock
  BY <1>3 DEF EmitBlock
<1>4. CASE FinishCheck
  BY <1>4 DEF FinishCheck, runVars, CheckInv, PositionInv, Vouched
<1>5. CASE StepInst
  <2>1. UNCHANGED <<func, state>> /\ phase = "run"
    BY <1>5 DEF StepInst, engineVars
  <2> QED
    BY <1>1, <1>5, <2>1, VouchStep DEF VouchInv
<1>6. CASE Branch
  <2>1. UNCHANGED <<func, state, own>> /\ phase = "run"
    BY <1>6 DEF Branch, engineVars
  <2>2. Vouched(own, Now, Places)
    BY <1>1, <2>1 DEF VouchInv
  <2>3. \A x \in Places : Weaker(x, Now', Now)
    BY <1>6, BranchWeakens
  <2> QED
    BY <2>1, <2>2, <2>3 DEF Vouched, Weaker
<1>7. CASE Return
  BY <1>7 DEF Return
<1>8. CASE UNCHANGED vars
  <2>1. UNCHANGED <<func, state, at, own, phase>>
    BY <1>8 DEF vars, engineVars, checkVars, runVars
  <2> QED
    BY <1>1, <2>1 DEF VouchInv, Vouched, Now, PlacesBefore
<1> QED
  BY <1>2, <1>3, <1>4, <1>5, <1>6, <1>7, <1>8 DEF Next

(***************************************************************************)
(* A drop that is removed as dead finds nothing to drop, on any path:      *)
(* unless a field is stored into a struct that goes on counting as moved,  *)
(* the cleanup loses no value.                                             *)
(***************************************************************************)
RemovedDropsFindNothing ==
  phase = "run" /\ StoresNoticed /\ <<at[1], at[2]>> \in deadDrops =>
    ~Holds(func.code[at[1]][at[2]].place, "owned")

LEMMA RemovedFindNothing == CheckInv /\ VouchInv => RemovedDropsFindNothing
<1> SUFFICES ASSUME CheckInv, VouchInv, phase = "run", StoresNoticed, <<at[1], at[2]>> \in deadDrops,
                    NEW q \in Leaves(func.code[at[1]][at[2]].place), own[q] = "owned"
             PROVE  FALSE
  BY DEF RemovedDropsFindNothing, Holds
<1> DEFINE p == func.code[at[1]][at[2]].place
<1>1. at[2] <= Len(func.code[at[1]])
  <2>1. PICK b \in 1 .. emitted : <<at[1], at[2]>> \in BlockDeadDrops(b)
    BY DEF CheckInv, ReportInv
  <2>2. b = at[1] /\ at[2] \in DOMAIN func.code[b]
    BY <2>1 DEF BlockDeadDrops
  <2>3. at[1] \in DOMAIN func.code /\ func \in Functions
    BY PositionFacts
  <2> QED
    BY <2>2, <2>3, CodeFacts
<1>2. GetPlaceState(p, Now) \in Vanished
  BY <1>1, Accepted DEF Vanished
<1>3. func \in Functions /\ at[1] \in DOMAIN func.code /\ at[2] \in DOMAIN func.code[at[1]] /\ Now \in PlaceStates
  BY <1>1, PositionFacts
<1>4. p \in Places
  BY <1>3, InstFacts
<1>5. q \in LeafPlaces /\ IsAncestorOf(p, q)
  BY DEF Leaves, LeafPlaces
<1> HIDE DEF p
<1>6. Inherited(p, Now) \in Vanished
  BY <1>2, <1>3, <1>4, VanishedIs
<1> QED
  BY <1>4, <1>5, <1>6 DEF VouchInv, Vouched

THEOREM VouchAlways == ASSUME MoveEngine PROVE Spec => []VouchInv
<1>1. Init => VouchInv
  BY DEF Init, VouchInv
<1>2. MoveInv /\ WholeInv /\ VouchInv /\ [Next]_vars => VouchInv'
  BY VouchAlong DEF MoveInv
<1> QED
  BY <1>1, <1>2, StatesAreWhole, MoveInvariant, PTL DEF Spec

\* The dead drops that `cleanup` turns into Nop drop nothing.
THEOREM RemovedDropsAreDead == ASSUME MoveEngine PROVE Spec => []RemovedDropsFindNothing
<1>1. MoveInv /\ VouchInv => RemovedDropsFindNothing
  BY RemovedFindNothing DEF MoveInv
<1> QED
  BY <1>1, VouchAlways, MoveInvariant, PTL

-----------------------------------------------------------------------------
(* Nothing is lost that the generator drops.                               *)

\* What is owned is part of a declared local.
OwnedIsDeclared ==
  \A q \in LeafPlaces : own[q] = "owned" => \E a \in Declared(func) : IsAncestorOf(a, q)

\* What is settled owns nothing.
SettledOwnNothing(S) ==
  \A q \in LeafPlaces, a \in Declared(func) :
    <<a, at[1], at[2]>> \in S /\ IsAncestorOf(a, q) => own[q] # "owned"

SettledInv ==
  phase = "run" =>
    OwnedIsDeclared /\ (StoresNoticed => \A S : Settles(func, S) => SettledOwnNothing(S))

LEMMA DeclaredAlong ==
  ASSUME CheckInv, OwnedIsDeclared, StepInst
  PROVE  OwnedIsDeclared'
<1> DEFINE inst == func.code[at[1]][at[2]]
           p == inst.place
<1>1. /\ at[1] \in DOMAIN func.code /\ at[2] \in DOMAIN func.code[at[1]]
      /\ Executes(inst, Now, own, own')
  BY StepExecutes
<1>2. func \in Functions /\ func' = func
  BY PositionFacts DEF StepInst, engineVars
<1>3. /\ p \in Places
      /\ inst.op = "param" => p \in Declared(func)
      /\ inst.op = "init" => \E a \in Declared(func) : IsAncestorOf(a, p)
  BY <1>1, <1>2, InstFacts DEF WellPlaced, Declared
<1> SUFFICES ASSUME NEW q \in LeafPlaces, own'[q] = "owned" PROVE \E a \in Declared(func) : IsAncestorOf(a, q)
  BY <1>2 DEF OwnedIsDeclared
<1>4. q \in Places
  BY DEF LeafPlaces
<1>5. own[q] = "owned" \/ (inst.op \in {"param", "init"} /\ IsAncestorOf(p, q))
  BY <1>1 DEF Executes
<1>6. CASE own[q] = "owned"
  BY <1>6 DEF OwnedIsDeclared
<1>7. CASE inst.op \in {"param", "init"} /\ IsAncestorOf(p, q)
  <2> HIDE DEF p, inst
  <2>1. PICK a \in Declared(func) : IsAncestorOf(a, p)
    BY <1>3, <1>7, Self
  <2>2. a \in Places
    BY <1>2, DeclaredFacts
  <2> QED
    BY <1>3, <1>4, <1>7, <2>1, <2>2, Ancestry
<1> QED
  BY <1>5, <1>6, <1>7

LEMMA SettledStep ==
  ASSUME CheckInv, VouchInv, StoresNoticed, StepInst, NEW S, Settles(func, S), SettledOwnNothing(S)
  PROVE  SettledOwnNothing(S)'
<1> DEFINE b == at[1]
           i == at[2]
           inst == func.code[b][i]
           p == inst.place
<1>1. /\ b \in DOMAIN func.code /\ i \in DOMAIN func.code[b]
      /\ Executes(inst, Now, own, own')
  BY StepExecutes
<1>2. /\ func \in Functions /\ func' = func /\ phase = "run" /\ at' = <<b, i + 1>>
      /\ at'[1] = b /\ at'[2] = i + 1
  BY PositionFacts DEF StepInst, engineVars
<1>3. p \in Places /\ (inst.op \in {"alloca", "param"} => p \in Declared(func))
  BY <1>1, <1>2, InstFacts DEF Declared
<1> SUFFICES ASSUME NEW q \in LeafPlaces, NEW a \in Declared(func), <<a, b, i + 1>> \in S, IsAncestorOf(a, q)
             PROVE  own'[q] # "owned"
  BY <1>2 DEF SettledOwnNothing
<1>4. q \in Places /\ a \in Places /\ Len(a) = 1 /\ Owned[q] = {}
  BY <1>2, DeclaredFacts DEF LeafPlaces
<1>5. \/ inst.op \in {"move", "await", "drop", "free", "alloca"} /\ p = a
      \/ <<a, b, i>> \in S /\ ~(inst.op \in {"init", "param"} /\ IsAncestorOf(a, p))
  BY <1>1 DEF Settles
<1>6. CASE inst.op \in {"move", "await", "free", "alloca"} /\ p = a
  BY <1>1, <1>6 DEF Executes
<1>7. CASE inst.op = "drop" /\ p = a
  <2>1. CASE GetPlaceState(p, Now) \in Vanished
    <3>1. Now \in PlaceStates /\ Vouched(own, Now, Places) /\ own' = own
      BY <1>1, <1>2, <1>7, <2>1, PositionFacts DEF Executes, Vanished, VouchInv
    <3> HIDE DEF p
    <3>2. Inherited(p, Now) \in Vanished
      BY <1>3, <2>1, <3>1, VanishedIs
    <3> QED
      BY <1>3, <1>7, <3>1, <3>2 DEF Vouched
  <2>2. CASE GetPlaceState(p, Now) \notin Vanished
    BY <1>1, <1>7, <2>2 DEF Executes, Vanished
  <2> QED
    BY <2>1, <2>2
<1>8. CASE <<a, b, i>> \in S /\ ~(inst.op \in {"init", "param"} /\ IsAncestorOf(a, p))
  <2>1. own[q] # "owned"
    BY <1>8 DEF SettledOwnNothing
  <2>2. ~(inst.op \in {"init", "param"} /\ IsAncestorOf(p, q))
    <3> SUFFICES ASSUME inst.op \in {"init", "param"}, IsAncestorOf(p, q) PROVE FALSE
      OBVIOUS
    <3> HIDE DEF p, inst
    <3>1. Len(p) \in Nat /\ Len(p) > 0
      BY <1>3, PlaceFacts
    <3>2. Len(a) <= Len(p)
      BY <1>4, <3>1
    <3>3. IsAncestorOf(a, p)
      BY <1>3, <1>4, <3>2, Ancestry
    <3> QED
      BY <1>8, <3>3
  <2> QED
    BY <1>1, <2>1, <2>2 DEF Executes
<1> QED
  BY <1>5, <1>6, <1>7, <1>8

LEMMA SettledBranch ==
  ASSUME CheckInv, Branch, NEW S, Settles(func, S), SettledOwnNothing(S)
  PROVE  SettledOwnNothing(S)'
<1> DEFINE b == at[1]
<1>1. PICK i \in DOMAIN Succ(b) : at' = <<Succ(b)[i], 1>>
  BY DEF Branch
<1> DEFINE c == Succ(b)[i]
<1>2. /\ func \in Functions /\ b \in DOMAIN func.code /\ at[2] = Len(func.code[b]) + 1
      /\ Succ(b) = func.succ[b] /\ UNCHANGED <<func, own>>
  <2>1. /\ func \in Functions /\ b \in DOMAIN func.code /\ b \in Blocks /\ at[2] \in Nat
        /\ Len(func.code[b]) \in Nat
    BY PositionFacts
  <2>2. Succ(b) = func.succ[b]
    BY <2>1, FunctionShape DEF CheckInv, FixpointInv
  <2> QED
    BY <2>1, <2>2 DEF Branch, CheckInv, PositionInv, engineVars
<1>3. c \in ToSet(func.succ[b])
  BY <1>2 DEF ToSet
<1> HIDE DEF c
<1>4. at'[1] = c /\ at'[2] = 1
  BY <1>1 DEF c
<1>5. \A a \in Declared(func) : <<a, c, 1>> \in S => <<a, b, Len(func.code[b]) + 1>> \in S
  BY <1>2, <1>3 DEF Settles
<1> QED
  BY <1>2, <1>4, <1>5 DEF SettledOwnNothing

LEMMA SettledAlong == CheckInv /\ VouchInv /\ SettledInv /\ [Next]_vars => SettledInv'
<1> SUFFICES ASSUME CheckInv, VouchInv, SettledInv, [Next]_vars, phase' = "run"
             PROVE  OwnedIsDeclared' /\ (StoresNoticed' => \A S : Settles(func', S) => SettledOwnNothing(S)')
  BY DEF SettledInv
<1>1. ASSUME UNCHANGED <<func, state>> PROVE StoresNoticed' <=> StoresNoticed
  BY <1>1 DEF StoresNoticed, StoreNoticed, PlacesBefore, Blocks
<1>2. CASE Analyse
  BY <1>2 DEF Analyse
<1>3. CASE EmitBlock
  BY <1>3 DEF EmitBlock
<1>4. CASE FinishCheck
  BY <1>4 DEF FinishCheck, runVars, CheckInv, PositionInv, OwnedIsDeclared, SettledOwnNothing
<1>5. CASE StepInst
  <2>1. UNCHANGED <<func, state>> /\ phase = "run"
    BY <1>5 DEF StepInst, engineVars
  <2> QED
    BY <1>1, <1>5, <2>1, DeclaredAlong, SettledStep DEF SettledInv
<1>6. CASE Branch
  <2>1. UNCHANGED <<func, state, own>> /\ phase = "run"
    BY <1>6 DEF Branch, engineVars
  <2>2. OwnedIsDeclared'
    BY <2>1 DEF SettledInv, OwnedIsDeclared
  <2> QED
    BY <1>1, <1>6, <2>1, <2>2, SettledBranch DEF SettledInv
<1>7. CASE Return
  BY <1>7 DEF Return
<1>8. CASE UNCHANGED vars
  <2>1. UNCHANGED <<func, state, at, own, phase>>
    BY <1>8 DEF vars, engineVars, checkVars, runVars
  <2> QED
    BY <1>1, <2>1 DEF SettledInv, OwnedIsDeclared, SettledOwnNothing
<1> QED
  BY <1>2, <1>3, <1>4, <1>5, <1>6, <1>7, <1>8 DEF Next

THEOREM SettledAlways == ASSUME MoveEngine PROVE Spec => []SettledInv
<1>1. Init => SettledInv
  BY DEF Init, SettledInv
<1>2. MoveInv /\ VouchInv /\ SettledInv /\ [Next]_vars => SettledInv'
  BY SettledAlong DEF MoveInv
<1> QED
  BY <1>1, <1>2, VouchAlways, MoveInvariant, PTL DEF Spec

\* A step of the execution that loses a value.
LEMMA LosesNothing ==
  ASSUME CheckInv, SettledInv, StoresNoticed, DropsItsLocals(func), [Next]_vars, phase = "run",
         NEW p \in Places, <<"leak", p>> \notin fault
  PROVE  <<"leak", p>> \notin fault'
<1>1. PICK S : Settles(func, S)
  BY DEF DropsItsLocals
<1>2. OwnedIsDeclared /\ SettledOwnNothing(S)
  BY <1>1 DEF SettledInv
<1>3. /\ func \in Functions /\ at[1] \in DOMAIN func.code /\ at[1] \in Blocks /\ at[2] \in Nat
      /\ Len(func.code[at[1]]) \in Nat
      /\ at[2] <= Len(func.code[at[1]]) => at[2] \in DOMAIN func.code[at[1]]
  BY PositionFacts
<1>4. CASE StepInst
  <2> SUFFICES ASSUME <<"leak", p>> \in fault' PROVE FALSE
    OBVIOUS
  <2> DEFINE inst == func.code[at[1]][at[2]]
  <2>1. /\ Cleaned(at[1], at[2]).op \in {"alloca", "param"} /\ Cleaned(at[1], at[2]).place = p
        /\ Holds(p, "owned") /\ at[2] <= Len(func.code[at[1]])
    BY <1>4 DEF StepInst, Commit
  <2>2. inst.op \in {"alloca", "param"} /\ inst.place = p
    BY <2>1 DEF Cleaned, Removed
  <2>3. p \in Declared(func)
    BY <1>3, <2>1, <2>2, InstFacts DEF Declared
  <2>4. <<p, at[1], at[2]>> \in S
    BY <1>1, <1>3, <2>1, <2>2, <2>3 DEF Settles
  <2>5. PICK q \in Leaves(p) : own[q] = "owned"
    BY <2>1 DEF Holds
  <2>6. q \in LeafPlaces /\ IsAncestorOf(p, q)
    BY DEF Leaves, LeafPlaces
  <2> QED
    BY <1>2, <2>3, <2>4, <2>5, <2>6 DEF SettledOwnNothing
<1>5. CASE Return
  <2> DEFINE ret == func.ret[at[1]]
  <2> SUFFICES ASSUME <<"leak", p>> \in fault' PROVE FALSE
    OBVIOUS
  <2>1. p \in DOMAIN own /\ own[p] = "owned" /\ (ret # <<>> => p \notin Leaves(ret))
    BY <1>5 DEF Return
  <2>2. p \in LeafPlaces /\ p \in Places /\ Owned[p] = {}
    BY <2>1 DEF CheckInv, PositionInv, Fates, LeafPlaces
  <2>3. PICK a \in Declared(func) : IsAncestorOf(a, p)
    BY <1>2, <2>1, <2>2 DEF OwnedIsDeclared
  <2>4. func.succ[at[1]] = <<>> /\ at[2] = Len(func.code[at[1]]) + 1
    <3>1. Succ(at[1]) = func.succ[at[1]]
      BY <1>3, FunctionShape DEF CheckInv, FixpointInv
    <3> QED
      BY <1>3, <1>5, <3>1 DEF Return, CheckInv, PositionInv
  <2>5. CASE ret = a
    <3>1. a \in Places /\ Len(a) = 1
      BY <1>3, DeclaredFacts
    <3>2. ret # <<>> /\ p \in Leaves(ret)
      BY <2>2, <2>3, <2>5, <3>1, PlacesAssumption DEF Leaves, Places
    <3> QED
      BY <2>1, <3>2
  <2>6. CASE ret # a
    <3>1. <<a, at[1], at[2]>> \in S
      BY <1>1, <1>3, <2>4, <2>6 DEF Settles
    <3> QED
      BY <1>2, <2>1, <2>2, <2>3, <3>1 DEF SettledOwnNothing
  <2> QED
    BY <2>5, <2>6
<1>6. CASE ~StepInst /\ ~Return
  BY <1>6 DEF Next, Analyse, EmitBlock, FinishCheck, Branch, runVars, vars
<1> QED
  BY <1>4, <1>5, <1>6

\* Faults are committed by the execution.
NoFaultBefore == phase \notin {"run", "returned"} => fault = {}

(***************************************************************************)
(* An accepted function that drops its locals loses no value, unless it    *)
(* stores a field into a struct that goes on counting as moved.            *)
(***************************************************************************)
THEOREM NothingDueIsLost ==
  ASSUME MoveEngine
  PROVE  Spec => [](DropsItsLocals(func) => OnlyUnnoticedStoresLeak)
<1> DEFINE Inv == DropsItsLocals(func) => OnlyUnnoticedStoresLeak
<1>1. Init => NoFaultBefore /\ Inv
  BY DEF Init, NoFaultBefore, OnlyUnnoticedStoresLeak, AcceptedNeverLeaks, Committed
<1>2. NoFaultBefore /\ [Next]_vars => NoFaultBefore'
  BY DEF NoFaultBefore, Next, Analyse, EmitBlock, FinishCheck, StepInst, Branch, Return, checkVars, runVars, vars
<1>3. MoveInv /\ SettledInv /\ NoFaultBefore /\ Inv /\ [Next]_vars => Inv'
  <2> SUFFICES ASSUME CheckInv, SettledInv, NoFaultBefore, Inv, [Next]_vars,
                      DropsItsLocals(func'), StoresNoticed', NEW p \in Places, <<"leak", p>> \in fault'
               PROVE  FALSE
    BY DEF OnlyUnnoticedStoresLeak, AcceptedNeverLeaks, Committed, MoveInv
  <2>1. phase \in {"run", "returned"} /\ UNCHANGED <<func, state>>
    BY <1>2 DEF NoFaultBefore, Next, Analyse, EmitBlock, FinishCheck, StepInst, Branch, Return, vars, engineVars, checkVars, runVars
  <2>2. StoresNoticed /\ DropsItsLocals(func)
    BY <2>1 DEF StoresNoticed, StoreNoticed, PlacesBefore, Blocks
  <2>3. <<"leak", p>> \notin fault
    BY <2>2 DEF OnlyUnnoticedStoresLeak, AcceptedNeverLeaks, Committed
  <2>4. phase = "run"
    BY <2>1, <2>3 DEF Next, Analyse, EmitBlock, FinishCheck, StepInst, Branch, Return, vars, checkVars, runVars
  <2> QED
    BY <2>2, <2>3, <2>4, LosesNothing
<1> HIDE DEF Inv
<1>4. Spec => []Inv
  BY <1>1, <1>2, <1>3, SettledAlways, MoveInvariant, PTL DEF Spec
<1> QED
  BY <1>4 DEF Inv
=============================================================================
