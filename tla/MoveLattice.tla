------------------------------ MODULE MoveLattice ------------------------------
(***************************************************************************)
(* The move states of the borrow checker and the operations on them        *)
(* (crates/luna-borrowck/src/move_analysis.rs, place.rs).                  *)
(*                                                                         *)
(* A place is the sequence <<local, field, field, ...>>.  A state maps the *)
(* places that have an explicit entry to their move state; every other     *)
(* place inherits the state of its longest explicit ancestor.              *)
(***************************************************************************)
EXTENDS Naturals, Sequences, FiniteSets, Functions, SequencesExt, StrictFold

CONSTANTS
  Owned,      \* [Place -> SUBSET Nat]: the fields of a struct or tuple place whose type needs drop
  DropImpl    \* the places whose type has a user Drop implementation

\* Every place but a local itself is an owned field of a place, and a type contains itself only behind a pointer.
ASSUME PlacesAssumption ==
  /\ IsFiniteSet(DOMAIN Owned)
  /\ \A p \in DOMAIN Owned :
       /\ p \in Seq(Nat) \ {<<>>}
       /\ \A n \in 1 .. Len(p) - 1 : SubSeq(p, 1, n) \in DOMAIN Owned /\ p[n + 1] \in Owned[SubSeq(p, 1, n)]

MoveState == {"Uninitialized", "Live", "Moved", "Dropped",
              "ConditionallyMoved", "PartialMoved"}

\* The states in which (part of) the value has left the place.
Gone == {"Moved", "Dropped", "Uninitialized", "ConditionallyMoved"}

\* Both relations are reflexive, as in the code.
IsAncestorOf(p, q) == IsPrefix(p, q)

ProperAncestors(p) == {SubSeq(p, 1, n) : n \in 1 .. Len(p) - 1}

\* The explicit ancestor with the most projections, or Live when there is none.
Inherited(p, places) ==
  LET anc == {k \in DOMAIN places : IsAncestorOf(k, p)}
  IN  IF anc = {} THEN "Live"
      ELSE places[CHOOSE k \in anc : \A j \in anc : Len(j) <= Len(k)]

\* Mistake: the entries below the place are not looked at.
GetPlaceStateFromAbove(p, places) == Inherited(p, places)

GetPlaceState(p, places) ==
  LET gone == \E k \in DOMAIN places : IsAncestorOf(p, k) /\ places[k] \in Gone
  IN  IF Inherited(p, places) = "Live" /\ gone
      THEN "PartialMoved"
      ELSE Inherited(p, places)

\* Replace the entries of p and of everything below p by one entry for p.
Overwrite(p, s, places) ==
  LET kept == {k \in DOMAIN places : ~IsAncestorOf(p, k)}
  IN  [k \in kept \cup {p} |-> IF k = p THEN s ELSE places[k]]

(***************************************************************************)
(* collapse_fully_moved_ancestors: an ancestor whose droppable fields are  *)
(* all gone becomes Moved itself, from the inside out.  Owned[a] is empty  *)
(* for a type with a user Drop, and the walk stops at the first ancestor   *)
(* that still owns something.                                              *)
(***************************************************************************)
\* Mistake: one moved field is taken for all of them.
ExhaustedByOne(a, p, places) == a \notin DropImpl /\ Owned[a] # {}

Exhausted(a, p, places) ==
  /\ a \notin DropImpl
  /\ Owned[a] # {}
  /\ \A f \in Owned[a] :
        \/ p[Len(a) + 1] = f
        \/ GetPlaceState(Append(a, f), places) \in {"Moved", "Dropped", "Uninitialized"}

MarkMoved(p, places) ==
  LET moved     == Overwrite(p, "Moved", places)
      collapsed == {a \in ProperAncestors(p) :
                      \A b \in ProperAncestors(p) :
                        IsAncestorOf(a, b) => Exhausted(b, p, moved)}
      top       == CHOOSE a \in collapsed \cup {p} :
                     \A b \in collapsed \cup {p} : IsAncestorOf(a, b)
  IN  Overwrite(top, "Moved", moved)

MarkDropped(p, places) ==
  IF GetPlaceState(p, places) \in {"Moved", "Uninitialized"}
  THEN places
  ELSE Overwrite(p, "Dropped", places)

\* Initialising a field of a place that is explicitly uninitialised makes the parent live too.
MarkLive(p, places) ==
  LET live   == Overwrite(p, "Live", places)
      parent == Front(p)
  IN  IF Len(p) > 1 /\ parent \in DOMAIN live /\ live[parent] = "Uninitialized"
      THEN [live EXCEPT ![parent] = "Live"]
      ELSE live

-----------------------------------------------------------------------------
(***************************************************************************)
(* Joining two paths.  The code walks the union of the keys in the order   *)
(* of a HashSet and writes each joined entry into dest before it looks at  *)
(* the next key, so a later key may read an entry written a moment ago.    *)
(***************************************************************************)
\* Mistakes: a value moved on one path only counts as live, or
\* as what the first path that is not live says, or as moved.
JoinOptimistic(d, s) == IF d = s THEN d ELSE "Live"
JoinByFirst(d, s) == IF d = "Live" THEN s ELSE d
JoinPessimistic(d, s) == IF d = s THEN d ELSE "Moved"

Join(d, s) ==
  IF d = s /\ d # "Live" THEN d
  ELSE IF {d, s} \cap {"ConditionallyMoved", "Moved", "Dropped", "Uninitialized"} # {}
       THEN "ConditionallyMoved"
       ELSE IF "PartialMoved" \in {d, s} THEN "PartialMoved" ELSE "Live"

Entry(k, places) == IF k \in DOMAIN places THEN places[k] ELSE "none"

MergeKey(k, dest, src) ==
  IF Entry(k, dest) = Entry(k, src) THEN dest
  ELSE LET joined == Join(GetPlaceState(k, dest), GetPlaceState(k, src))
       IN  [j \in DOMAIN dest \cup {k} |-> IF j = k THEN joined ELSE dest[j]]

\* The result of the walk in the order `keys`.
MergeInOrder(keys, dest, src) ==
  FoldStrictly(LAMBDA acc, k : MergeKey(k, acc, src), dest, keys)

\* Only keys that the two sides disagree on do anything.
Disputed(dest, src) ==
  {k \in DOMAIN dest \cup DOMAIN src : Entry(k, dest) # Entry(k, src)}

MergePlaces(dest, src) ==
  {MergeInOrder(keys, dest, src) : keys \in SetToSeqs(Disputed(dest, src))}
=============================================================================
