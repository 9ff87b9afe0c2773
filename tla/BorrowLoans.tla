------------------------------- MODULE BorrowLoans -------------------------------
(***************************************************************************)
(* The loans of the borrow analysis and how instructions move them         *)
(* (crates/luna-borrowck/src/borrow_analysis.rs).                          *)
(*                                                                         *)
(* direct[v] are the loans value v is a reference to, carried[v] those     *)
(* reachable through it; escaped are the loans a callee kept; aliases[v]   *)
(* is the operand v stands for.  A loan names the instruction that issued  *)
(* it, the place and whether it is exclusive.                              *)
(*                                                                         *)
(* Instructions: alloca, fieldptr, load, store, borrow, drop and call;     *)
(* `ty` is the type of the defined value, "ref" for &T, "rw" for &rw T,    *)
(* "data" for everything else.  A call has the effect of the callee's      *)
(* summary on each argument and names those its result borrows from.       *)
(* Closures, trait objects, slices, enum payloads, pointer arithmetic,     *)
(* futures, calls without a summary and the field provenance of declared   *)
(* type contracts are left out.                                            *)
(***************************************************************************)
EXTENDS ControlFlow, FiniteSets, StrictFold

Reference == {"ref", "rw"}

BorrowDefaultState == [direct |-> <<>>, carried |-> <<>>, escaped |-> {}, aliases |-> <<>>]

LoansAt(map, v) == IF v \in DOMAIN map THEN map[v] ELSE {}
AddLoans(map, v, loans) ==
  IF loans = {} THEN map
  ELSE [k \in DOMAIN map \cup {v} |-> LoansAt(map, k) \cup IF k = v THEN loans ELSE {}]
SetLoans(map, v, loans) ==
  [k \in (DOMAIN map \ {v}) \cup (IF loans = {} THEN {} ELSE {v}) |-> IF k = v THEN loans ELSE map[k]]
Provenance(s, v) == LoansAt(s.direct, v) \cup LoansAt(s.carried, v)

IsParam(v) == v[1] = 0 /\ v # NoValue
IsAlloca(f, v) == v[1] > 0 /\ InstOf(f, v).op = "alloca"
TypeOf(f, v) == IF v = NoValue THEN "data" ELSE IF IsParam(v) THEN f.params[v[2]] ELSE InstOf(f, v).ty

\* The aliases of an operand, and the last of them.
Operands(aliases) == DOMAIN aliases \cup {aliases[k] : k \in DOMAIN aliases}
AliasChain(aliases, v) ==
  LET chain[w \in Operands(aliases) \cup {v}] ==
        {w} \cup IF w \in DOMAIN aliases THEN chain[aliases[w]] ELSE {}
  IN  chain[v]
Resolve(aliases, v) ==
  LET end[w \in Operands(aliases) \cup {v}] == IF w \in DOMAIN aliases THEN end[aliases[w]] ELSE w
  IN  end[v]

\* A Load from an alloca or a field of one reads local storage, any other dereferences a pointer.
LocalStorage(f, v) ==
  /\ v # NoValue /\ ~IsParam(v)
  /\ \/ IsAlloca(f, v)
     \/ InstOf(f, v).op = "fieldptr" /\ IsAlloca(f, InstOf(f, v).base)

\* The root of a place and the path from it.
PlaceDesc(f, aliases, v) ==
  LET Extend(p, step) == [p EXCEPT !.path = Append(@, step)]
      desc[w \in ValuesIn(f, BlocksOf(f)) \cup {v}] ==
        IF w = NoValue \/ IsParam(w) THEN [root |-> w, path |-> <<>>]
        ELSE LET inst == InstOf(f, w)
             IN  CASE inst.op = "fieldptr" -> Extend(desc[inst.base], inst.field)
                   [] inst.op = "load" -> IF LocalStorage(f, inst.base) THEN desc[inst.base]
                                          ELSE Extend(desc[inst.base], 0)
                   [] OTHER -> [root |-> w, path |-> <<>>]
  IN  [desc[v] EXCEPT !.root = Resolve(aliases, @)]

\* Places conflict unless their roots differ or their paths part at two different fields.
Overlap(f, aliases, v, w) ==
  LET p == PlaceDesc(f, aliases, v)
      q == PlaceDesc(f, aliases, w)
      common == DOMAIN p.path \cap DOMAIN q.path
      Parted(i) == p.path[i] # q.path[i] /\ 0 \notin {p.path[i], q.path[i]}
      Blurred(i) == 0 \in {p.path[i], q.path[i]}
  IN  /\ p.root = q.root
      /\ \A i \in common : Parted(i) => \E j \in common : j < i /\ Blurred(j)

\* The loans of the given values, and of the places those loans are on, and so on.
LoansReached(f, s, values) ==
  LET step(S) == S \cup {Resolve(s.aliases, loan.place) : loan \in UNION {Provenance(s, v) : v \in S}}
      closure[n \in 0 .. Len(f.code) + 2] == IF n = 0 THEN values ELSE step(closure[n - 1])
  IN  UNION {Provenance(s, v) : v \in closure[Len(f.code) + 2]}

\* Mistake: only the loans that escaped are active.
EscapedLoans(f, s, pos) == s.escaped

\* The loans some value that is live before the instruction still depends on.
ActiveLoans(f, s, pos) == s.escaped \cup LoansReached(f, s, f.live[pos[1]][pos[2]])

IsExternalLoan(f, s, loan) ==
  LET place == Resolve(s.aliases, loan.place) IN IsParam(place) /\ TypeOf(f, place) \in Reference

-----------------------------------------------------------------------------
(***************************************************************************)
(* Access checks, as the set of the errors an instruction reports.         *)
(***************************************************************************)
AccessConflicts(f, s, pos, place, isWrite) ==
  IF place = NoValue THEN {}
  ELSE {<<"BorrowConflict", pos>> : loan \in
          {l \in ActiveLoans(f, s, pos) :
             /\ ~IsExternalLoan(f, s, l)
             /\ l \notin Provenance(s, place)
             /\ l.rw \/ isWrite
             /\ Overlap(f, s.aliases, l.place, place)}}

BorrowConflicts(f, s, pos, place, isRw) ==
  {<<"BorrowConflict", pos>> : loan \in
     {l \in ActiveLoans(f, s, pos) :
        /\ ~IsExternalLoan(f, s, l)
        /\ l.rw \/ isRw
        /\ Overlap(f, s.aliases, l.place, place)}}

InstConflicts(f, s, pos) ==
  LET inst == InstOf(f, pos)
  IN  CASE inst.op = "store" -> AccessConflicts(f, s, pos, inst.value, FALSE)
                                \cup AccessConflicts(f, s, pos, inst.base, TRUE)
        [] inst.op = "load" -> AccessConflicts(f, s, pos, inst.base, FALSE)
        [] inst.op = "drop" -> AccessConflicts(f, s, pos, inst.base, TRUE)
        [] inst.op = "borrow" -> IF TypeOf(f, inst.base) \in Reference THEN {}
                                 ELSE BorrowConflicts(f, s, pos, inst.base, inst.ty = "rw")
        [] inst.op = "call" ->
             UNION {AccessConflicts(f, s, pos, inst.args[i], FALSE)
                    \cup (IF inst.effects[i].writes
                          THEN AccessConflicts(f, s, pos, inst.args[i], TRUE) ELSE {}) :
                      i \in DOMAIN inst.args}
        [] OTHER -> {}

-----------------------------------------------------------------------------
(***************************************************************************)
(* The transfer of an instruction.                                         *)
(***************************************************************************)
\* v stands for the place `base` leads to, and has its provenance.
AliasTo(s, v, base) ==
  LET root == Resolve(s.aliases, base)
  IN  [s EXCEPT !.aliases = [k \in DOMAIN @ \cup {v} |-> IF k = v THEN root ELSE @[k]],
                !.direct  = AddLoans(@, v, LoansAt(@, root) \cup LoansAt(@, base)),
                !.carried = AddLoans(@, v, LoansAt(@, root) \cup LoansAt(@, base))]

\* A loan is issued on storage; a borrow of what a reference points to carries the reference's loans.
BorrowFrom(f, s, v, base, isRw) ==
  LET loan == [id |-> v, place |-> base, rw |-> isRw]
      root == Resolve(s.aliases, base)
      issued == IF TypeOf(f, base) \in Reference THEN {} ELSE {loan}
  IN  [s EXCEPT !.direct  = AddLoans(@, v, issued),
                !.carried = AddLoans(@, v, Provenance(s, root) \cup Provenance(s, base)),
                !.aliases = [k \in DOMAIN @ \cup {v} |-> IF k = v THEN base ELSE @[k]]]

(***************************************************************************)
(* A store to a variable replaces what it held (a strong update); a store  *)
(* to a field adds to what the variable carries; a store through a         *)
(* reference adds to what the place it stands for holds.                   *)
(***************************************************************************)
StoreTo(f, s, base, value) ==
  LET root == Resolve(s.aliases, base)
  IN  IF base[1] > 0 /\ InstOf(f, base).op = "fieldptr"
      THEN [s EXCEPT !.carried =
              AddLoans(@, root, UNION {Provenance(s, v) : v \in AliasChain(s.aliases, value) \ {NoValue}})]
      ELSE IF IsAlloca(f, base)
      THEN [s EXCEPT !.direct  = SetLoans(@, base, LoansAt(@, value)),
                     !.carried = SetLoans(@, base, LoansAt(@, value))]
      ELSE [s EXCEPT !.direct  = AddLoans(@, root, LoansAt(@, value)),
                     !.carried = AddLoans(@, root, LoansAt(@, value))]

(***************************************************************************)
(* The result of a call borrows what the named arguments are references    *)
(* to (ReturnEffect::BorrowsFrom) and, if it `carries`, what is reachable  *)
(* through them (BorrowsCarried, or a life_from contract of the callee).   *)
(* The loans of an argument that escapes never end.                        *)
(***************************************************************************)
CallWith(f, s, v, inst) ==
  LET Lent(i) == IF inst.carries THEN Provenance(s, inst.args[i]) ELSE LoansAt(s.direct, inst.args[i])
      kept    == {i \in DOMAIN inst.args : inst.effects[i].escapes}
  IN  [s EXCEPT !.direct  = AddLoans(@, v, UNION {Lent(i) : i \in inst.returns}),
                !.escaped = @ \cup UNION {Provenance(s, inst.args[i]) : i \in kept}]

TransferInst(f, s, pos) ==
  LET inst == InstOf(f, pos)
  IN  CASE inst.op = "fieldptr" -> AliasTo(s, pos, inst.base)
        [] inst.op = "load" -> IF inst.ty \in Reference THEN AliasTo(s, pos, inst.base) ELSE s
        [] inst.op = "borrow" -> BorrowFrom(f, s, pos, inst.base, inst.ty = "rw")
        [] inst.op = "store" -> StoreTo(f, s, inst.base, inst.value)
        [] inst.op = "call" -> CallWith(f, s, pos, inst)
        [] OTHER -> s

-----------------------------------------------------------------------------
(***************************************************************************)
(* Edges and merges.                                                       *)
(***************************************************************************)
\* On an edge that ends an iteration, its locals take their loans and what they hold with them.
EndLocals(s, ending) ==
  LET Outlives(loan) == Resolve(s.aliases, loan.place) \notin ending
      Kept(map) == [v \in DOMAIN map \ ending |-> {l \in map[v] : Outlives(l)}]
  IN  [direct  |-> Kept(s.direct), carried |-> Kept(s.carried),
       escaped |-> {l \in s.escaped : Outlives(l)},
       aliases |-> [v \in DOMAIN s.aliases \ ending |-> s.aliases[v]]]

\* What is dead at the target is forgotten, except for the parameters.
PruneDead(s, live) ==
  LET Pruned(map) == [v \in {w \in DOMAIN map : map[w] # {} /\ (IsParam(w) \/ w \in live)} |-> map[v]]
  IN  [s EXCEPT !.direct = Pruned(@), !.carried = Pruned(@)]

BorrowTransferEdge(f, from, to, s) ==
  LET ending == EndingLocals(f, from, to)
  IN  PruneDead(IF ending = {} THEN s ELSE EndLocals(s, ending), f.live[to][1])

Union(m, n) == [v \in DOMAIN m \cup DOMAIN n |-> LoansAt(m, v) \cup LoansAt(n, v)]

\* Mistake: a value that already has loans gets no more of them.
MergeMissing(dest, src) ==
  {[direct  |-> dest.direct @@ src.direct, carried |-> dest.carried @@ src.carried,
    escaped |-> dest.escaped \cup src.escaped, aliases |-> src.aliases @@ dest.aliases]}

BorrowMergeResults(dest, src) ==
  {[direct  |-> Union(dest.direct, src.direct),
    carried |-> Union(dest.carried, src.carried),
    escaped |-> dest.escaped \cup src.escaped,
    aliases |-> [v \in DOMAIN dest.aliases \cup DOMAIN src.aliases |->
                   IF v \in DOMAIN src.aliases THEN src.aliases[v] ELSE dest.aliases[v]]]}

\* A parameter that is a reference owns a loan of itself.
BorrowEntryState(f) ==
  LET refs == {p \in DOMAIN f.params : f.params[p] \in Reference}
  IN  [BorrowDefaultState EXCEPT !.direct =
         [v \in {<<0, p>> : p \in refs} |-> {[id |-> v, place |-> v, rw |-> f.params[v[2]] = "rw"]}]]

BorrowTransfer(f, b, s) ==
  FoldStrictly(LAMBDA t, i : TransferInst(f, t, <<b, i>>), s, [i \in DOMAIN f.code[b] |-> i])

-----------------------------------------------------------------------------
(***************************************************************************)
(* The checks of the region engine (region_bridge.rs, realization) that    *)
(* the borrow analysis consults on loop edges and on returns.              *)
(***************************************************************************)
\* Where the storage of a local is valid: from its introduction to its drop or the end, in block order.
Extent(f, v) ==
  LET all      == ValuesIn(f, BlocksOf(f))
      Before(p, q) == p[1] < q[1] \/ (p[1] = q[1] /\ p[2] < q[2])
      preamble == \A i \in 1 .. v[2] - 1 : f.code[v[1]][i].op = "alloca"
      drops    == {p \in all : Before(v, p) /\ InstOf(f, p).op = "drop" /\ InstOf(f, p).base = v}
      firsts   == {p \in drops : \A q \in drops : ~Before(q, p)}
  IN  {p \in all : /\ IF preamble THEN p[1] >= v[1] ELSE ~Before(p, v)
                   /\ \A d \in firsts : ~Before(d, p)}

\* The region of a loop iteration outlives the locals its body introduces and what lives no longer than they do.
OutlivedBy(f, loop, v) ==
  LET Inner(w) == {l \in f.loops : w[1] \in l.blocks \ {l.header}}
      Owns(w)  == \E l \in Inner(w) : /\ l.header = loop.header
                                      /\ \A m \in Inner(w) : Cardinality(l.blocks) <= Cardinality(m.blocks)
      locals   == {w \in ValuesIn(f, BlocksOf(f)) : IsAlloca(f, w)}
  IN  \/ Owns(v)
      \/ v \in locals /\ \E w \in locals : Owns(w) /\ Extent(f, v) \subseteq Extent(f, w)

\* Mistake: the edge is checked after its locals have taken their loans with them.
CrossingErrorsAfterEnd(f, s, from, to) ==
  {<<"BoundaryViolation", v>> : v \in
     {w \in f.live[to][1] : \E loan \in Provenance(BorrowTransferEdge(f, from, to, s), w) :
        \E l \in EndingLoops(f, from, to) : OutlivedBy(f, l, Resolve(s.aliases, loan.place))}}

\* A carrier that is live after a loop edge may not depend on an iteration the edge ends.
CrossingErrors(f, s, from, to) ==
  {<<"BoundaryViolation", v>> : v \in
     {w \in f.live[to][1] : \E loan \in Provenance(s, w) : \E l \in EndingLoops(f, from, to) :
                               OutlivedBy(f, l, Resolve(s.aliases, loan.place))}}

\* Mistake: one good source is enough for a returned reference.
ReturnErrorsIfAllBad(f, s, v) ==
  LET loans == Provenance(s, v) \cup Provenance(s, Resolve(s.aliases, v))
  IN  IF TypeOf(f, v) \in Reference /\ \A loan \in loans : ~IsParam(Resolve(s.aliases, loan.place))
      THEN {<<"ReturnEscape", v>>} ELSE {}

\* A returned reference may depend on reference parameters only.
ReturnErrors(f, s, v) ==
  LET root  == Resolve(s.aliases, v)
      loans == Provenance(s, v) \cup Provenance(s, root)
      bases == IF loans = {} THEN {root} ELSE {Resolve(s.aliases, l.place) : l \in loans}
  IN  IF TypeOf(f, v) \in Reference /\ \E p \in bases : ~(IsParam(p) /\ TypeOf(f, p) \in Reference)
      THEN {<<"ReturnEscape", v>>} ELSE {}
=============================================================================
