------------------------------ MODULE SemanticTypes ------------------------------
(***************************************************************************)
(* The types of the semantic analysis, what an inference variable stands   *)
(* for, substitution, and the three ways one type is laid over another.    *)
(* A type is a head [c, id, n] and its arguments; `bound` gives inference  *)
(* variables their types, Unbound where none is known yet.  An operator    *)
(* that may fail returns the set of its one result, or the empty set.      *)
(***************************************************************************)
EXTENDS Integers, SequencesExt, StrictFold

Type(c, id, n, args) == [c |-> c, id |-> id, n |-> n, args |-> args]
Prim(id) == Type("prim", id, 0, <<>>)
Nominal(id, args) == Type("nominal", id, 0, args)
Param(id) == Type("param", id, 0, <<>>)
Infer(n) == Type("infer", "", n, <<>>)
Ref(rw, of) == Type("ref", "", rw, <<of>>)          \* rw is 1 for &rw, 0 for &
Ptr(rw, of) == Type("ptr", "", rw, <<of>>)
Tup(args) == Type("tuple", "", 0, args)
ArrayOf(of, n) == Type("array", "", n, <<of>>)
SliceOf(of) == Type("slice", "", 0, <<of>>)
FnType(params, ret) == Type("fn", "", 0, Append(params, ret))
ClosureType(n, params, ret) == Type("closure", "", n, Append(params, ret))
Proj(trait, of) == Type("proj", trait, 0, <<of>>)    \* <of as trait>::Item
Dyn(trait) == Type("dyn", trait, 0, <<>>)
Void == Type("void", "", 0, <<>>)
Never == Type("never", "", 0, <<>>)
Broken == Type("error", "", 0, <<>>)
Unbound == Type("unbound", "", 0, <<>>)
I32 == Prim("i32")
Bool == Prim("bool")

Params(fn) == Front(fn.args)
Returns(fn) == Last(fn.args)
Applied(op(_), seq) == FoldLeft(LAMBDA acc, x : Append(acc, op(x)), <<>>, seq)

RECURSIVE Walk(_, _)
Walk(bound, t) == IF t.c = "infer" /\ t.n \in DOMAIN bound /\ bound[t.n] # Unbound THEN Walk(bound, bound[t.n]) ELSE t

RECURSIVE PartsOf(_, _)
PartsOf(bound, t) == UNION {{w} \cup UNION {PartsOf(bound, w.args[i]) : i \in DOMAIN w.args} : w \in {Walk(bound, t)}}

Occurs(bound, n, t) == Infer(n) \in PartsOf(bound, t)
Monomorphic(bound, t) == \A part \in PartsOf(bound, t) : part.c \notin {"infer", "param", "error", "proj"}
Unsized(t) == t.c \in {"dyn", "slice"}

Assign(s, key, value) == [x \in DOMAIN s \cup {key} |-> IF x = key THEN value ELSE s[x]]
NoSubst == <<>>
Pairing(keys, values) == [k \in {keys[i] : i \in DOMAIN keys \cap DOMAIN values} |-> values[CHOOSE i \in DOMAIN keys : keys[i] = k]]

\* TypeContext::subst: a parameter bound to another type is substituted again in what it is bound to.
RECURSIVE Subst(_, _, _)
Subst(bound, s, t) ==
  TheOnly({ IF w.c = "param"
              THEN IF w.id \in DOMAIN s /\ s[w.id] # w THEN Subst(bound, s, s[w.id]) ELSE w
              ELSE [w EXCEPT !.args = Applied(LAMBDA a : Subst(bound, s, a), w.args)]
            : w \in {Walk(bound, t)} })
Ground == <<>>
Instantiate(s, t) == Subst(Ground, s, t)

Peeled(t) == IF t.c \in {"ref", "ptr"} THEN t.args[1] ELSE t
\* The key an implementation is filed under: the head of its type.
HeadOf(t) == IF t.c \in {"nominal", "prim"} THEN {t.id} ELSE {}

\* Types that coherence and the matching of implementations take apart; references are compared without their mutability.
Comparable == {"nominal", "tuple", "ref", "ptr", "slice", "prim", "void", "never", "param"}
SameShape(a, b) ==
  /\ a.c = b.c /\ a.c \in Comparable /\ a.id = b.id /\ Len(a.args) = Len(b.args)
  /\ a.c = "ptr" => a.n = b.n

RECURSIVE Deref(_, _)
Deref(s, t) == IF t.c = "param" /\ t.id \in DOMAIN s THEN Deref(s, s[t.id]) ELSE t

\* Mutant: a parameter may be bound to a type it occurs in.
OccursNowhere(s, id, t) == FALSE

RECURSIVE OccursInPattern(_, _, _)
OccursInPattern(s, id, t) ==
  LET d == Deref(s, t) IN d = Param(id) \/ (d.c \in Comparable /\ \E i \in DOMAIN d.args : OccursInPattern(s, id, d.args[i]))

\* can_unify_patterns: the parameters of both implementations stand for any type.
RECURSIVE Overlap(_, _, _)
Overlap(s, t1, t2) ==
  LET a == Deref(s, t1)
      b == Deref(s, t2)
      Binding(id, t) == IF t # Param(id) /\ OccursInPattern(s, id, t) THEN {} ELSE {Assign(s, id, t)}
  IN IF a = b /\ a.c = "param" THEN {s}
     ELSE IF a.c = "param" THEN Binding(a.id, b)
     ELSE IF b.c = "param" THEN Binding(b.id, a)
     ELSE IF ~ SameShape(a, b) THEN {}
     ELSE FoldStrictly(LAMBDA acc, i : UNION {Overlap(x, a.args[i], b.args[i]) : x \in acc}, {s},
                       [i \in DOMAIN a.args |-> i])
TypesOverlap(a, b) == Overlap(NoSubst, a, b) # {}

\* matches_impl_pattern: only the parameters of the pattern stand for a type, each for one.
RECURSIVE Matching(_, _, _, _)
Matching(bound, s, pattern, t) ==
  LET w == Walk(bound, t)
  IN IF pattern.c = "param"
       THEN IF pattern.id \notin DOMAIN s THEN {Assign(s, pattern.id, w)}
            ELSE IF Walk(bound, s[pattern.id]) = w THEN {s} ELSE {}
     ELSE IF ~ SameShape(pattern, w) THEN {}
     ELSE FoldStrictly(LAMBDA acc, i : UNION {Matching(bound, x, pattern.args[i], w.args[i]) : x \in acc}, {s},
                       [i \in DOMAIN pattern.args |-> i])

\* match_types: a parameter met twice stands for the last; a mismatch is passed over.
RECURSIVE MatchTypes(_, _, _, _)
MatchTypes(bound, s, pattern, t) ==
  LET p == Walk(bound, pattern)
      w == Walk(bound, t)
  IN IF p.c = "param" THEN Assign(s, p.id, w)
     ELSE IF p.c # w.c \/ p.id # w.id \/ p.c \notin {"nominal", "tuple", "ref", "ptr"} THEN s
     ELSE FoldStrictly(LAMBDA acc, i : MatchTypes(bound, acc, p.args[i], w.args[i]), s,
                       [i \in DOMAIN p.args \cap DOMAIN w.args |-> i])

\* bind_matching_generics: the same on types as they are written, with a reference on either side taken away.
RECURSIVE BindGenerics(_, _, _)
BindGenerics(s, e, a) ==
  IF e.c = "param" THEN Assign(s, e.id, a)
  ELSE IF e.c = a.c /\ e.c \in {"ptr", "ref"} /\ e.n = a.n THEN BindGenerics(s, e.args[1], a.args[1])
  ELSE IF e.c = "ref" THEN BindGenerics(s, e.args[1], a)
  ELSE IF a.c = "ref" THEN BindGenerics(s, e, a.args[1])
  ELSE IF e.c # "nominal" \/ a.c # "nominal" \/ e.id # a.id THEN s
  ELSE FoldStrictly(LAMBDA acc, i : BindGenerics(acc, e.args[i], a.args[i]), s, [i \in DOMAIN e.args \cap DOMAIN a.args |-> i])

\* try_coerce: the conversions an argument, an initialiser, an assignment or a return may need; a conversion
\* to a trait object names the trait and the type it is made of.
Coercions(bound, implemented, from, to) ==
  LET f == Walk(bound, from)
      t == Walk(bound, to)
      fIn == Walk(bound, f.args[1])
      tIn == Walk(bound, t.args[1])
      ToDyn(concrete, trait) == {<<trait, concrete.id>>} \cap (IF concrete.c = "nominal" THEN implemented ELSE {})
      shared == f.c = "ref" /\ f.args = t.args /\ f.n = 1 /\ t.n = 0
      toSlice == fIn.c = "array" /\ tIn.c = "slice" /\ Walk(bound, fIn.args[1]) = Walk(bound, tIn.args[1])
  IN CASE t.c = "dyn" -> ToDyn(f, t.id)
       [] f.c \in {"ref", "ptr"} /\ t.c = f.c /\ (t.n = 1 => f.n = 1) ->
            IF shared \/ toSlice THEN {<<"", "">>} ELSE IF tIn.c = "dyn" THEN ToDyn(fIn, tIn.id) ELSE {}
       [] OTHER -> {}
=============================================================================
