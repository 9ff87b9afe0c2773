------------------------------ MODULE TypeInference ------------------------------
(***************************************************************************)
(* The type checker on one program: implementations are registered under   *)
(* locality and coherence, then each function is checked in the order of   *)
(* the source.  The checker is a record: what inference variables, symbols *)
(* and expressions stand for, the substitution and the method each call    *)
(* was given, the associated types still to be found equal, and the kinds  *)
(* of errors reported.  An operator on the checker returns it with the     *)
(* type it found in `out`, and in `ok` whether a unification succeeded.    *)
(***************************************************************************)
EXTENDS SemanticTypes, FiniteSets, TLC

VARIABLES
  program,  \* what is declared, which stays as it is
  impls,    \* the implementations this program has, in order
  ck        \* the checker; ck.accepted are the implementations that passed locality and coherence, in order

Decls == program.decls                   \* [types -> [gen, parts, enum]]: their parameters and the types of their fields or payloads
Traits == program.traits                 \* [traits -> [methods, item]]
TraitVars == program.traitVars           \* how many inference variables the signatures of the traits use
ForeignTraits == program.foreignTraits   \* the traits another module declares; every declared type is of this module
Impls == program.impls                   \* all implementations, in the order of the source
Fns == program.fns                       \* [functions and methods -> [gen, params, ret, body]]
Bounds == program.bounds                 \* [type parameters -> the traits they are bound by]
ItemBounds == program.itemBounds         \* [type parameters -> the associated types they are required to have]
Symbols == program.symbols               \* the type parameters in the order they are declared, each with how it is written

BoundsOf(g) == IF g \in DOMAIN Bounds THEN Bounds[g] ELSE <<>>
ItemBoundsOf(g) == IF g \in DOMAIN ItemBounds THEN ItemBounds[g] ELSE <<>>
SignatureOf(f) == FnType([i \in DOMAIN Fns[f].params |-> Fns[f].params[i][2]], Fns[f].ret)
MethodOf(i, m) == Impls[i].methods[m]
HasMethod(i, m) == m \in DOMAIN Impls[i].methods
KeyOf(i) == {<<Impls[i].trait, head>> : head \in HeadOf(Impls[i].self)}
\* trait_impls: resolution files every implementation, whatever becomes of it later.
Filed(key) == SelectSeq(impls, LAMBDA i : key \in KeyOf(i))
Implemented == UNION {KeyOf(impls[n]) : n \in DOMAIN impls}
LastOf(seq, Test(_)) == LET hits == SelectSeq(seq, Test) IN IF hits = <<>> THEN {} ELSE {Last(hits)}

Fail(c, error) == [c EXCEPT !.errs = @ \cup {error}]
FailIf(test, c, error) == IF test THEN Fail(c, error) ELSE c
Yield(c, t) == [c EXCEPT !.out = t]
Seen(c, node) == c.et[node.id]

\* As many new inference variables as there are parameters, and what they are substituted for.
Fresh(c, gen) == [c EXCEPT !.bound = @ \o [i \in DOMAIN gen |-> Unbound]]
FreshArgs(c, gen) == [i \in DOMAIN gen |-> Infer(Len(c.bound) + i)]

------------------------------------------------------------------------------
\* normalize_type and normalize_projection.
RECURSIVE Normal(_, _)
Projected(c, trait, of) ==
  LET hits == UNION {{<<i, s>> : s \in Matching(c.bound, NoSubst, Impls[i].self, of)} :
                     i \in {j \in Range(c.accepted) : Impls[j].trait = trait}}
      filed == Filed(<<trait, of.id>>)
      within == [c EXCEPT !.stack = @ \cup {<<trait, of>>}]
      Found(item, s) == IF item = Void THEN Broken ELSE Normal(within, Subst(c.bound, s, item))
  IN IF <<trait, of>> \in c.stack \/ Cardinality(hits) > 1 THEN Broken
     ELSE IF hits # {} THEN LET hit == TheOnly(hits) IN Found(c.items[hit[1]], hit[2])
     ELSE IF Len(filed) # 1 \/ filed[1] \notin Range(c.accepted) THEN Broken
     ELSE Found(c.items[filed[1]], MatchTypes(c.bound, NoSubst, Impls[filed[1]].self, of))

RECURSIVE Projection(_, _, _)
Projection(c, trait, self) ==
  LET of == Walk(c.bound, self)
      same == SelectSeq(c.obl, LAMBDA o : o[1] = Proj(trait, of))
  IN CASE of.c \in {"infer", "param"} -> IF same = <<>> THEN Proj(trait, of) ELSE Head(same)[2]
       [] of.c \in {"ref", "ptr"} -> Projection(c, trait, of.args[1])
       [] of.c = "nominal" -> Projected(c, trait, of)
       [] OTHER -> Broken

Normal(c, t) ==
  TheOnly({ CASE w.c = "proj" -> TheOnly({Projection(c, w.id, self) : self \in {Normal(c, w.args[1])}})
              [] w.c = "closure" \/ w.args = <<>> -> w
              [] OTHER -> [w EXCEPT !.args = Applied(LAMBDA a : Normal(c, a), w.args)]
            : w \in {Walk(c.bound, t)} })

BrokenIn(c, t) == Broken \in PartsOf(c.bound, t)
\* A projection that cannot be found is reported where it is looked for.
Normalised(c, t) ==
  TheOnly({FailIf(BrokenIn(c, w) /\ ~ BrokenIn(c, t), Yield(c, w), "projection") : w \in {Normal(c, t)}})

Bind(c, n, t) ==
  IF Occurs(c.bound, n, t) THEN [c EXCEPT !.ok = FALSE] ELSE [c EXCEPT !.bound[n] = t, !.ok = TRUE]

RECURSIVE Unify(_, _, _)
UnifyNormal(c, x, y) ==
  LET Both(h) == x.c = h /\ y.c = h
      SameHead ==
        \/ x.c \in {"ref", "ptr"} /\ y.c \in {"ref", "ptr"} /\ x.n = y.n
        \/ x.c = y.c /\ x.c \notin {"ref", "ptr"} /\ x.id = y.id /\ (x.n = y.n \/ x.c = "closure") /\ Len(x.args) = Len(y.args)
      Postponed(p, t) == [c EXCEPT !.obl = Append(@, <<p, t>>), !.ok = TRUE]
  IN CASE x = y \/ x = Broken \/ y = Broken -> [c EXCEPT !.ok = TRUE]
       [] x.c = "infer" -> Bind(c, x.n, y)
       [] x.c # "infer" /\ y.c = "infer" -> Bind(c, y.n, x)
       [] x # y /\ x.c = "proj" /\ y.c # "infer" -> Postponed(x, y)
       [] x.c \notin {"infer", "proj"} /\ y.c = "proj" -> Postponed(y, x)
       [] OTHER ->
            IF y = Never \/ x.c = "param" \/ y.c = "param" \/ {x, y} = {Void, Tup(<<>>)} THEN [c EXCEPT !.ok = TRUE]
            ELSE IF ~ SameHead THEN [c EXCEPT !.ok = FALSE]
            ELSE FoldStrictly(LAMBDA d, i : IF d.ok THEN Unify(d, x.args[i], y.args[i]) ELSE d, [c EXCEPT !.ok = TRUE],
                              [i \in DOMAIN x.args |-> i])
Unify(c, expected, actual) ==
  TheOnly({UnifyNormal(d, d.out.args[1], d.out.args[2]) : d \in {Normalised(c, Tup(<<expected, actual>>))}})

Must(c, expected, actual, error) == TheOnly({FailIf(~ d.ok, d, error) : d \in {Unify(c, expected, actual)}})
\* What an argument, an initialiser, an assigned or a returned value has to be.
Given(c, actual, expected) ==
  TheOnly({ IF made # {} THEN [c EXCEPT !.dyns = @ \cup (made \ {<<"", "">>})] ELSE Must(c, expected, actual, "mismatch") :
            made \in {Coercions(c.bound, Implemented, actual, expected)} })

\* A type substituted for itself in a larger type, or two for each other, is substituted without end.
Deeper(c, s, ids) ==
  {p.id : p \in {q \in UNION {PartsOf(c.bound, s[g]) : g \in {h \in ids \cap DOMAIN s : s[h] # Param(h)}} : q.c = "param"}}
Diverges(c, s, t) ==
  LET start == {p.id : p \in {q \in PartsOf(c.bound, t) : q.c = "param"}}
  IN FoldLeft(LAMBDA ids, i : Deeper(c, s, ids), start, [i \in 0..Cardinality(DOMAIN s) |-> i]) # {}

\* check_bounds_for_call: only the head of a type decides; a parameter or a variable is let through.
CheckBound(c, s, g) ==
  LET t == Walk(c.bound, s[g])
      heads == HeadOf(Peeled(t))
      missing == \E i \in DOMAIN BoundsOf(g), head \in heads : <<BoundsOf(g)[i], head>> \notin Implemented
      Item(d, b) == TheOnly({Must(e, b.is, e.out, "bound") : e \in {Normalised(d, Proj(b.trait, t))}})
  IN IF g \notin DOMAIN s \/ heads = {} THEN c
     ELSE FoldStrictly(Item, FailIf(missing, c, "bound"), ItemBoundsOf(g))
\* Mutant: the arguments of a call are taken whatever bounds its parameters have.
CheckNoBounds(c, gen, s) == c
CheckBounds(c, gen, s) == FoldStrictly(LAMBDA d, g : CheckBound(d, s, g), c, gen)

Resolved(c, s) == [g \in DOMAIN s |-> Subst(c.bound, NoSubst, s[g])]
FieldTypes(t) == Applied(LAMBDA part : Instantiate(Pairing(Decls[t.id].gen, t.args), part), Decls[t.id].parts)
IsStruct(t) == t.c = "nominal" /\ ~ Decls[t.id].enum
IsEnum(t) == t.c = "nominal" /\ Decls[t.id].enum

------------------------------------------------------------------------------
\* Patterns: the fields of a struct pattern have the types they are declared with.
RECURSIVE Pattern(_, _, _)
Patterns(c, pats, types) ==
  FoldStrictly(LAMBDA d, i : Pattern(d, pats[i], types[i]), c, [i \in DOMAIN pats \cap DOMAIN types |-> i])
VariantPattern(c, p, t) ==
  LET decl == Decls[p.sym]
      Payload(d) == LET w == Walk(d.bound, t) IN IF IsEnum(w) THEN <<Walk(d.bound, FieldTypes(w)[p.n])>> ELSE <<>>
      Fields(d) == IF p.args = <<>> \/ Payload(d) = <<>> THEN <<>>
                   ELSE IF Len(p.args) > 1 /\ Payload(d)[1].c = "tuple" THEN Payload(d)[1].args ELSE Payload(d)
  IN TheOnly({ IF Len(Fields(d)) # Len(p.args) THEN Fail(d, "pattern") ELSE Patterns(d, p.args, Fields(d)) :
               d \in {Must(Fresh(c, decl.gen), Nominal(p.sym, FreshArgs(c, decl.gen)), t, "pattern")} })
Pattern(c, p, t) ==
  TheOnly({ CASE p.k = "pbind" -> [d EXCEPT !.st = Assign(@, p.sym, t)]
              [] p.k = "ptuple" /\ t.c = "tuple" -> Patterns(FailIf(Len(p.args) # Len(t.args), d, "pattern"), p.args, t.args)
              [] p.k = "pstruct" /\ IsStruct(t) ->
                   IF Len(p.args) < Len(Decls[t.id].parts) THEN Fail(d, "pattern")
                   ELSE Patterns(FailIf(Len(p.args) > Len(Decls[t.id].parts), d, "pattern"), p.args, Decls[t.id].parts)
              [] p.k = "pvariant" -> VariantPattern(d, p, t)
              [] OTHER -> d
            : d \in {[c EXCEPT !.et[p.id] = t]} })
=============================================================================
