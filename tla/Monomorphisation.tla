----------------------------- MODULE Monomorphisation -----------------------------
(***************************************************************************)
(* The code that is to be made of a checked program: an instance is a      *)
(* function and the types its parameters stand for, in order.  A worklist  *)
(* starts from what is not generic; each instance taken from it has the    *)
(* types of its expressions substituted, and asks for the instances it     *)
(* calls and for the drop glue of the values it may hold.                  *)
(***************************************************************************)
EXTENDS TypeChecker

VARIABLES
  tables,   \* [functions checked -> their body and what the checker recorded for its nodes]
  mono      \* the collector: what is to be made, what was, the types that
            \* have drop glue, the errors, and the tables of the instance it visits

Patterned == {"pwild", "pbind", "pbool", "ptuple", "pstruct", "pvariant"}
Instance(f, pairs) == [fn |-> f, subst |-> pairs]
Mapping(pairs) == [g \in {pairs[i][1] : i \in DOMAIN pairs} |-> pairs[CHOOSE i \in DOMAIN pairs : pairs[i][1] = g][2]]
PairsOf(gen, s) == Applied(LAMBDA g : <<g, s[g]>>, SelectSeq(gen, LAMBDA g : g \in DOMAIN s))
\* A substitution is gone through in the order its parameters are declared.
Declared == Applied(LAMBDA symbol : symbol[1], Symbols)
InOrder(s) == PairsOf(Declared, s)

\* What a parameter stands for is often looked up by how it is written, whatever declares it.
NameOf(g) == {Symbols[n][2] : n \in {k \in DOMAIN Symbols : Symbols[k][1] = g}}
Named(pairs, g) == LET hits == {i \in DOMAIN pairs : NameOf(pairs[i][1]) = NameOf(g)} IN {i \in hits : \A j \in hits : i <= j}
\* A substitution, and for each other parameter what the first of its name stands for.
ByName(pairs, params) ==
  LET by == [g \in params |-> Named(pairs, g)]
  IN Mapping(pairs) @@ [g \in {h \in params : by[h] # {}} |-> pairs[TheOnly(by[g])][2]]

OwnersOf(f) == {i \in DOMAIN Impls : f \in Range(Impls[i].methods)}
\* What a method is ordered and remapped by: the first implementation filed under the key of its own.
FirstOf(f) == {Head(Filed(key)) : key \in UNION {KeyOf(i) : i \in OwnersOf(f)}}
Scope(owners, f) == (IF owners = {} THEN <<>> ELSE Impls[TheOnly(owners)].gen) \o (IF f \in DOMAIN Fns THEN Fns[f].gen ELSE <<>>)
\* impl_self_types: the pattern kept for a key is that of the implementation registered last.
PatternOf(key) == {Impls[i].self : i \in LastOf(ck.accepted, LAMBDA i : key \in KeyOf(i))}
Matched(key, t) == MatchTypes(ck.bound, NoSubst, TheOnly(PatternOf(key)), t)

\* What the parameters of a function stand for in an instance: by place, then by name.
SubstOf(inst) ==
  LET scope == Scope(FirstOf(inst.fn), inst.fn)
  IN Pairing(scope, Applied(LAMBDA pair : pair[2], inst.subst)) @@ ByName(inst.subst, Range(scope))
\* Pairs are added to others unless one with their name is there.
Joined(pairs, more) == FoldLeft(LAMBDA acc, pair : IF Named(acc, pair[1]) = {} THEN Append(acc, pair) ELSE acc, pairs, more)
\* order_subst_for_decl: each parameter of the function takes the first pair of its name that is left, or what it stands
\* for at the call; whatever else the call substitutes follows.
Ordered(cs, owners, f, pairs) ==
  LET Take(acc, g) ==
        LET hit == Named(acc.left, g)
        IN IF hit # {} THEN [left |-> RemoveAt(acc.left, TheOnly(hit)), taken |-> Append(acc.taken, <<g, acc.left[TheOnly(hit)][2]>>)]
           ELSE [acc EXCEPT !.taken = @ \o PairsOf(<<g>>, cs)]
      all == FoldLeft(Take, [left |-> pairs, taken |-> <<>>], Scope(owners, f))
  IN Joined(all.taken, all.left)

------------------------------------------------------------------------------
\* A projection is only found when one implementation is filed for it.
RECURSIVE Concrete(_)
ConcreteItem(trait, w) ==
  LET filed == Filed(<<trait, w.id>>)
      ToItem(s) == Concrete(Subst(ck.bound, s, ck.items[filed[1]]))
  IN CASE w.c \in {"ref", "ptr"} -> Concrete(Proj(trait, w.args[1]))
       [] w.c = "nominal" -> IF Len(filed) # 1 \/ ck.items[filed[1]] = Void THEN Broken ELSE ToItem(Matched(<<trait, w.id>>, w))
       [] OTHER -> Broken
Concrete(t) ==
  TheOnly({ CASE w.c = "proj" -> TheOnly({ConcreteItem(w.id, of) : of \in {Concrete(w.args[1])}})
              [] w.c = "closure" \/ w.args = <<>> -> w
              [] OTHER -> [w EXCEPT !.args = Applied(Concrete, w.args)]
            : w \in {Walk(ck.bound, t)} })
\* A parameter that is not of the instance, such as one in the signature of what it calls, stands for what its name does here.
Known(m, t) == ByName(InOrder(m.cs), {g \in Range(Declared) : Param(g) \in PartsOf(ck.bound, t)})
Substituted(m, t) == TheOnly({Concrete(u) : u \in {Subst(ck.bound, Known(m, t), t)}})
IsMonomorphic(t) == Monomorphic(ck.bound, t)

------------------------------------------------------------------------------
\* Drop obligations.
RECURSIVE NeedsDrop(_)
NeedsDrop(t) ==
  CASE t.c = "nominal" -> Filed(<<"Drop", t.id>>) # <<>> \/ \E i \in DOMAIN FieldTypes(t) : NeedsDrop(FieldTypes(t)[i])
    [] t.c \in {"tuple", "array"} -> \E i \in DOMAIN t.args : NeedsDrop(t.args[i])
    [] OTHER -> t.c = "dyn"

Push(m, inst) == IF inst \in DOMAIN m.done THEN m ELSE [m EXCEPT !.work = Append(@, inst)]
DropMethods(m, t) ==
  LET key == <<"Drop", t.id>>
      Queue(d, i) == LET inst == Instance(Impls[i].methods["drop"], PairsOf(Impls[Last(Filed(key))].gen, Matched(key, t)))
                     IN IF inst \in Range(d.work) THEN d ELSE Push(d, inst)
  IN FoldStrictly(Queue, m, Filed(key))
\* Mutant: what a type is made of is not looked into.
DiscoverOuter(m, ty) ==
  LET t == Walk(ck.bound, ty)
      noted == [m EXCEPT !.seen = @ \cup {t}, !.glue = IF t.c \in {"nominal", "tuple"} THEN @ \cup {t} ELSE @]
  IN IF ~ IsMonomorphic(t) \/ ~ NeedsDrop(t) \/ t \in m.seen THEN m ELSE IF t.c = "nominal" THEN DropMethods(noted, t) ELSE noted
RECURSIVE Discover(_, _)
Discover(m, ty) ==
  LET t == Walk(ck.bound, ty)
      noted == [m EXCEPT !.seen = @ \cup {t}, !.glue = IF t.c \in {"nominal", "tuple"} THEN @ \cup {t} ELSE @]
      parts == IF t.c = "nominal" THEN FieldTypes(t) ELSE IF t.c \in {"tuple", "array"} THEN t.args ELSE <<>>
  IN IF ~ IsMonomorphic(t) \/ ~ NeedsDrop(t) \/ t \in m.seen THEN m
     ELSE FoldStrictly(Discover, IF t.c = "nominal" THEN DropMethods(noted, t) ELSE noted, parts)

------------------------------------------------------------------------------
\* The instance that is visited records the types of its expressions and patterns.  Unless it is the name of a
\* function or of a variant, each has to be free of parameters, variables, errors and projections.  What was found by name
\* is remembered.
Recorded(m, e) ==
  LET ty == tables[m.fn].et[e.id]
      known == Known(m, ty)
      named == e.k \in {"var", "fn", "variant", "member"}
      Kept(t) == [m EXCEPT !.cs = known, !.types = Assign(@, e.id, t),
                           !.barred = @ \/ ~ (IsMonomorphic(t) \/ (named /\ (t.c = "fn" \/ IsEnum(t))))]
      Held(t) == IF e.k \in Patterned THEN Discover(Kept(t), t) ELSE Kept(t)
  IN IF ty = Unbound THEN m ELSE TheOnly({Held(t) : t \in {Substituted(m, ty)}})

AskFor(m, e, inst) == Push([m EXCEPT !.calls = Assign(@, e.id, inst)], inst)
SubstAt(m, e) == LET s == tables[m.fn].esub[e.id] IN [g \in DOMAIN s |-> Substituted(m, s[g])]
CallOfFunction(m, e, f) == AskFor(m, e, Instance(f, Ordered(m.cs, {}, f, InOrder(SubstAt(m, e)))))

\* A method is looked for again in the implementations filed for the type its receiver has here; the one the
\* checker found, or the declaration in the trait, stands when none is filed.
CallOfMethod(m, e) ==
  LET sym == tables[m.fn].esym[e.id]
      t == Peeled(m.types[e.args[1].id])
      own == UNION {KeyOf(i) : i \in OwnersOf(sym)}
      trait == IF sym \in DOMAIN Traits THEN sym ELSE TheOnly(own)[1]
      keys == IF trait = "" THEN own ELSE {<<trait, head>> : head \in HeadOf(t)}
      hits == IF trait = "" THEN {} ELSE UNION {Range(SelectSeq(Filed(key), LAMBDA i : HasMethod(i, e.sym))) : key \in keys}
      hit == {i \in hits : \A j \in hits : i <= j}
      f == IF hit = {} THEN sym ELSE MethodOf(TheOnly(hit), e.sym)
      matched == IF (trait # "" /\ hit = {}) \/ UNION {PatternOf(key) : key \in keys} = {} THEN NoSubst ELSE Matched(TheOnly(keys), t)
  IN IF sym = "" THEN m
     ELSE AskFor(m, e, Instance(f, Ordered(m.cs, IF hit = {} THEN FirstOf(f) ELSE hit, f, Joined(InOrder(matched), InOrder(SubstAt(m, e))))))

Visited(m, e) ==
  CASE e.k = "call" -> Discover(IF e.args[1].k = "fn" THEN CallOfFunction(m, e, e.args[1].sym) ELSE m, m.types[e.id])
    [] e.k = "method" -> Discover(CallOfMethod(m, e), m.types[e.id])
    [] e.k \in {"init", "tuple"} -> Discover(m, m.types[e.id])
    [] e.k = "fn" -> IF tables[m.fn].esub[e.id] # NoSubst THEN CallOfFunction(m, e, e.sym) ELSE m
    [] e.k = "let" /\ e.sym # "" -> Discover(m, Substituted(m, ck.st[e.sym]))
    [] OTHER -> m
RECURSIVE Visit(_, _)
Visit(m, e) == TheOnly({Visited(d, e) : d \in {FoldStrictly(Visit, Recorded(m, e), e.args)}})

\* An instance whose types are not all concrete is reported and not made.
Made(m, inst) ==
  IF m.barred THEN [m EXCEPT !.errs = @ \cup {"barrier"}]
  ELSE [m EXCEPT !.done = Assign(@, inst, [types |-> m.types, calls |-> m.calls])]
Process(m, inst) ==
  LET start == [m EXCEPT !.fn = inst.fn, !.cs = SubstOf(inst), !.types = NoSubst, !.calls = NoSubst, !.barred = FALSE]
      Taking(d, p) == TheOnly({Discover([d EXCEPT !.barred = @ \/ ~ IsMonomorphic(t)], t) : t \in {Substituted(d, p[2])}})
      Bodied(d) == Visit(FoldStrictly(Taking, d, Fns[inst.fn].params), tables[inst.fn].body)
  IN TheOnly({Made(d, inst) : d \in {IF inst.fn \in DOMAIN Fns THEN Bodied(start) ELSE start}})

\* collect_function_roots, and the methods a trait object may be asked for.
Roots(order, dyns) ==
  LET Generic(f) == Fns[f].gen # <<>> \/ \E i \in OwnersOf(f) : Impls[i].gen # <<>>
      Methods(key) == UNION {Range(Impls[i].methods) : i \in Range(Filed(key))}
      asked == UNION {{f \in Methods(d) : ~ Generic(f)} \cup Methods(<<"Drop", d[2]>>) : d \in dyns}
  IN Applied(LAMBDA f : Instance(f, <<>>), SelectSeq(order, LAMBDA f : ~ Generic(f)) \o SetToSeq(asked))
=============================================================================
