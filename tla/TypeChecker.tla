------------------------------- MODULE TypeChecker -------------------------------
(***************************************************************************)
(* The type of every expression and the statements around it, as the       *)
(* checker walks them: what a call asks of its arguments, which method a   *)
(* name stands for, and what it records for the code that is made later.   *)
(***************************************************************************)
EXTENDS TypeInference

Comparisons == {"eq", "ne", "lt", "le", "gt", "ge", "and", "or"}
Places == {"var", "member", "at", "index", "deref"}

RECURSIVE Check(_, _)
CheckAll(c, nodes) == FoldStrictly(Check, c, nodes)
TypesOf(c, nodes) == [i \in DOMAIN nodes |-> Seen(c, nodes[i])]

\* Each argument is checked, then held against its parameter under what the call substitutes; an argument too
\* many is not, and one too few is not missed.
Arguments(c, args, params, s) ==
  LET One(d, i) == IF i \notin DOMAIN params THEN d
                   ELSE IF Diverges(d, s, params[i]) THEN Fail(d, "overflow")
                   ELSE Given(d, d.out, Subst(d.bound, s, params[i]))
  IN FoldStrictly(LAMBDA d, i : TheOnly({One(e, i) : e \in {Check(d, args[i])}}), c, [i \in DOMAIN args |-> i])

\* A variant or an enum by itself: of type arguments that are still to be found, or the ones written.
EnumName(c, e) ==
  LET gen == Decls[e.sym].gen
  IN IF e.tys # <<>> THEN Yield(c, Nominal(e.sym, e.tys)) ELSE Yield(Fresh(c, gen), Nominal(e.sym, FreshArgs(c, gen)))
FunctionName(c, e) ==
  LET s == Pairing(Fns[e.sym].gen, e.tys)
      sig == SignatureOf(e.sym)
  IN IF e.tys = <<>> THEN Yield(c, sig) ELSE Yield([c EXCEPT !.esub[e.id] = s], Instantiate(s, sig))

\* A call of a function by name.  What it substitutes for the parameters is kept with it.
Finish(c, e, gen, s, ret) ==
  IF s = NoSubst THEN Yield(c, ret)
  ELSE TheOnly({ LET rs == Resolved(d, s) IN Yield([d EXCEPT !.esub[e.id] = rs], Subst(d.bound, rs, ret))
                 : d \in {CheckBounds(c, gen, s)} })
CallByName(c, e, f, sig) ==
  LET gen == Fns[f].gen
      written == IF e.tys # <<>> THEN e.tys ELSE e.args[1].tys
      s == Pairing(gen, IF written # <<>> THEN written ELSE FreshArgs(c, gen))
      start == IF written # <<>> THEN c ELSE Fresh(c, gen)
  IN TheOnly({Finish(d, e, gen, s, Returns(sig)) : d \in {Arguments(start, Tail(e.args), Params(sig), s)}})
CallOfVariant(c, e, enum, n) ==
  LET gen == Decls[enum].gen
      s == Pairing(gen, FreshArgs(c, gen))
      payload == Instantiate(s, Decls[enum].parts[n])
      params == IF payload.c = "tuple" THEN payload.args ELSE <<payload>>
      args == IF payload = Void THEN <<>> ELSE IF payload.c = "tuple" THEN Tail(e.args) ELSE <<e.args[2]>>
  IN TheOnly({Finish(d, e, gen, s, Nominal(enum, FreshArgs(c, gen))) : d \in {Arguments(Fresh(c, gen), args, params, NoSubst)}})
CallTo(c, e) ==
  LET callee == e.args[1]
      One(d) == CASE callee.k = "fn" /\ d.out.c = "fn" -> CallByName(d, e, callee.sym, d.out)
                  [] callee.k = "variant" -> CallOfVariant(d, e, callee.sym, callee.n)
                  [] callee.k \notin {"fn", "variant"} /\ d.out.c = "fn" ->
                       LET sig == d.out IN TheOnly({Yield(x, Returns(sig)) : x \in {Arguments(d, Tail(e.args), Params(sig), NoSubst)}})
                  [] OTHER -> TheOnly({Yield(Fresh(x, <<1>>), FreshArgs(x, <<1>>)[1]) : x \in {CheckAll(d, Tail(e.args))}})
  IN TheOnly({One(d) : d \in {Check(c, callee)}})

------------------------------------------------------------------------------
\* Methods.
SharedReceiver(o) == o.c \in {"ref", "ptr"} /\ o.n = 0
NeedsRw(t) == t.c = "ref" /\ t.n = 1
\* The receiver is unified with its parameter, and nothing said when it is something else.
Receiver(c, param, o) ==
  LET d == FailIf(NeedsRw(param) /\ SharedReceiver(o), c, "rw") IN [Unify(d, param, o) EXCEPT !.ok = TRUE]

DynMethod(c, e, sig) ==
  LET args == Tail(e.args)
      params == IF Len(Params(sig)) = Len(args) + 1 THEN Tail(Params(sig)) ELSE Params(sig)
      start == FailIf(e.sym = "drop", FailIf(NeedsRw(Params(sig)[1]) /\ SharedReceiver(c.out), c, "rw"), "drop")
  IN TheOnly({Yield(d, Returns(sig)) : d \in {Arguments(start, args, params, NoSubst)}})

\* A method of a bound: its types are the trait's own, the variables that stand for Self among them.
BoundMethod(c, e, sig) ==
  LET args == Tail(e.args)
      received == Len(Params(sig)) = Len(args) + 1
      s == IF received THEN BindGenerics(NoSubst, Params(sig)[1], c.out) ELSE NoSubst
      start == IF received THEN Receiver(c, Subst(c.bound, s, Params(sig)[1]), c.out) ELSE c
      params == IF received THEN Tail(Params(sig)) ELSE Params(sig)
  IN TheOnly({Yield(d, Walk(d.bound, Subst(d.bound, s, Returns(sig)))) : d \in {Arguments(start, args, params, s)}})

\* The parameters a key's methods are called with: those of its implementation registered last.
GenericsOf(c, key) ==
  LET Takes(i) == key \in KeyOf(i) /\ (key[1] # "" \/ Impls[i].gen # <<>>)
  IN UNION {{Impls[i].gen} : i \in LastOf(c.accepted, Takes)}
\* A method of an implementation: the parameters are paired with the arguments of the receiver's type by place.
ImplMethod(c, e, key, i) ==
  LET f == MethodOf(i, e.sym)
      sig == SignatureOf(f)
      o == c.out
      p == Peeled(o)
      args == Tail(e.args)
      gen == IF GenericsOf(c, key) = {} THEN Impls[i].gen ELSE TheOnly(GenericsOf(c, key))
      lacking == SubSeq(gen, Len(p.args) + 1, Len(gen))
      own == IF p.c = "nominal" THEN Decls[p.id].gen ELSE <<>>
      missing == lacking \o SubSeq(Fns[f].gen, Len(e.tys) + 1, Len(Fns[f].gen))
      s1 == Pairing(own \o gen \o Fns[f].gen,
                    p.args \o SubSeq(p.args, 1, Len(gen)) \o SubSeq(FreshArgs(c, missing), 1, Len(lacking))
                      \o e.tys \o SubSeq(FreshArgs(c, missing), Len(lacking) + 1, Len(missing)))
      received == Len(Params(sig)) = Len(args) + 1
      s == IF received THEN BindGenerics(s1, Params(sig)[1], o) ELSE s1
      start == FailIf(e.tys # <<>> /\ Len(e.tys) # Len(Fns[f].gen), FailIf(e.sym = "drop", Fresh(c, missing), "drop"), "generics")
      ready == IF received THEN Receiver(start, Subst(start.bound, s, Params(sig)[1]), o) ELSE start
      params == IF received THEN Tail(Params(sig)) ELSE Params(sig)
  IN TheOnly({ [x EXCEPT !.esym[e.id] = f, !.out = Subst(x.bound, NoSubst, x.out)] :
               x \in {Finish(d, e, Fns[f].gen, s, Returns(sig)) : d \in {Arguments(ready, args, params, s)}} })

\* The method a name stands for: a trait object's, a bound's, or that of the first implementation of the type's
\* head that has one, whatever it is for.  Of several traits with the name a hash map's order takes one: no program here has them.
MethodCall(c, e) ==
  LET o == c.out
      p == Peeled(o)
      bounds == IF p.c = "param" THEN SelectSeq(BoundsOf(p.id), LAMBDA t : e.sym \in DOMAIN Traits[t].methods) ELSE <<>>
      keys == {key \in UNION {KeyOf(impls[n]) : n \in DOMAIN impls} :
                 key[2] \in HeadOf(p) /\ \E n \in DOMAIN Filed(key) : HasMethod(Filed(key)[n], e.sym)}
      key == TheOnly(keys)
  IN CASE p.c = "dyn" /\ e.sym \in DOMAIN Traits[p.id].methods -> DynMethod(c, e, Traits[p.id].methods[e.sym])
       [] bounds # <<>> -> [BoundMethod(c, e, Traits[bounds[1]].methods[e.sym]) EXCEPT !.esym[e.id] = bounds[1]]
       [] keys # {} -> ImplMethod(c, e, key, Head(SelectSeq(Filed(key), LAMBDA i : HasMethod(i, e.sym))))
       [] OTHER -> Yield(FailIf(o # Broken, CheckAll(c, Tail(e.args)), "method"), Broken)

------------------------------------------------------------------------------
\* The other expressions.  A type that is not known yet has no fields, no parts and no methods.
Unknown(c, error) == Yield(Fail(Fresh(c, <<1>>), error), FreshArgs(c, <<1>>)[1])
Member(c, e) ==
  LET p == Peeled(c.out)
  IN IF IsStruct(p) /\ e.n \in DOMAIN Decls[p.id].parts THEN Yield(c, FieldTypes(p)[e.n]) ELSE Unknown(c, "member")
TupleIndex(c, e) == IF c.out.c = "tuple" /\ e.n \in DOMAIN c.out.args THEN Yield(c, c.out.args[e.n]) ELSE Unknown(c, "member")
RECURSIVE PeelRefs(_)
PeelRefs(t) == IF t.c = "ref" THEN PeelRefs(t.args[1]) ELSE t
Indexed(c, e) ==
  LET base == PeelRefs(Seen(c, e.args[1]))
      i == Seen(c, e.args[2])
      d == CASE i = I32 \/ i = Broken -> c
             [] i.c = "infer" -> Must(c, i, Prim("usize"), "index")
             [] OTHER -> Fail(c, "index")
      bad == i = Broken \/ base = Broken \/ base.c \notin {"array", "slice"} \/ d.errs # c.errs
  IN Yield(FailIf(base # Broken /\ base.c \notin {"array", "slice"}, d, "index"), IF bad THEN Broken ELSE base.args[1])

StructInit(c, e) ==
  LET gen == Decls[e.sym].gen
      parts == Decls[e.sym].parts
      missing == SubSeq(gen, Len(e.tys) + 1, Len(gen))
      args == e.tys \o FreshArgs(c, missing)
      s == Pairing(gen, args)
      types == Applied(LAMBDA t : Instantiate(s, t), parts)
      One(d, i) == IF i \in DOMAIN types THEN TheOnly({Must(x, types[i], x.out, "field") : x \in {Check(d, e.args[i])}})
                   ELSE Fail(Check(d, e.args[i]), "field")
      all == FoldStrictly(One, CheckBounds(Fresh(c, missing), gen, s), [i \in DOMAIN e.args |-> i])
  IN Yield(FailIf(Len(e.args) < Len(parts), all, "field"), Nominal(e.sym, args))

ArrayLiteral(c, e) ==
  LET first == e.args[1]
      One(d, x) == TheOnly({Must(y, Seen(y, first), y.out, "array") : y \in {Check(d, x)}})
  IN TheOnly({Yield(d, ArrayOf(Seen(d, first), Len(e.args))) : d \in {FoldStrictly(One, Check(c, first), Tail(e.args))}})

BinaryOp(c, e) ==
  TheOnly({ Yield(d, IF e.sym \in Comparisons THEN Bool ELSE Seen(c, e.args[1])) :
            d \in {Must(c, Seen(c, e.args[1]), Seen(c, e.args[2]), "mismatch")} })

\* A match has a value for every case only as far as the outermost patterns tell.
Covers(arms, subject) ==
  LET pats == {arms[i].args[1] : i \in DOMAIN arms}
      Ns(k) == {p.n : p \in {q \in pats : q.k = k}}
  IN \/ \E p \in pats : p.k \in {"pwild", "pbind"}
     \/ subject = Bool /\ Ns("pbool") = {0, 1}
     \/ IsEnum(subject) /\ Cardinality(Ns("pvariant")) = Len(Decls[subject.id].parts)
     \/ subject.c \in {"infer", "error"}
ArmType(c, arm) == IF arm.args[2].k = "tail" THEN Seen(c, arm.args[2].args[1]) ELSE Void
MatchOf(c, e) ==
  LET subject == c.out
      arms == Tail(e.args)
      result == FreshArgs(c, <<1>>)[1]
      One(d, arm) == TheOnly({Must(x, result, ArmType(x, arm), "arm") : x \in {Check(Pattern(d, arm.args[1], subject), arm.args[2])}})
  IN TheOnly({ Yield(FailIf(~ Covers(arms, subject), d, "inexhaustive"), Walk(d.bound, result)) :
               d \in {FoldStrictly(One, Fresh(c, <<1>>), arms)} })

------------------------------------------------------------------------------
\* Statements.
SolveObligations(c) ==
  FoldStrictly(LAMBDA d, o : Must(d, o[1], o[2], "obligation"), [c EXCEPT !.obl = <<>>], c.obl)

LetOf(c, e) ==
  LET annotated == e.tys # <<>>
      d == IF annotated THEN FailIf(Unsized(e.tys[1]), Given(c, c.out, e.tys[1]), "unsized") ELSE FailIf(Unsized(c.out), c, "unsized")
      ty == IF annotated THEN e.tys[1] ELSE c.out
  IN IF Len(e.args) = 2 THEN Pattern(d, e.args[2], ty) ELSE [d EXCEPT !.st = Assign(@, e.sym, ty)]

\* A block: the obligations its items leave are solved before its tail.
BlockOf(c, e) ==
  LET tail == e.args # <<>> /\ Last(e.args).k = "tail"
  IN IF tail THEN Check(SolveObligations(CheckAll(c, Front(e.args))), Last(e.args)) ELSE SolveObligations(CheckAll(c, e.args))

Condition(c) == Must(c, Bool, c.out, "condition")
WhileOf(c, e) == [Check([Condition(c) EXCEPT !.loops = @ + 1], e.args[2]) EXCEPT !.loops = @ - 1]
ReturnOf(c, e) ==
  IF e.args = <<>> THEN Must(c, c.ret, Void, "mismatch") ELSE TheOnly({Given(d, d.out, c.ret) : d \in {Check(c, e.args[1])}})

Statements == {"let", "tail", "expr", "block", "if", "while", "break", "return"}
\* What is checked before the node itself.
Checked(c, e) ==
  CASE e.k \in {"bin", "neg", "tuple", "index", "assign"} -> CheckAll(c, e.args)
    [] e.k \in {"member", "at", "method", "ref", "deref", "match", "let", "tail", "expr", "if", "while"} -> Check(c, e.args[1])
    [] OTHER -> c
Typed(c, e) ==
  CASE e.k = "int" -> Yield(c, I32)
    [] e.k = "bool" -> Yield(c, Bool)
    [] e.k = "var" -> IF e.sym \in DOMAIN c.st THEN Yield(c, c.st[e.sym]) ELSE Yield(Fresh(c, <<1>>), FreshArgs(c, <<1>>)[1])
    [] e.k = "fn" -> FunctionName(c, e)
    [] e.k = "variant" -> EnumName(c, e)
    [] e.k = "bin" -> BinaryOp(c, e)
    [] e.k = "neg" -> IF c.out = Bool THEN Yield(Fail(c, "unary"), Broken) ELSE c
    [] e.k = "call" -> CallTo(c, e)
    [] e.k = "method" -> MethodCall(c, e)
    [] e.k = "member" -> Member(c, e)
    [] e.k = "at" -> TupleIndex(c, e)
    [] e.k = "index" -> Indexed(c, e)
    [] e.k = "init" -> StructInit(c, e)
    [] e.k = "tuple" -> Yield(c, Tup(TypesOf(c, e.args)))
    [] e.k = "array" -> ArrayLiteral(c, e)
    [] e.k = "ref" -> Yield(c, Ref(e.n, c.out))
    [] e.k = "deref" -> IF c.out.c = "ref" THEN Yield(c, c.out.args[1]) ELSE Yield(FailIf(c.out # Broken, c, "deref"), Broken)
    [] e.k = "assign" -> IF e.args[1].k \notin Places THEN Yield(Fail(c, "place"), Broken)
                         ELSE Yield(Given(c, Seen(c, e.args[2]), Seen(c, e.args[1])), Void)
    [] e.k = "match" -> MatchOf(c, e)
    [] e.k = "let" -> LetOf(c, e)
    [] e.k = "return" -> ReturnOf(c, e)
    [] e.k = "if" -> CheckAll(Condition(c), Tail(e.args))
    [] e.k = "while" -> WhileOf(c, e)
    [] e.k = "break" -> FailIf(c.loops = 0, c, "loop")
    [] e.k = "block" -> BlockOf(c, e)
    [] e.k \in {"tail", "expr"} -> c
Check(c, e) ==
  TheOnly({ IF e.k \in Statements THEN d ELSE [d EXCEPT !.et[e.id] = d.out] :
            d \in UNION {{Typed(b, e)} : b \in {Checked(c, e)}} })

\* A function: its parameters have the types of its signature, and its body is checked against what it returns.
CheckFunction(c, f, body) ==
  LET fn == Fns[f]
      bad == Unsized(fn.ret) \/ \E i \in DOMAIN fn.params : Unsized(fn.params[i][2])
      typed == FoldLeft(LAMBDA st, p : Assign(st, p[1], p[2]), c.st, fn.params)
  IN Check(FailIf(bad, [c EXCEPT !.st = typed, !.ret = fn.ret, !.loops = 0], "unsized"), body)
=============================================================================
