------------------------------ MODULE ProgramTyping ------------------------------
(***************************************************************************)
(* What a program means, told apart from how it was checked: the source is *)
(* run from main on values that carry no types, every method being that of *)
(* the implementation whose pattern the receiver fits.  Along the run the  *)
(* instances the collector made are followed, and `bad` keeps every        *)
(* disagreement: a value that is not of the type recorded for it, a call   *)
(* recorded for another function, an instance that was never made, a match *)
(* without a case.  This is the meaning the properties hold the code to    *)
(* and models no code of its own.                                          *)
(***************************************************************************)
EXTENDS FrontEnd

Value(c, id, n, args) == [c |-> c, id |-> id, n |-> n, args |-> args, path |-> <<>>]
UnitValue == Value("unit", "", 0, <<>>)
Number(n) == Value("int", "", n, <<>>)
TruthOf(p) == Value("bool", "", IF p THEN 1 ELSE 0, <<>>)
Pointer(cell, path) == [Value("ref", "", cell, <<>>) EXCEPT !.path = path]

RECURSIVE Inside(_, _)
Inside(v, path) == IF path = <<>> THEN v ELSE Inside(v.args[Head(path)], Tail(path))
RECURSIVE Replaced(_, _, _)
Replaced(v, path, w) ==
  IF path = <<>> THEN w ELSE [v EXCEPT !.args[Head(path)] = Replaced(@, Tail(path), w)]

\* A value is of a type by what it is made of; a reference is, when what it points to is.
RECURSIVE HasType(_, _, _)
HasType(heap, v, t) ==
  LET All(types) == Len(v.args) = Len(types) /\ \A i \in DOMAIN types : HasType(heap, v.args[i], types[i])
      pointee == Inside(heap[v.n], v.path)
  IN CASE v.c = "int" -> t = I32
       [] v.c = "bool" -> t = Bool
       [] v.c = "unit" -> t \in {Void, Tup(<<>>)}
       [] v.c = "tuple" -> t.c = "tuple" /\ All(t.args)
       [] v.c = "array" -> (t.c = "slice" \/ (t.c = "array" /\ t.n = Len(v.args))) /\ \A i \in DOMAIN v.args : HasType(heap, v.args[i], t.args[1])
       [] v.c = "struct" -> IsStruct(t) /\ t.id = v.id /\ All(FieldTypes(t))
       [] v.c = "enum" -> IsEnum(t) /\ t.id = v.id /\ All(SelectSeq(<<FieldTypes(t)[v.n]>>, LAMBDA p : p # Void))
       [] v.c = "ref" -> t.c = "ref" /\ (HasType(heap, pointee, t.args[1])
                                         \/ (t.args[1].c = "dyn" /\ <<t.args[1].id, pointee.id>> \in Implemented))

------------------------------------------------------------------------------
Step(m, v) == [m EXCEPT !.val = v]
Stop(m, how) == [m EXCEPT !.how = how, !.val = UnitValue]
Wrong(m, what) == [m EXCEPT !.bad = @ \cup {what}]
WrongUnless(p, m, what) == IF p THEN m ELSE Wrong(m, what)
NewCell(m, v) == Step([m EXCEPT !.heap = Append(@, v)], Pointer(Len(m.heap) + 1, <<>>))
BindTo(m, x, v) == [m EXCEPT !.heap = Append(@, v), !.env = Assign(@, x, Len(m.heap) + 1)]
At1(m, p) == Inside(m.heap[p.n], p.path)
Store(m, p, v) == [m EXCEPT !.heap[p.n] = Replaced(@, p.path, v), !.val = UnitValue]
RECURSIVE Through(_, _)
Through(m, p) == LET v == At1(m, p) IN IF v.c = "ref" THEN Through(m, v) ELSE p
PartAt(p, n) == [p EXCEPT !.path = Append(@, n)]

\* The bindings of a pattern that fits a value, in the set of them; the empty set when it does not.
RECURSIVE Fits(_, _)
FitsAll(pats, vs) ==
  FoldStrictly(LAMBDA acc, i : {a \o b : a \in acc, b \in Fits(pats[i], vs[i])}, {<<>>}, [i \in DOMAIN pats |-> i])
Fits(p, v) ==
  CASE p.k = "pwild" -> {<<>>}
    [] p.k = "pbind" -> {<<<<p.sym, v>>>>}
    [] p.k = "pbool" -> IF v.n = p.n THEN {<<>>} ELSE {}
    [] p.k = "pvariant" -> IF v.n # p.n THEN {}
                           ELSE IF Len(p.args) > 1 THEN FitsAll(p.args, v.args[1].args) ELSE FitsAll(p.args, v.args)
    [] OTHER -> FitsAll(p.args, v.args)
BindAll(m, binds) == FoldStrictly(LAMBDA d, b : BindTo(d, b[1], b[2]), m, binds)

Meaning(op, l, r) ==
  CASE op = "add" -> Number(l + r)
    [] op = "sub" -> Number(l - r)
    [] op = "eq" -> TruthOf(l = r)
    [] op = "gt" -> TruthOf(l > r)
    [] op = "and" -> TruthOf(l = 1 /\ r = 1)

\* The implementation a method is taken from.
Applicable(t, method) ==
  {i \in Range(impls) : HasMethod(i, method) /\ Matching(Ground, NoSubst, Impls[i].self, t) # {}}
Selects(inst, t, method) ==
  \E i \in Applicable(t, method) : inst.fn = MethodOf(i, method) /\
    \A s \in Matching(Ground, NoSubst, Impls[i].self, t) : \A g \in DOMAIN s : g \in DOMAIN SubstOf(inst) /\ SubstOf(inst)[g] = s[g]

------------------------------------------------------------------------------
RECURSIVE Run(_, _, _)
\* What runs one after the other; what an expression computed is only used while the run goes on.
RunAll(m, fr, nodes) ==
  FoldStrictly(LAMBDA d, e : IF d.how # "next" THEN d ELSE TheOnly({[x EXCEPT !.vals = Append(d.vals, x.val)] : x \in {Run(d, fr, e)}}),
               [m EXCEPT !.vals = <<>>], nodes)
Then(m, Op(_)) == IF m.how # "next" THEN m ELSE Op(m)

Enter(m, inst, args) ==
  LET body == tables[inst.fn].body
      params == Fns[inst.fn].params
      cs == [cs |-> SubstOf(inst)]
      rec == mono.done[inst]
      typed == \A i \in DOMAIN params : HasType(m.heap, args[i], Substituted(cs, params[i][2]))
      start == BindAll([WrongUnless(typed, m, "argument") EXCEPT !.env = NoSubst, !.fuel = @ - 1],
                       [i \in DOMAIN params |-> <<params[i][1], args[i]>>])
      Left(d) == [WrongUnless(d.how = "trap" \/ HasType(d.heap, d.val, Substituted(cs, Fns[inst.fn].ret)), d, "result")
                  EXCEPT !.env = m.env, !.how = IF @ = "trap" THEN @ ELSE "next"]
  IN IF m.fuel = 0 THEN Stop(m, "trap")
     ELSE IF inst \notin DOMAIN mono.done \/ inst.fn \notin DOMAIN Fns THEN Stop(Wrong(m, "missing"), "trap")
     ELSE IF Len(params) # Len(args) THEN Stop(Wrong(m, "arity"), "trap")
     ELSE TheOnly({Left(d) : d \in {Run(start, rec, body)}})

\* A place: a variable, a part of a place or of what a reference points to, or a value of its own.
RECURSIVE Placed(_, _, _)
Placed(m, fr, e) ==
  LET Part(d) == LET p == Through(d, d.val) IN Step(d, PartAt(p, e.n))
      Element(d) == LET p == Through(d, d.val)
                        n == d.vals[1].n + 1
                    IN IF n \in DOMAIN At1(d, p).args THEN Step(d, PartAt(p, n)) ELSE Stop(d, "trap")
  IN CASE e.k = "var" -> Step(m, Pointer(m.env[e.sym], <<>>))
       [] e.k \in {"member", "at"} -> TheOnly({Then(d, Part) : d \in {Placed(m, fr, e.args[1])}})
       [] e.k = "index" -> TheOnly({Then(x, Element) : x \in
                             UNION {{IF d.how # "next" THEN d ELSE [Placed(d, fr, e.args[1]) EXCEPT !.vals = d.vals]} : d \in {RunAll(m, fr, Tail(e.args))}}})
       [] e.k = "deref" -> Run(m, fr, e.args[1])
       [] OTHER -> TheOnly({Then(d, LAMBDA x : NewCell(x, x.val)) : d \in {Run(m, fr, e)}})

\* The receiver is a place: passed as it is when it holds a reference, and by reference when the method takes one.
CalledMethod(m, fr, e, place) ==
  LET t == Peeled(fr.types[e.args[1].id])
      held == At1(m, place)
      seen == IF held.c = "ref" THEN At1(m, held) ELSE held
      inst == IF t.c = "dyn" THEN Instance(MethodOf(Head(Filed(<<t.id, seen.id>>)), e.sym), <<>>) ELSE fr.calls[e.id]
      right == HasType(m.heap, held, fr.types[e.args[1].id]) /\ (t.c = "dyn" \/ Selects(inst, t, e.sym))
      self == IF Fns[inst.fn].params[1][2].c # "ref" THEN seen ELSE IF held.c = "ref" THEN held ELSE place
  IN IF t.c # "dyn" /\ (e.id \notin DOMAIN fr.calls \/ fr.calls[e.id].fn \notin DOMAIN Fns) THEN Stop(Wrong(m, "missing"), "trap")
     ELSE Enter(WrongUnless(right, m, "dispatch"), inst, <<self>> \o m.vals)
MethodRun(m, fr, e) ==
  LET Arguments1(p) == TheOnly({Then(d, LAMBDA x : CalledMethod(x, fr, e, p.val)) : d \in {RunAll(p, fr, Tail(e.args))}})
  IN TheOnly({Then(p, Arguments1) : p \in {Placed(m, fr, e.args[1])}})

MatchCase(m, fr, e) ==
  LET arms == Tail(e.args)
      fit == {i \in DOMAIN arms : Fits(arms[i].args[1], m.val) # {}}
      arm == arms[CHOOSE i \in fit : \A j \in fit : i <= j]
  IN IF fit = {} THEN Stop(Wrong(m, "match"), "trap")
     ELSE Run(BindAll(m, TheOnly(Fits(arm.args[1], m.val))), fr, arm.args[2])
LetValue(m, e) ==
  IF Len(e.args) = 1 THEN BindTo(m, e.sym, m.val)
  ELSE IF Fits(e.args[2], m.val) = {} THEN Stop(Wrong(m, "match"), "trap") ELSE BindAll(m, TheOnly(Fits(e.args[2], m.val)))

RECURSIVE Loop(_, _, _)
Loop(m, fr, e) ==
  LET Again(d) == IF d.val.n = 0 \/ d.fuel = 0 THEN Step(d, UnitValue)
                  ELSE TheOnly({IF x.how = "break" THEN Stop(x, "next") ELSE IF x.how # "next" THEN x ELSE Loop(x, fr, e) :
                                x \in {Run([d EXCEPT !.fuel = @ - 1], fr, e.args[2])}})
  IN TheOnly({Then(d, Again) : d \in {Run(m, fr, e.args[1])}})

CallArguments(m, fr, e) ==
  LET callee == e.args[1]
      Variant1(d) == Step(d, Value("enum", callee.sym, callee.n,
                       IF Len(d.vals) > 1 THEN <<Value("tuple", "", 0, d.vals)>> ELSE d.vals))
  IN TheOnly({ IF d.how # "next" THEN d
               ELSE IF callee.k = "variant" THEN Variant1(d)
               ELSE WrongUnless(fr.calls[e.id].fn = callee.sym, Enter(d, fr.calls[e.id], d.vals), "dispatch") :
               d \in {RunAll(m, fr, Tail(e.args))} })

Computed(m, fr, e) ==
  LET First(Op(_)) == TheOnly({Then(d, Op) : d \in {Run(m, fr, e.args[1])}})
      After(Op(_)) == TheOnly({Then(d, Op) : d \in {RunAll(m, fr, e.args)}})
      InPlace(Op(_)) == TheOnly({Then(d, Op) : d \in {Placed(m, fr, e)}})
      Branch(d) == IF d.val.n = 1 THEN Run(d, fr, e.args[2]) ELSE IF Len(e.args) = 3 THEN Run(d, fr, e.args[3]) ELSE Step(d, UnitValue)
      Assigned(d) == TheOnly({Then(p, LAMBDA x : Store(x, x.val, d.val)) : p \in {Placed(d, fr, e.args[1])}})
  IN CASE e.k = "int" -> Step(m, Number(e.n))
       [] e.k = "bool" -> Step(m, TruthOf(e.n = 1))
       [] e.k = "variant" -> Step(m, Value("enum", e.sym, e.n, <<>>))
       [] e.k \in {"var", "member", "at", "index", "deref"} -> InPlace(LAMBDA d : Step(d, At1(d, d.val)))
       [] e.k = "ref" -> TheOnly({Then(d, LAMBDA x : x) : d \in {Placed(m, fr, e.args[1])}})
       [] e.k = "bin" -> After(LAMBDA d : Step(d, Meaning(e.sym, d.vals[1].n, d.vals[2].n)))
       [] e.k = "neg" -> First(LAMBDA d : Step(d, Number(- d.val.n)))
       [] e.k = "call" -> CallArguments(m, fr, e)
       [] e.k = "method" -> MethodRun(m, fr, e)
       [] e.k = "init" -> After(LAMBDA d : Step(d, Value("struct", e.sym, 0, d.vals)))
       [] e.k = "tuple" -> After(LAMBDA d : Step(d, Value("tuple", "", 0, d.vals)))
       [] e.k = "array" -> After(LAMBDA d : Step(d, Value("array", "", 0, d.vals)))
       [] e.k = "match" -> First(LAMBDA d : MatchCase(d, fr, e))
       [] e.k = "let" -> First(LAMBDA d : LetValue(d, e))
       [] e.k = "assign" -> TheOnly({Then(d, Assigned) : d \in {Run(m, fr, e.args[2])}})
       [] e.k = "if" -> First(Branch)
       [] e.k = "while" -> Loop(m, fr, e)
       [] e.k = "break" -> Stop(m, "break")
       [] e.k = "return" -> IF e.args = <<>> THEN Stop(m, "return") ELSE First(LAMBDA d : [d EXCEPT !.how = "return"])
       [] e.k = "block" -> IF e.args = <<>> THEN Step(m, UnitValue) ELSE
            TheOnly({Then(d, LAMBDA x : IF Last(e.args).k = "tail" THEN x ELSE Step(x, UnitValue)) : d \in {RunAll(m, fr, e.args)}})
       [] e.k \in {"tail", "expr"} -> Run(m, fr, e.args[1])
\* Every value an expression has is of the type the instance records for it.
Run(m, fr, e) ==
  TheOnly({ IF d.how # "next" \/ e.id \notin DOMAIN fr.types THEN d ELSE WrongUnless(HasType(d.heap, d.val, fr.types[e.id]), d, "type") :
            d \in {Computed(m, fr, e)} })

Machine(fuel) ==
  [heap |-> <<>>, env |-> NoSubst, val |-> UnitValue, vals |-> <<>>, how |-> "next", fuel |-> fuel, bad |-> {}]
RunOf(fuel) == Enter(Machine(fuel), Instance(main, <<>>), <<>>)
=============================================================================
