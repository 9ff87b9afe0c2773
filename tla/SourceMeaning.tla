----------------------------- MODULE SourceMeaning -----------------------------
(***************************************************************************)
(* What a source program means, said directly: a value has one owner, a    *)
(* use of a variable whose type owns something moves it, and what a scope  *)
(* still owns when control leaves it, on whatever way, is dropped, last    *)
(* declared first: the type's own drop, then its parts in reverse.         *)
(* The calls of observed functions are recorded as the machine records     *)
(* them, and over says that an integer left its width on the way.          *)
(*                                                                         *)
(* Names mean what the text around them says: a variable is the one of the *)
(* innermost scope that declares the name, anywhere in it; a function is   *)
(* found by its path among the namespaces, where modules of one name are   *)
(* one and only what is public or declared around the caller can be named. *)
(*                                                                         *)
(* m is the evaluation: [prog, ns, env, scopes, trace, over, ctl, val,     *)
(* fuel, back]; prog is [vars, at], the content of every namespace, ns the *)
(* namespace of the function that runs, ctl is "go", "break", "continue",  *)
(* "return" or "stuck", and back what the receiver of the last call        *)
(* became.                                                                 *)
(***************************************************************************)
EXTENDS MvirMachine

-----------------------------------------------------------------------------
(* Namespaces: a unit and the modules on the way down, as <<"p", "m">>.    *)
(* Spaces are a set of them: all that a unit sees under one name.  A       *)
(* declaration is <<namespace, place in its content>>.                     *)

\* The content of a namespace, and of those in it: modules of one name are one.
RECURSIVE Contents(_, _)
Contents(ns, items) ==
  LET Named(x) == SelectSeq(items, LAMBDA i : i.k = "module" /\ i.name = x)
      Merged(x) == FoldLeft(LAMBDA all, i : all \o i.items, <<>>, Named(x))
      names == {items[i].name : i \in {j \in DOMAIN items : items[j].k = "module"}}
  IN FoldSet(LAMBDA x, all : Contents(Append(ns, x), Merged(x)) @@ all, ns :> items, names)
Laid(text) ==
  [vars |-> text.vars,
   at |-> FoldLeft(LAMBDA all, p : Contents(<<p.name>>, p.items) @@ all, Contents(<<Program>>, text.items), text.providers)]
ItemAt(text, d) == text.at[d[1]][d[2]]
All(text, spaces, kind) == {d \in UNION {{ns} \X DOMAIN text.at[ns] : ns \in spaces} : ItemAt(text, d).k = kind}

\* A unit sees its own namespaces, and in them what its imports offer.
OfUnit(unit, spaces) == {ns \in spaces : Head(ns) = unit}
Seen(text, unit, spaces) == spaces \cup {<<ItemAt(text, d).provider>> : d \in All(text, OfUnit(unit, spaces), "import")}
Declarations(text, unit, spaces, kind) ==
  {d \in All(text, Seen(text, unit, spaces), kind) : kind = "module" \/ Head(d[1]) = unit \/ ItemAt(text, d).vis = "public"}
DeclaredAs(text, unit, spaces, kind, x) == {d \in Declarations(text, unit, spaces, kind) : ItemAt(text, d).name = x}
Aliases(text, unit, spaces, x) == {d \in All(text, OfUnit(unit, spaces), "using") : ItemAt(text, d).alias = x}

RECURSIVE Under(_, _, _, _), Home(_, _, _)
Target(text, ns, path) ==
  FoldLeft(LAMBDA spaces, x : Under(text, Head(ns), spaces, x), Under(text, Head(ns), Home(text, ns, Head(path)), Head(path)), Tail(path))
Under(text, unit, spaces, x) ==
  {Append(d[1], x) : d \in DeclaredAs(text, unit, spaces, "module", x)}
  \cup UNION {Target(text, d[1], ItemAt(text, d).path) : d \in Aliases(text, unit, spaces, x)}
\* The innermost of the spaces around that know the name.
Home(text, ns, x) ==
  LET unit == Head(ns)
      Level(k) == FoldLeft(LAMBDA spaces, y : Under(text, unit, spaces, y), {<<unit>>}, SubSeq(ns, 2, k))
      knowing == {k \in DOMAIN ns : DeclaredAs(text, unit, Level(k), "fn", x) # {} \/ Under(text, unit, Level(k), x) # {}}
  IN IF knowing = {} THEN {} ELSE Level(CHOOSE k \in knowing : \A j \in knowing : j <= k)

MayName(text, ns, d) ==
  LET vis == ItemAt(text, d).vis
  IN vis = "public" \/ (vis = "internal" /\ Head(d[1]) = Head(ns)) \/ IsPrefix(d[1], ns)
Callees(text, ns, path) ==
  LET unit == Head(ns)
      home == Home(text, ns, Head(path))
      Enters(spaces, x) == IF \E d \in DeclaredAs(text, unit, spaces, "module", x) : MayName(text, ns, d) THEN Under(text, unit, spaces, x) ELSE {}
      spaces == IF Len(path) = 1 THEN home
                ELSE FoldLeft(Enters, Under(text, unit, home, Head(path)), SubSeq(path, 2, Len(path) - 1))
  IN {d \in DeclaredAs(text, unit, spaces, "fn", Last(path)) : MayName(text, ns, d)}

\* In every namespace a name stands for one thing, and every alias for a namespace.
RECURSIVE Sound(_, _, _)
Sound(text, unit, spaces) ==
  LET fns == Declarations(text, unit, spaces, "fn")
      modules == Declarations(text, unit, spaces, "module")
      aliases == All(text, OfUnit(unit, spaces), "using")
      Claims(x) == Cardinality(DeclaredAs(text, unit, spaces, "fn", x)) + Cardinality(Aliases(text, unit, spaces, x))
                   + (IF DeclaredAs(text, unit, spaces, "module", x) = {} THEN 0 ELSE 1)
  IN /\ \A d \in fns \cup modules : Claims(ItemAt(text, d).name) = 1
     /\ \A d \in aliases : Claims(ItemAt(text, d).alias) = 1 /\ Target(text, d[1], ItemAt(text, d).path) # {}
     /\ \A d \in modules : Sound(text, unit, Under(text, unit, spaces, ItemAt(text, d).name))
Lawful(text) == \A ns \in DOMAIN text.at : Len(ns) = 1 => Sound(text, Head(ns), {ns})

-----------------------------------------------------------------------------
(* Evaluation.                                                             *)

RECURSIVE Run(_, _, _)
Eval(m, e) == Run(m, "value", e)
Exec(m, s) == Run(m, "statement", s)
CallFn(m, f, args) == Run(m, "call", [f |-> f, args |-> args])
DropValue(m, v, ty) == Run(m, "drop", [v |-> v, ty |-> ty])
Loop(m, c, step, body) == Run(m, "loop", [c |-> c, step |-> step, body |-> body])
Each(m, pat, body) == Run(m, "each", [pat |-> pat, body |-> body])
Place(m, e) == Run(m, "place", e)

Library(m, f) == TheOnly(DeclaredAs(m.prog, "std", {<<"std">>}, "fn", f))
Going(m) == m.ctl = "go"
Yield(m, v) == [m EXCEPT !.val = v]
Stuck(m) == [m EXCEPT !.ctl = "stuck"]
Moved == [t |-> "moved"]
Hidden == [t |-> "hidden"]   \* declared further down, or nowhere
Held(m, x) == IF x \in DOMAIN m.env THEN m.env[x] ELSE Hidden

\* A scope has its names from its start, each to be declared once, and gives those of the scopes around back.
RECURSIVE PatternNames(_)
PatternNames(pat) ==
  CASE pat.k = "id" -> {pat.x}
    [] pat.k = "enum" -> UNION {PatternNames(pat.fields[i]) : i \in DOMAIN pat.fields}
    [] pat.k = "tuple" -> UNION {PatternNames(pat.elems[i]) : i \in DOMAIN pat.elems}
    [] OTHER -> {}
LetNames(items) == UNION {PatternNames(items[i].pat) : i \in {j \in DOMAIN items : items[j].k = "let"}}
Enter(m, names) ==
  [m EXCEPT !.scopes = Append(@, [owned |-> <<>>, names |-> names, around |-> m.env]), !.env = [x \in names |-> Hidden] @@ @]
Own(m, x, ty, v) ==
  LET owned == Last(m.scopes).owned
  IN IF \E i \in DOMAIN owned : owned[i][1] = x THEN Stuck(m)
     ELSE [m EXCEPT !.env = (x :> v) @@ @, !.scopes[Len(m.scopes)].owned = Append(@, <<x, ty>>)]
Exit(m) ==
  LET scope == Last(m.scopes)
      DropVar(a, xt) ==
        IF a.env[xt[1]] = Moved THEN a
        ELSE LET after == DropValue(a, a.env[xt[1]], xt[2]) IN [after EXCEPT !.env[xt[1]] = Moved]
      kept == FoldLeft(DropVar, [m EXCEPT !.ctl = "go"], Reverse(scope.owned))
  IN [kept EXCEPT !.val = m.val, !.ctl = m.ctl, !.scopes = Front(m.scopes),
                  !.env = [x \in DOMAIN scope.around |-> IF x \in scope.names THEN scope.around[x] ELSE @[x]]]

RunDrop(m, v, ty) ==
  IF ~ NeedsDrop(ty) THEN m
  ELSE LET user == IF ty \in UserDrop THEN CallFn(m, Library(m, "drop_" \o ty), <<v>>) ELSE m
       IN IF v.t = "struct"
            THEN FoldLeft(LAMBDA a, i : DropValue(a, v.fields[i], Fields[ty][i]), user, Reverse([i \in DOMAIN v.fields |-> i]))
            ELSE FoldLeft(LAMBDA a, i : DropValue(a, v.payload[i], Payloads[ty][v.tag + 1]), user, [i \in DOMAIN v.payload |-> i])

EvalAll(m, es) ==
  FoldLeft(LAMBDA a, e : LET next == Eval(a.m, e) IN [m |-> next, vals |-> Append(a.vals, next.val)],
           [m |-> m, vals |-> <<>>], es)

RunCall(m, f, args) ==
  LET item == ItemAt(m.prog, f)
      fn == item.fn
      called == [m EXCEPT !.ns = f[1], !.env = <<>>, !.scopes = <<>>, !.fuel = @ - 1,
                          !.trace = IF f[1] = <<"std">> /\ item.name \in Observed THEN Append(@, <<item.name, args[1].int>>) ELSE @]
      body == Exec(FoldLeft(LAMBDA a, i : Own(a, fn.params[i][1], fn.params[i][2], args[i]),
                            Enter(called, {fn.params[i][1] : i \in DOMAIN args}), [i \in DOMAIN args |-> i]), fn.body)
      left == Exit(body)
  IN IF ~ Going(m) \/ m.fuel = 0 THEN Stuck(m)
     ELSE [left EXCEPT !.ns = m.ns, !.env = m.env, !.scopes = m.scopes, !.fuel = m.fuel, !.ctl = IF @ = "stuck" THEN @ ELSE "go",
                       !.back = IF args = <<>> THEN Unit ELSE body.env[fn.params[1][1]]]

\* A call of what a path names, from where it is written; a variable is in the way of a function of its name.
CallPath(m, path, args) ==
  LET Called(callees) == IF Cardinality(callees) = 1 THEN CallFn(m, TheOnly(callees), args) ELSE Stuck(m)
  IN IF Head(path) \in DOMAIN m.env THEN Stuck(m) ELSE Called(Callees(m.prog, m.ns, path))

\* The path of a place from the variable it is in; indices are evaluated on the way.
RunPlace(m, e) ==
  CASE e.k = "var" -> [m |-> IF Held(m, e.x) = Hidden THEN Stuck(m) ELSE m, x |-> e.x, path |-> <<>>]
    [] e.k = "member" -> LET p == Place(m, e.obj) IN [p EXCEPT !.path = Append(@, e.i)]
    [] e.k = "index" ->
         LET at == Eval(m, e.at)
             p == Place(at, e.obj)
             n == Len(Fields[TypeOf(m.prog, e.obj)])
         IN IF at.val.int \in 0 .. n - 1 THEN [p EXCEPT !.path = Append(@, at.val.int + 1)]
            ELSE [p EXCEPT !.m = Stuck(p.m)]

Operate(m, op, a, b) ==
  CASE op \in {"eq", "ne", "lt", "le", "gt", "ge"} ->
         Yield(m, BoolVal(CASE op = "eq" -> a = b [] op = "ne" -> a # b
                            [] op = "lt" -> a.int < b.int [] op = "le" -> a.int <= b.int
                            [] op = "gt" -> a.int > b.int [] op = "ge" -> a.int >= b.int))
    [] op \in {"div", "rem"} /\ b.int = 0 -> Stuck(m)
    [] OTHER -> LET n == Arithmetic(op, a.int, b.int)
                IN [Yield(m, IntVal(Wrap(n))) EXCEPT !.over = @ \/ ~ Fits(n)]

RECURSIVE Matches(_, _)
Matches(pat, v) ==
  CASE pat.k \in {"wild", "id"} -> TRUE
    [] pat.k = "lit" -> v = (IF pat.e.k = "num" THEN IntVal(pat.e.n) ELSE BoolVal(pat.e.b))
    [] pat.k = "unit" -> v.tag = VariantNamed(pat.name).index
    [] pat.k = "enum" -> /\ v.tag = VariantNamed(pat.name).index
                         /\ \A i \in DOMAIN pat.fields : Matches(pat.fields[i], v.payload[i])
    [] pat.k = "tuple" -> \A i \in DOMAIN pat.elems : Matches(pat.elems[i], v.fields[i])

RECURSIVE Bound(_, _, _)
Bound(m, pat, v) ==
  CASE pat.k \in {"wild", "lit", "unit"} -> m
    [] pat.k = "id" -> Own(m, pat.x, m.prog.vars[pat.x], v)
    [] pat.k = "enum" -> FoldLeft(LAMBDA a, i : Bound(a, pat.fields[i], v.payload[i]), m, [i \in DOMAIN pat.fields |-> i])
    [] pat.k = "tuple" -> FoldLeft(LAMBDA a, i : Bound(a, pat.elems[i], v.fields[i]), m, [i \in DOMAIN pat.elems |-> i])

EvalMatch(m, e) ==
  LET subject == Eval(m, e.e)
      hits == {i \in DOMAIN e.arms : Matches(e.arms[i].pat, subject.val)}
      arm == e.arms[CHOOSE i \in hits : \A j \in hits : i <= j]
  IN IF ~ Going(subject) THEN subject
     ELSE IF hits = {} THEN Stuck(subject)
     ELSE Exit(Exec(Bound(Enter(subject, PatternNames(arm.pat)), arm.pat, subject.val), arm.body))

EvalMethod(m, e) ==
  LET f == Library(m, e.f)
      self == ItemAt(m.prog, f).fn.params[1]
      place == Place(m, e.obj)
      args == EvalAll(place.m, e.args)
      call == CallFn(args.m, f, <<At(Held(args.m, place.x), place.path)>> \o args.vals)
  IN IF self[2] \in DOMAIN Pointee
       THEN [call EXCEPT !.env[place.x] = Put(@, place.path, call.back)]
       ELSE LET all == EvalAll(m, <<e.obj>> \o e.args) IN CallFn(all.m, f, all.vals)

EvalTry(m, e) ==
  LET r == Eval(m, e.e)
  IN IF ~ Going(r) THEN r
     ELSE IF r.val.tag = VariantNamed("Ok").index THEN Yield(r, r.val.payload[1])
     ELSE [r EXCEPT !.ctl = "return"]

RunValue(m, e) ==
  IF ~ Going(m) THEN m ELSE
  CASE e.k = "num" -> Yield(m, IntVal(e.n))
    [] e.k = "bool" -> Yield(m, BoolVal(e.b))
    [] e.k = "var" -> IF Held(m, e.x) \in {Moved, Hidden} THEN Stuck(m)
                      ELSE Yield(IF m.prog.vars[e.x] \in CopyTypes THEN m ELSE [m EXCEPT !.env[e.x] = Moved], m.env[e.x])
    [] e.k = "logic" -> LET l == Eval(m, e.l)
                        IN IF Going(l) /\ l.val.bool = (e.op = "and") THEN Eval(l, e.r) ELSE l
    [] e.k = "bin" -> LET both == EvalAll(m, <<e.l, e.r>>)
                      IN IF Going(both.m) THEN Operate(both.m, e.op, both.vals[1], both.vals[2]) ELSE both.m
    [] e.k = "neg" -> LET v == Eval(m, e.e) IN IF Going(v) THEN Operate(v, "sub", IntVal(0), v.val) ELSE v
    [] e.k = "call" -> LET args == EvalAll(m, e.args) IN IF Going(args.m) THEN CallPath(args.m, e.f, args.vals) ELSE args.m
    [] e.k = "method" -> EvalMethod(m, e)
    [] e.k = "agg" -> LET args == EvalAll(m, e.args) IN Yield(args.m, Struct(args.vals))
    [] e.k = "variant" -> LET args == EvalAll(m, e.args) IN Yield(args.m, Enum(e.index, args.vals))
    [] e.k \in {"member", "index"} -> LET p == Place(m, e) IN Yield(p.m, At(Held(p.m, p.x), p.path))
    [] e.k = "ref" -> LET p == Place(m, e.e) IN Yield(p.m, At(Held(p.m, p.x), p.path))
    [] e.k = "assign" ->
         LET p == Place(m, e.to)
             v == Eval(p.m, e.e)
             w == IF e.op = "set" \/ ~ Going(v) THEN v ELSE Operate(v, e.op, At(p.m.env[p.x], p.path), v.val)
         IN IF Going(w) THEN [Yield(w, Unit) EXCEPT !.env[p.x] = Put(@, p.path, w.val)] ELSE w
    [] e.k = "match" -> EvalMatch(m, e)
    [] e.k = "try" -> EvalTry(m, e)

\* Whatever ends the body of a loop, only a break, a return or a fault ends the loop.
Around(m) == IF m.ctl = "continue" THEN [m EXCEPT !.ctl = "go"] ELSE m
After(m) == IF m.ctl = "break" THEN [m EXCEPT !.ctl = "go"] ELSE m
RunLoop(m, c, step, body) ==
  LET test == Eval([m EXCEPT !.fuel = @ - 1], c)
      round == Around(Exec(test, body))
  IN IF m.fuel = 0 THEN Stuck(m)
     ELSE IF ~ Going(test) \/ ~ test.val.bool THEN test
     ELSE IF Going(round) THEN Loop(IF step = Nil THEN round ELSE Eval(round, step), c, step, body)
     ELSE After(round)

RECURSIVE Count(_, _, _, _, _)
Count(m, x, n, hi, body) ==
  LET round == Around(Exit(Exec(Own(Enter(m, {x}), x, "int", IntVal(n)), body)))
  IN IF n >= hi THEN m ELSE IF Going(round) THEN Count(round, x, n + 1, hi, body) ELSE After(round)

RunEach(m, pat, body) ==
  LET item == CallFn(m, Library(m, "next"), <<Held(m, "$iterator")>>)
      held == [item EXCEPT !.env["$iterator"] = item.back]
      round == Around(Exit(Exec(Bound(Enter(held, PatternNames(pat)), pat, held.val.payload[1]), body)))
  IN IF ~ Going(held) \/ held.val.tag = VariantNamed("None").index THEN held
     ELSE IF Going(round) THEN Each(round, pat, body) ELSE After(round)

ExecAll(m, items) == FoldLeft(LAMBDA a, s : IF Going(a) THEN Exec(a, s) ELSE a, m, items)

RunStatement(m, s) ==
  IF ~ Going(m) THEN m ELSE
  CASE s.k = "let" -> LET v == Eval(m, s.e) IN IF Going(v) THEN Bound(v, s.pat, v.val) ELSE v
    [] s.k = "expr" -> Eval(m, s.e)
    [] s.k = "block" -> LET items == ExecAll(Enter(m, LetNames(s.items)), s.items)
                        IN Exit(IF s.tail = Nil THEN (IF Going(items) THEN Yield(items, Unit) ELSE items)
                                ELSE Eval(items, s.tail))
    [] s.k = "return" -> LET v == IF s.e = Nil THEN Yield(m, Unit) ELSE Eval(m, s.e)
                         IN IF Going(v) THEN [v EXCEPT !.ctl = "return"] ELSE v
    [] s.k = "while" -> Loop(m, s.c, Nil, s.body)
    [] s.k = "if" -> LET c == Eval(m, s.c)
                     IN IF ~ Going(c) THEN c ELSE IF c.val.bool THEN Exec(c, s.then)
                        ELSE IF s.else = Nil THEN c ELSE Exec(c, s.else)
    [] s.k = "for" -> Exit(Loop(Exec(Enter(m, PatternNames(s.init.pat)), s.init), s.c, s.step, s.body))
    [] s.k = "range" -> LET ends == EvalAll(Enter(m, {s.x}), <<s.lo, s.hi>>)
                        IN Exit(IF Going(ends.m) THEN Count(ends.m, s.x, ends.vals[1].int, ends.vals[2].int, s.body) ELSE ends.m)
    [] s.k = "each" -> LET it == Eval(Enter(m, PatternNames(s.pat) \cup {"$iterator"}), s.e)
                       IN Exit(Each(Own(it, "$iterator", "Iter", it.val), s.pat, s.body))
    [] s.k \in {"break", "continue"} -> [m EXCEPT !.ctl = s.k]

Run(m, what, e) ==
  CASE what = "value" -> RunValue(m, e)
    [] what = "statement" -> RunStatement(m, e)
    [] what = "call" -> RunCall(m, e.f, e.args)
    [] what = "drop" -> RunDrop(m, e.v, e.ty)
    [] what = "loop" -> RunLoop(m, e.c, e.step, e.body)
    [] what = "each" -> RunEach(m, e.pat, e.body)
    [] what = "place" -> RunPlace(m, e)

Meaning(text, f, n) ==
  LET start == [prog |-> Laid(text), ns |-> <<Program>>, env |-> <<>>, scopes |-> <<>>, trace |-> <<>>, over |-> FALSE, ctl |-> "go",
                val |-> Unit, fuel |-> 16, back |-> Unit]
      Begun(m) == IF Lawful(m.prog) THEN CallPath(m, <<f>>, <<IntVal(n)>>) ELSE Stuck(m)
  IN Begun(start)
=============================================================================
