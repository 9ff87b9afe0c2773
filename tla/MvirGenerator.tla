----------------------------- MODULE MvirGenerator -----------------------------
(***************************************************************************)
(* The lowering of source programs to MVIR (luna-mvir/src/generator.rs):   *)
(* control flow to basic blocks, values to numbered instructions, and the  *)
(* drops every scope owes on every way out of it.                          *)
(*                                                                         *)
(* The generator's fields are one record g that every operation takes and  *)
(* returns; g.out is the operand the last expression was lowered to.  An   *)
(* instruction is [op, args, aux, ty]: args are its operands, aux what     *)
(* else it names.  g.cur holds the open block, <<>> after a terminator:    *)
(* what is lowered then gets values and no place in a block.               *)
(***************************************************************************)
EXTENDS SourceSyntax, StrictFold

(***************************************************************************)
(* The types of a program, what they own, and the type of an expression.   *)
(* A program is a record of the types of its variables and its functions   *)
(* by name, those of the standard library among them: [vars, fns].         *)
(***************************************************************************)
CONSTANTS
  Fields,      \* [struct and tuple types -> the types of their fields]
  Payloads,    \* [enum types -> the types of the payloads of their variants, "void" for none]
  UserDrop,    \* the types with a Drop implementation
  Pointee,     \* [reference types -> the types they refer to]
  VariantSymbols  \* the variants in symbol order, [names, of, index]: names are the ends of the name

Peel(ty) == IF ty \in DOMAIN Pointee THEN Pointee[ty] ELSE ty
PartTypes(ty) ==
  LET parts == IF ty \in DOMAIN Fields THEN Fields[ty] ELSE IF ty \in DOMAIN Payloads THEN Payloads[ty] ELSE <<>>
  IN {parts[i] : i \in DOMAIN parts}

\* needs_drop: a type met again on the way down is taken to need none.
RECURSIVE NeedsDropWithin(_, _)
NeedsDropWithin(ty, visiting) ==
  /\ ty \notin visiting
  /\ ty \in UserDrop \/ \E part \in PartTypes(ty) : NeedsDropWithin(part, visiting \cup {ty})
NeedsDrop(ty) == NeedsDropWithin(ty, {})

CopyTypes == {"int", "bool", "void"} \cup DOMAIN Pointee

\* The type the checker gave an expression.
RECURSIVE TypeOf(_, _)
TypeOf(prog, e) ==
  CASE e.k = "num" -> "int"
    [] e.k \in {"bool", "logic"} -> "bool"
    [] e.k = "bin" -> IF e.op \in {"eq", "ne", "lt", "le", "gt", "ge"} THEN "bool" ELSE "int"
    [] e.k = "var" -> prog.vars[e.x]
    [] e.k \in {"call", "method"} -> prog.fns[e.f].ret
    [] e.k \in {"agg", "variant", "match"} -> e.ty
    [] e.k = "member" -> Fields[Peel(TypeOf(prog, e.obj))][e.i]
    [] e.k = "index" -> Fields[Peel(TypeOf(prog, e.obj))][1]
    [] e.k = "assign" -> "void"
    [] e.k = "try" -> "int"
    [] e.k = "await" -> "int"
    [] e.k = "neg" -> "int"
    [] e.k = "deref" -> Pointee[TypeOf(prog, e.e)]
    [] e.k = "ref" -> CHOOSE r \in DOMAIN Pointee : Pointee[r] = TypeOf(prog, e.e)

-----------------------------------------------------------------------------
(* Blocks and instructions.                                                *)

Val(v) == [k |-> "val", v |-> v]
Zero == [k |-> "num", n |-> 0]
Global == [k |-> "global"]   \* a variable that has no slot yet is taken for a global of its name

Br(l) == [k |-> "br", to |-> l]
CondBr(c, t, f) == [k |-> "cond", c |-> c, then |-> t, else |-> f]
Ret(op) == [k |-> "ret", v |-> op]
Unreachable == [k |-> "unreachable"]

FreshGenerator(prog, ret) ==
  [prog |-> prog, ret |-> ret, blocks |-> <<>>, cur |-> <<>>, values |-> <<>>, out |-> Zero,
   locals |-> <<>>, scopes |-> <<>>, temps |-> <<>>, loops |-> <<>>, next |-> 0]

Open(g) == g.cur # <<>>
Labels(g, n) == [g EXCEPT !.next = @ + n]
Closed(g, term) == Append(g.blocks, [label |-> g.cur[1].label, insts |-> g.cur[1].insts, term |-> term])

\* A block that is still open falls through to the one that starts.
StartBlock(g, l) ==
  [g EXCEPT !.blocks = IF Open(g) THEN Closed(g, Br(l)) ELSE @,
            !.cur = <<[label |-> l, insts |-> <<>>]>>]

TerminateBlock(g, term) == IF Open(g) THEN [g EXCEPT !.blocks = Closed(g, term), !.cur = <<>>] ELSE g

PushInst(g, op, args, aux, ty) ==
  LET v == Len(g.values) + 1
  IN [g EXCEPT !.values = Append(@, [op |-> op, args |-> args, aux |-> aux, ty |-> ty]),
               !.cur = IF Open(g) THEN <<[@[1] EXCEPT !.insts = Append(@, v)]>> ELSE @,
               !.out = Val(v)]

\* The instruction op of the last value, the loads and stores of it, and the branch on it.
PushOn(g, op, aux, ty) == PushInst(g, op, <<g.out>>, aux, ty)
PushEq(g, n) == PushInst(g, "eq", <<g.out, Number(n)>>, 0, "bool")
PushCall(g, f, ty) == PushOn(g, "call", <<"fn", f>>, ty)
Alloca(g, ty) == PushInst(g, "alloca", <<>>, 0, ty)
Load(g, ptr, ty) == PushInst(g, "load", <<ptr>>, 0, ty)
Store(g, ptr, op) == PushInst(g, "store", <<ptr, op>>, 0, "void")
StoreOut(g, ptr) == Store(g, ptr, g.out)
JumpTo(g, l) == TerminateBlock(g, Br(l))
FallInto(g, l) == StartBlock(JumpTo(g, l), l)
Branch(g, then, else) == TerminateBlock(g, CondBr(g.out, then, else))

-----------------------------------------------------------------------------
(* Scopes and drops.                                                       *)

PushScope(g) == [g EXCEPT !.scopes = Append(@, <<>>), !.temps = Append(@, <<>>)]
PopScope(g) == [g EXCEPT !.scopes = Front(@), !.temps = Front(@)]
Declare(g, x, slot) ==
  [g EXCEPT !.locals = (x :> slot) @@ @, !.scopes[Len(g.scopes)] = Append(@, x)]

Nobody == <<"none", "none">>
DropGlue(ty) == <<"glue", ty>>
DropGlueId(ty) == IF NeedsDrop(ty) /\ ty \in DOMAIN Fields \cup DOMAIN Payloads THEN DropGlue(ty) ELSE Nobody

EmitDrop(g, ptr, ty) == IF NeedsDrop(ty) THEN PushInst(g, "drop", <<ptr>>, DropGlueId(ty), ty) ELSE g

EmitTemporaryDrops(g, temporaries) ==
  FoldLeft(LAMBDA a, t : EmitDrop(a, t.slot, t.ty), g, Reverse(temporaries))

EmitDropsInOrder(g, scope, keep) ==
  FoldLeft(LAMBDA a, x : IF x = keep THEN a ELSE EmitDrop(a, a.locals[x], a.prog.vars[x]), g, scope)
EmitDropsForScope(g, scope, keep) ==
  FoldLeft(LAMBDA a, x : IF x = keep THEN a ELSE EmitDrop(a, a.locals[x], a.prog.vars[x]), g, Reverse(scope))

EmitDropsUpTo(g, depth, keep) ==
  FoldLeft(LAMBDA a, i : EmitDropsForScope(EmitTemporaryDrops(a, a.temps[i]), a.scopes[i], keep),
           g, Reverse([i \in 1 .. Len(g.scopes) - depth |-> depth + i]))

PopScopeAndDrop(g, keep) ==
  PopScope(EmitDropsForScope(EmitTemporaryDrops(g, Last(g.temps)), Last(g.scopes), keep))

-----------------------------------------------------------------------------
(* Patterns.  A variant is looked up by the end of its name, in symbol     *)
(* order; an identifier matches whatever it names.                         *)

VariantNamed(name) ==
  LET hits == SelectSeq(VariantSymbols, LAMBDA s : name \in s.names)
  IN IF hits = <<>> THEN [of |-> "void", index |-> 0] ELSE hits[1]

Extract(g, from, variant, i, ty) == PushInst(g, "extract", <<from>>, <<variant, i>>, ty)

PayloadType(pat) == LET v == VariantNamed(pat.name) IN Payloads[v.of][v.index + 1]

RECURSIVE GeneratePatMatch(_, _, _)
MatchPart(a, subject, variant, i, pat, ty) ==   \* a conjunct of a pattern, joined without short circuit
  LET Test(b) == GeneratePatMatch(b, pat, b.out)
      Join(b) == PushInst(b, "and", <<a.out, b.out>>, 0, "bool")
  IN Join(Test(Extract(a, subject, variant, i, ty)))

GeneratePatMatch(g, pat, subject) ==
  CASE pat.k \in {"wild", "id", "unit"} -> [g EXCEPT !.out = Truth(TRUE)]
    [] pat.k = "lit" -> PushInst(g, "eq", <<subject, pat.e>>, 0, "bool")
    [] pat.k = "enum" ->
         LET variant == VariantNamed(pat.name).index
             eq == PushEq(PushInst(g, "tag", <<subject>>, 0, "int"), variant)
         IN FoldLeft(LAMBDA a, i : IF pat.fields[i].k \in {"wild", "id", "unit"} THEN a
                                   ELSE MatchPart(a, subject, variant, i, pat.fields[i], PayloadType(pat)),
                     eq, [i \in DOMAIN pat.fields |-> i])
    [] pat.k = "tuple" ->
         FoldLeft(LAMBDA a, i : MatchPart(a, subject, 0, i, pat.elems[i], "void"),
                  [g EXCEPT !.out = Truth(TRUE)], [i \in DOMAIN pat.elems |-> i])

RECURSIVE BindPattern(_, _, _)
BindPart(a, subject, variant, i, pat, ty) ==
  LET Bind(b) == BindPattern(b, pat, b.out) IN Bind(Extract(a, subject, variant, i, ty))

BindPattern(g, pat, subject) ==
  CASE pat.k \in {"wild", "lit", "unit"} -> g
    [] pat.k = "id" ->
         LET Hold(a) == Store(Declare(a, pat.x, a.out), a.out, subject) IN Hold(Alloca(g, g.prog.vars[pat.x]))
    [] pat.k = "enum" ->
         FoldLeft(LAMBDA a, i : BindPart(a, subject, VariantNamed(pat.name).index, i, pat.fields[i], PayloadType(pat)),
                  IF pat.fields = <<>> THEN PushInst(g, "assign", <<subject>>, 0, "void") ELSE g,
                  [i \in DOMAIN pat.fields |-> i])
    [] pat.k = "tuple" ->
         FoldLeft(LAMBDA a, i : BindPart(a, subject, 0, i, pat.elems[i], "void"),
                  g, [i \in DOMAIN pat.elems |-> i])

-----------------------------------------------------------------------------
(* Expressions.                                                            *)

RECURSIVE Generate(_, _, _)
GenerateExpr(g, e) == Generate(g, "value", e)
GenerateLvalue(g, e) == Generate(g, "place", e)
GenerateStmt(g, s) == Generate(g, "statement", s)
GenerateBlockExpr(g, s) == Generate(g, "body", s)

GenerateArgs(g, args) ==
  LET Next(a, ops) == [g |-> a, ops |-> Append(ops, a.out)]
  IN FoldLeft(LAMBDA a, e : Next(GenerateExpr(a.g, e), a.ops), [g |-> g, ops |-> <<>>], args)

LvalueMember(g, e) ==
  LET ty == TypeOf(g.prog, e.obj)
      Reach(a) == IF ty \in DOMAIN Pointee THEN PushOn(a, "load", 0, ty) ELSE a
  IN PushOn(Reach(GenerateLvalue(g, e.obj)), "field", e.i, TypeOf(g.prog, e))

LvalueIndex(g, e) ==
  LET len == Number(Len(Fields[TypeOf(g.prog, e.obj)]))
      Element(a, at) == PushInst(a, "offset", <<a.out, at>>, 0, TypeOf(g.prog, e))
      Of(a) == Element(GenerateLvalue(PushInst(a, "bounds", <<a.out, len>>, 0, "bool"), e.obj), a.out)
  IN Of(GenerateExpr(g, e.at))

Spill(g, e) ==   \* a value that is needed as a place gets a slot no scope knows
  LET Hold(a, value) == [Store(a, a.out, value) EXCEPT !.out = a.out]
      Slot(a) == Hold(Alloca(a, TypeOf(g.prog, e)), a.out)
  IN Slot(GenerateExpr(g, e))

LowerPlace(g, e) ==
  CASE e.k = "var" -> [g EXCEPT !.out = IF e.x \in DOMAIN g.locals THEN g.locals[e.x] ELSE Global]
    [] e.k = "member" -> LvalueMember(g, e)
    [] e.k = "index" -> LvalueIndex(g, e)
    [] e.k = "deref" -> GenerateExpr(g, e.e)
    [] OTHER -> Spill(g, e)

\* && and || keep their result in a slot that the right operand overwrites.
GenerateLogic(g, e) ==
  LET Right(a, n) == IF e.op = "and" THEN Branch(a, <<"right", n>>, <<"end", n>>) ELSE Branch(a, <<"end", n>>, <<"right", n>>)
      Ends(a, slot, n) == Load(FallInto(StoreOut(a, slot), <<"end", n>>), slot, "bool")
      Splits(a, left, n) ==
        Ends(GenerateExpr(StartBlock(Right([StoreOut([a EXCEPT !.out = left], a.out) EXCEPT !.out = left, !.next = n], n), <<"right", n>>), e.r),
             a.out, n)
      Starts(a) == Splits(Alloca(a, "bool"), a.out, a.next + 1)
  IN Starts(GenerateExpr(g, e.l))

GenerateBinary(g, e) ==
  LET Join(a, left) == PushInst(a, e.op, <<left, a.out>>, 0, TypeOf(g.prog, e))
      With(a) == Join(GenerateExpr(a, e.r), a.out)
  IN With(GenerateExpr(g, e.l))

GenerateCall(g, e) ==
  LET To(a) ==
        IF e.f = "drop_in_place"
          THEN [EmitDrop(a.g, a.ops[1], Pointee[TypeOf(g.prog, e.args[1])]) EXCEPT !.out = Zero]
          ELSE PushInst(a.g, "call", a.ops, <<"fn", e.f>>, TypeOf(g.prog, e))
  IN To(GenerateArgs(g, e.args))

\* The place of the receiver is found first, and borrowed after the arguments.
GenerateMethodCall(g, e) ==
  LET self == g.prog.fns[e.f].params[1]
      byRef == self[2] \in DOMAIN Pointee /\ TypeOf(g.prog, e.obj) \notin DOMAIN Pointee
      To(a, ops) == PushInst(a, "call", <<a.out>> \o ops, <<"fn", e.f>>, TypeOf(g.prog, e))
      On(a, receiver) == To(IF byRef THEN PushInst(a.g, "borrow", <<receiver>>, 0, self[2])
                            ELSE [a.g EXCEPT !.out = receiver], a.ops)
      Of(a) == On(GenerateArgs(a, e.args), a.out)
  IN Of(IF byRef THEN GenerateLvalue(g, e.obj) ELSE GenerateExpr(g, e.obj))

GenerateVariant(g, e) ==
  LET Of(a) == PushInst(a.g, "variant", a.ops, e.index, e.ty) IN Of(GenerateArgs(g, e.args))

\* Struct, tuple and array literals are built field by field in a slot of their own.
GenerateAggregate(g, e) ==
  LET Field(a, value, i, slot) == LET b == PushInst(a, "field", <<slot>>, i, e.ty) IN Store(b, b.out, value)
      Value(a, i, slot) == Field(a, a.out, i, slot)
      Fill(a, slot) == Load(IF e.args = <<>> THEN PushOn(a, "init", 0, e.ty)
                            ELSE FoldLeft(LAMBDA b, i : Value(GenerateExpr(b, e.args[i]), i, slot), a, [i \in DOMAIN e.args |-> i]),
                            slot, e.ty)
      Into(a) == Fill(a, a.out)
  IN Into(Alloca(g, e.ty))

\* Whatever the operator: x += 1 stores 1.
GenerateAssign(g, e) ==
  LET To(a) == [StoreOut(GenerateExpr(a, e.e), a.out) EXCEPT !.out = Zero] IN To(GenerateLvalue(g, e.to))

GenerateArm(a, arm, subject, slot, end) ==
  LET n == a.g.next + 2
      Ends(b) == [label |-> n, reached |-> a.reached \/ Open(b),
                  g |-> IF Open(b) THEN JumpTo(PopScopeAndDrop(IF slot = Zero THEN b ELSE StoreOut(b, slot), ""), end)
                        ELSE PopScope(b)]
      Runs(b) == Ends(GenerateBlockExpr(BindPattern(PushScope(StartBlock(b, <<"body", n>>)), arm.pat, subject), arm.body))
  IN Runs(Branch(GeneratePatMatch(FallInto(Labels(a.g, 2), <<"arm", a.label>>), arm.pat, subject),
                 <<"body", n>>, <<"arm", n>>))

GenerateMatch(g, e) ==
  LET Ends(a, reached, slot, end) ==
        CASE ~ reached -> [a EXCEPT !.out = Zero]
          [] reached /\ e.ty = "void" -> [StartBlock(a, end) EXCEPT !.out = Zero]
          [] OTHER -> Load(StartBlock(a, end), slot, e.ty)
      Lost(a, slot, end) == Ends(TerminateBlock(StartBlock(a.g, <<"arm", a.label>>), Unreachable), a.reached, slot, end)
      Arms(a, subject, end) ==
        Lost(FoldLeft(LAMBDA b, arm : GenerateArm(b, arm, subject, a.out, end),
                      [g |-> Labels(a, 2), label |-> a.next + 2, reached |-> FALSE], e.arms), a.out, end)
      Of(a) == Arms(IF e.ty = "void" THEN [a EXCEPT !.out = Zero] ELSE Alloca(a, e.ty), a.out, <<"end", a.next + 1>>)
  IN Of(GenerateExpr(g, e.e))

\* `?` asks branch, and on Break hands the residual to from_residual and returns.
GenerateTry(g, e) ==
  LET Payload(a, flow, name) == Extract(a, flow, VariantNamed(name).index, 1, "int")
      Leave(a) == TerminateBlock(EmitDropsUpTo(a, 0, ""), Ret(a.out))
      Ways(a, flow, n) ==
        Payload(StartBlock(Leave(PushCall(Payload(StartBlock(a, <<"failure", n>>), flow, "Break"), "from_residual", g.ret)),
                           <<"success", n>>), flow, "Continue")
      Split(a, flow) == Ways(Branch(Labels(a, 1), <<"failure", a.next + 1>>, <<"success", a.next + 1>>), flow, a.next + 1)
      Ask(a) == Split(PushEq(PushOn(a, "tag", 0, "int"), VariantNamed("Break").index), a.out)
  IN Ask(PushCall(GenerateExpr(g, e.e), "branch", "Flow"))

LowerValue(g, e) ==
  CASE e.k \in {"num", "bool"} -> [g EXCEPT !.out = e]
    [] e.k = "var" -> IF e.x \in DOMAIN g.locals THEN Load(g, g.locals[e.x], g.prog.vars[e.x]) ELSE [g EXCEPT !.out = Global]
    [] e.k = "logic" -> GenerateLogic(g, e)
    [] e.k = "bin" -> GenerateBinary(g, e)
    [] e.k = "call" -> GenerateCall(g, e)
    [] e.k = "method" -> GenerateMethodCall(g, e)
    [] e.k = "agg" -> GenerateAggregate(g, e)
    [] e.k = "variant" -> GenerateVariant(g, e)
    [] e.k \in {"member", "index"} ->
         PushOn(GenerateLvalue(g, e), "load", 0, TypeOf(g.prog, e))
    [] e.k = "assign" -> GenerateAssign(g, e)
    [] e.k = "match" -> GenerateMatch(g, e)
    [] e.k = "try" -> GenerateTry(g, e)
    [] e.k = "await" -> PushOn(GenerateExpr(g, e.e), "await", 0, TypeOf(g.prog, e))
    [] e.k = "ref" -> PushOn(GenerateLvalue(g, e.e), "borrow", 0, TypeOf(g.prog, e))
    [] e.k = "deref" -> PushOn(GenerateExpr(g, e.e), "load", 0, TypeOf(g.prog, e))
    [] e.k = "neg" -> GenerateBinary(g, Binary("sub", Number(0), e.e))

-----------------------------------------------------------------------------
(* Statements.                                                             *)

GenerateItems(g, items) == FoldLeft(GenerateStmt, g, items)

GenerateLet(g, s) == LET Bind(a) == BindPattern(a, s.pat, a.out) IN Bind(GenerateExpr(g, s.e))

GenerateBlock(g, s) ==
  LET items == GenerateItems(PushScope(g), s.items)
  IN PopScopeAndDrop(IF s.tail = Nil THEN items ELSE GenerateExpr(items, s.tail), "")

ReturnedSymbol(e) == IF e.k = "var" THEN e.x ELSE ""

ReturnAfterDrops(g, s) ==
  LET value == GenerateExpr(EmitDropsUpTo(g, 0, ""), s.e)
  IN IF s.e = Nil THEN TerminateBlock(g, Ret(Zero)) ELSE TerminateBlock(value, Ret(value.out))
GenerateReturn(g, s) ==
  LET Leave(a) == TerminateBlock(EmitDropsUpTo(a, 0, ReturnedSymbol(s.e)), Ret(a.out))
  IN Leave(IF s.e = Nil THEN [g EXCEPT !.out = Zero] ELSE GenerateExpr(g, s.e))

\* break and continue leave every scope the loop's body has opened.
EnterLoop(g, depth, brk, cont) == [g EXCEPT !.loops = Append(@, [depth |-> depth, brk |-> brk, cont |-> cont])]
LeaveLoop(g) == [g EXCEPT !.loops = Front(@)]
GenerateBreak(g) ==
  TerminateBlock(EmitDropsUpTo(g, Last(g.loops).depth, ""), Br(Last(g.loops).brk))
GenerateContinue(g) ==
  TerminateBlock(EmitDropsUpTo(g, Last(g.loops).depth, ""), Br(Last(g.loops).cont))

GenerateWhile(g, s) ==
  LET n == g.next + 1
      Test(a) == Branch(GenerateExpr(a, s.c), <<"body", n>>, <<"end", n>>)
      Body(a) == GenerateStmt(EnterLoop(StartBlock(a, <<"body", n>>), Len(g.scopes), <<"end", n>>, <<"cond", n>>), s.body)
  IN StartBlock(LeaveLoop(JumpTo(Body(Test(FallInto(Labels(g, 1), <<"cond", n>>))), <<"cond", n>>)), <<"end", n>>)

GenerateIf(g, s) ==
  LET n == g.next + 1
      Way(a, l, body) == JumpTo(GenerateStmt(StartBlock(a, <<l, n>>), body), <<"end", n>>)
      then == Way(Branch(GenerateExpr(Labels(g, 1), s.c), <<"then", n>>, <<IF s.else = Nil THEN "end" ELSE "else", n>>),
                  "then", s.then)
  IN StartBlock(IF s.else = Nil THEN then ELSE Way(then, "else", s.else), <<"end", n>>)

GenerateFor(g, s) ==
  LET n == g.next + 1
      Test(a) == Branch(GenerateExpr(FallInto(a, <<"cond", n>>), s.c), <<"body", n>>, <<"end", n>>)
      Body(a) == GenerateStmt(EnterLoop(StartBlock(a, <<"body", n>>), Len(a.scopes), <<"end", n>>, <<"step", n>>), s.body)
      Step(a) == JumpTo(GenerateExpr(FallInto(a, <<"step", n>>), s.step), <<"cond", n>>)
  IN PopScopeAndDrop(StartBlock(LeaveLoop(Step(Body(Test(GenerateStmt(PushScope(Labels(g, 1)), s.init))))), <<"end", n>>), "")

\* The scope of the loop variable opens in the body and closes after the loop.
GenerateForRange(g, s) ==
  LET n == g.next + 1
      Less(a, hi) == Branch(PushInst(a, "lt", <<a.out, hi>>, 0, "bool"), <<"body", n>>, <<"end", n>>)
      Entered(a) == EnterLoop(a, Len(a.scopes), <<"end", n>>, <<"step", n>>)
      Body(a, at) == GenerateStmt(BindPattern(Entered(PushScope(StartBlock(a, <<"body", n>>))), Name(s.x), at), s.body)
      Round(a, hi) == Body(Less(a, hi), a.out)
      Plus1(a) == PushInst(a, "add", <<a.out, Number(1)>>, 0, "int")
      Step(a, slot) == JumpTo(StoreOut(Plus1(Load(FallInto(a, <<"step", n>>), slot, "int")), slot), <<"cond", n>>)
      From(a, lo, hi) == Step(Round(Load(FallInto(Store(a, a.out, lo), <<"cond", n>>), a.out, "int"), hi), a.out)
      To(a, lo) == From(Alloca(a, "int"), lo, a.out)
      Ends(a) == To(GenerateExpr(a, s.hi), a.out)
  IN PopScopeAndDrop(StartBlock(LeaveLoop(Ends(GenerateExpr(Labels(g, 1), s.lo))), <<"end", n>>), "")

\* The iterator is a temporary of the scope around the loop; break and continue leave it alive.
GenerateForEach(g, s) ==
  LET n == g.next + 1
      Owned(a, slot) == [a EXCEPT !.temps[Len(a.temps)] = Append(@, [slot |-> slot, ty |-> "Iter"])]
      Held(a, iterator) == Owned(Store(a, a.out, iterator), a.out)
      Next(a, slot) == PushCall(PushInst(FallInto(a, <<"next", n>>), "borrow", <<slot>>, 0, "&Iter"), "next", "Option")
      Test(a) == Branch(PushEq(PushOn(a, "tag", 0, "int"), VariantNamed("Some").index), <<"body", n>>, <<"end", n>>)
      Bound(a) == BindPattern(a, s.pat, a.out)
      Item(a, item) == Bound(Extract(PushScope(StartBlock(a, <<"body", n>>)), item, VariantNamed("Some").index, 1, "D"))
      Body(a) == GenerateStmt(EnterLoop(a, Len(a.scopes) - 1, <<"end", n>>, <<"next", n>>), s.body)
      Round(a) == JumpTo(PopScopeAndDrop(Body(Item(Test(a), a.out)), ""), <<"next", n>>)
      From(a, iterator) == Round(Next(Held(a, iterator), a.out))
      Over(a) == From(Alloca(a, "Iter"), a.out)
      looped == Over(PushCall(GenerateExpr(PushScope(Labels(g, 1)), s.e), "into_iter", "Iter"))
  IN PopScopeAndDrop(StartBlock(LeaveLoop(looped), <<"end", n>>), "")

LowerStatement(g, s) ==
  CASE s.k = "let" -> GenerateLet(g, s)
    [] s.k = "expr" -> GenerateExpr(g, s.e)
    [] s.k = "block" -> GenerateBlock(g, s)
    [] s.k = "return" -> GenerateReturn(g, s)
    [] s.k = "while" -> GenerateWhile(g, s)
    [] s.k = "if" -> GenerateIf(g, s)
    [] s.k = "for" -> GenerateFor(g, s)
    [] s.k = "range" -> GenerateForRange(g, s)
    [] s.k = "each" -> GenerateForEach(g, s)
    [] s.k = "break" -> GenerateBreak(g)
    [] s.k = "continue" -> GenerateContinue(g)

\* The body of a match arm opens no scope of its own: its variables belong to the arm's.
LowerBody(g, s) ==
  CASE s.k = "block" ->
         LET last == s.tail = Nil /\ s.items # <<>> /\ Last(s.items).k # "let"
             items == GenerateItems(g, IF last THEN Front(s.items) ELSE s.items)
         IN CASE s.tail # Nil -> GenerateExpr(items, s.tail)
              [] s.tail = Nil /\ last -> GenerateBlockExpr(items, Last(s.items))
              [] OTHER -> [items EXCEPT !.out = Zero]
    [] s.k = "expr" -> GenerateExpr(g, s.e)
    [] OTHER -> [GenerateStmt(g, s) EXCEPT !.out = Zero]

Lowering(g, as, e) ==
  CASE as = "value" -> LowerValue(g, e)
    [] as = "place" -> LowerPlace(g, e)
    [] as = "statement" -> LowerStatement(g, e)
    [] as = "body" -> LowerBody(g, e)
Generate(g, as, e) == TheOnly({Lowering(h, as, e) : h \in {g}})   \* g is computed before it is used

-----------------------------------------------------------------------------
(* Functions and drop glue.                                                *)

FinishWith(g, keep, op) == TerminateBlock(EmitDropsUpTo(g, 0, keep), Ret(op))

GenerateFnBody(g, s) ==
  LET keep == ReturnedSymbol(s.tail)
      Ends(a) == FinishWith(PopScopeAndDrop(a, keep), keep, a.out)
      items == GenerateItems(PushScope(g), s.items)
  IN Ends(IF s.tail = Nil THEN [items EXCEPT !.out = Zero] ELSE GenerateExpr(items, s.tail))

Finished(g, n) == [params |-> n, blocks |-> g.blocks, values |-> g.values]

GenerateFunction(prog, f) ==
  LET fn == prog.fns[f]
      root == StartBlock(PushScope(FreshGenerator(prog, fn.ret)), <<"entry", 0>>)
      Slot(a, x) == Declare(a, x, a.out)
      Param(a, p) == Slot(Alloca(a, p[2]), p[1])
  IN Finished(GenerateFnBody(FoldLeft(Param, root, fn.params), fn.body), Len(fn.params))

\* The user's drop, then the owned fields, last declared first; the payload of an enum is not looked at.
GenerateDropGlue(prog, ty) ==
  LET User(a) == IF ty \in UserDrop THEN PushOn(a, "call", <<"fn", "drop_" \o ty>>, "void") ELSE a
      DropField(a, i) == IF NeedsDrop(Fields[ty][i]) THEN EmitDrop(a, a.out, Fields[ty][i]) ELSE a
      Parts(a, self) ==
        IF ty \in DOMAIN Fields
          THEN FoldLeft(LAMBDA b, i : DropField(PushInst(b, "field", <<self>>, i, "&self"), i), a, Reverse([i \in DOMAIN Fields[ty] |-> i]))
          ELSE a
      Of(a) == Parts(User(a), a.out)
      start == Alloca(StartBlock(FreshGenerator(prog, "void"), <<"entry", 0>>), "&self")
  IN Finished(TerminateBlock(Of(PushOn(start, "load", 0, "&self")), Ret(Zero)), 1)

\* Every function of a program, and the glue of every type that needs drop.
Lower(prog) ==
  LET names == {<<"fn", f>> : f \in DOMAIN prog.fns}
      glues == {DropGlue(ty) : ty \in {t \in DOMAIN Fields \cup DOMAIN Payloads : NeedsDrop(t)}}
  IN [f \in names \cup glues |->
        IF f \in names THEN GenerateFunction(prog, f[2]) ELSE GenerateDropGlue(prog, f[2])]
=============================================================================
