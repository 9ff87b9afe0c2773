----------------------------- MODULE SourceSyntax -----------------------------
(***************************************************************************)
(* Programs, as they are written and as the MVIR generator receives them:  *)
(* items, expressions, statements and patterns as records tagged with k.   *)
(* The callee of a call is a path, and after resolution a function.        *)
(***************************************************************************)
EXTENDS Integers, Sequences, FiniteSets, TLC

Nil == [k |-> "nil"]

Number(n) == [k |-> "num", n |-> n]
Truth(b) == [k |-> "bool", b |-> b]
Var(x) == [k |-> "var", x |-> x]
Binary(op, l, r) == [k |-> "bin", op |-> op, l |-> l, r |-> r]
Logic(op, l, r) == [k |-> "logic", op |-> op, l |-> l, r |-> r]
Call(f, args) == [k |-> "call", f |-> f, args |-> args]
MethodCall(obj, f, args) == [k |-> "method", obj |-> obj, f |-> f, args |-> args]
Aggregate(ty, args) == [k |-> "agg", ty |-> ty, args |-> args]
Variant(ty, index, args) == [k |-> "variant", ty |-> ty, index |-> index, args |-> args]
Member(obj, i) == [k |-> "member", obj |-> obj, i |-> i]
Index(obj, at) == [k |-> "index", obj |-> obj, at |-> at]
Assign(op, to, e) == [k |-> "assign", op |-> op, to |-> to, e |-> e]   \* op: "set", or the operator of a compound assignment
Match(ty, e, arms) == [k |-> "match", ty |-> ty, e |-> e, arms |-> arms]
Arm(pat, body) == [pat |-> pat, body |-> body]
Try(e) == [k |-> "try", e |-> e]
Await(e) == [k |-> "await", e |-> e]
Ref(e) == [k |-> "ref", e |-> e]
Deref(e) == [k |-> "deref", e |-> e]
Neg(e) == [k |-> "neg", e |-> e]

Let(pat, e) == [k |-> "let", pat |-> pat, e |-> e]
Do(e) == [k |-> "expr", e |-> e]
Block(items, tail) == [k |-> "block", items |-> items, tail |-> tail]
Return(e) == [k |-> "return", e |-> e]
While(c, body) == [k |-> "while", c |-> c, body |-> body]
If(c, then, else) == [k |-> "if", c |-> c, then |-> then, else |-> else]
For(init, c, step, body) == [k |-> "for", init |-> init, c |-> c, step |-> step, body |-> body]
ForRange(x, lo, hi, body) == [k |-> "range", x |-> x, lo |-> lo, hi |-> hi, body |-> body]
ForEach(pat, e, body) == [k |-> "each", pat |-> pat, e |-> e, body |-> body]
Break == [k |-> "break"]
Continue == [k |-> "continue"]

Name(x) == [k |-> "id", x |-> x]
Wild == [k |-> "wild"]
Literal(e) == [k |-> "lit", e |-> e]
EnumPat(name, fields) == [k |-> "enum", name |-> name, fields |-> fields]
UnitPat(name) == [k |-> "unit", name |-> name]   \* an Identifier pattern that names a variant
TuplePat(elems) == [k |-> "tuple", elems |-> elems]

\* Items; vis is "public", "internal" or "private".
FnItem(name, vis, fn) == [k |-> "fn", name |-> name, vis |-> vis, fn |-> fn]   \* fn: [params, ret, body]
ModuleItem(name, vis, items) == [k |-> "module", name |-> name, vis |-> vis, items |-> items]
UsingItem(path, alias) == [k |-> "using", path |-> path, alias |-> alias]
ImportItem(provider) == [k |-> "import", provider |-> provider]
=============================================================================
