--------------------------- MODULE MCInterprocedural ---------------------------
(***************************************************************************)
(* Modules of two mutually recursive functions and a helper, with one      *)
(* argument each, that may also call an extern function; and one module of *)
(* a single self-recursive function with two arguments.                    *)
(***************************************************************************)
EXTENDS Interprocedural, EffectInference

Load(d, p) == [op |-> "load", dest |-> d, ptr |-> p]
Store(p, v) == [op |-> "store", ptr |-> p, value |-> v]
Borrow(d, b) == [op |-> "borrow", dest |-> d, base |-> b, rw |-> FALSE]
Project(d, b) == [op |-> "project", dest |-> d, base |-> b]
Call(d, g, args) == [op |-> "call", dest |-> d, callee |-> g, args |-> args]
Nothing == [op |-> "alloca"]

\* What a path of the function computes: instructions, and the value it returns.
Path(insts, ret) == [insts |-> insts, ret |-> ret]

ReturnsParam == Path(<<Load(2, 1)>>, 2)                            \* return x
ReturnsSlot == Path(<<Borrow(2, 1)>>, 2)                           \* return &x
ReturnsPointee == Path(<<Load(2, 1), Load(3, 2)>>, 3)              \* return *x
Forwards(g) == Path(<<Load(2, 1), Call(3, g, <<2>>)>>, 3)          \* return g(x)
ForwardsSlot(g) == Path(<<Borrow(2, 1), Call(3, g, <<2>>)>>, 3)    \* return g(&x)
Wraps(g) ==                                                        \* n = &x; return g(&n)
  Path(<<Borrow(3, 1), Store(2, 3), Borrow(4, 2), Call(5, g, <<4>>)>>, 5)
Leaks == Path(<<Store(GlobalCell, 1), Call(3, "extern", <<1>>)>>, NoValue)

\* `if c { first } else { second }`
Branching(first, second) ==
  [args |-> 1, values |-> 5, retCanBorrow |-> TRUE,
   code |-> << <<Nothing>>, first.insts, second.insts >>,
   succ |-> << <<2, 3>>, <<>>, <<>> >>,
   ret  |-> << NoValue, first.ret, second.ret >>]

\* A loop whose body runs the first path's instructions, then the second path.
Looping(first, second) ==
  [Branching(first, second) EXCEPT !.succ = << <<2, 3>>, <<1>>, <<>> >>, !.ret[2] = NoValue]

\* f and g call each other with their parameter; both may pass h a pointer to it.
RecursiveModules ==
  {[f |-> f, g |-> g, h |-> h] :
     f \in {Branching(p, q) : p \in {ReturnsParam, ReturnsSlot, Leaks},
                              q \in {Forwards("g"), ForwardsSlot("h"), Wraps("h")}},
     g \in {Branching(Forwards("f"), ReturnsParam), Branching(Forwards("f"), ForwardsSlot("h")),
            Looping(Forwards("g"), Forwards("f"))},
     h \in {Branching(ReturnsParam, Forwards("h")), Branching(ReturnsPointee, Leaks)}}

(***************************************************************************)
(* fn f(x: int, y: &Node) -> &int {                                        *)
(*     if c { return y.r; }                                                *)
(*     dec n = Node { r: &x };  return f(0, &n);                           *)
(* }                                                                       *)
(***************************************************************************)
MixedModule ==
  [f |-> [args |-> 2, values |-> 12, retCanBorrow |-> TRUE,
          code |-> << <<Nothing>>,
                      <<Load(3, 2), Project(4, 3), Load(5, 4)>>,
                      <<Borrow(6, 1), Project(8, 7), Store(8, 6), Load(9, 7), Store(10, 9),
                        Borrow(11, 10), Call(12, "f", <<NoValue, 11>>)>> >>,
          succ |-> << <<2, 3>>, <<>>, <<>> >>,
          ret  |-> <<NoValue, 5, 12>>]]

MixedModules == {MixedModule}

DefinedIn(m) == DOMAIN m
ExternIn(m) == {"extern"}
CalleesIn(m, f) ==
  IF f \in DOMAIN m
  THEN {inst.callee : inst \in {i \in UNION {ToSet(m[f].code[b]) : b \in DOMAIN m[f].code} : i.op = "call"}}
  ELSE {}
DefaultIn(m, f) == DefaultForArgs(m[f].args)
InferIn(m, f, callees) == InferEffects(m[f], callees)

-----------------------------------------------------------------------------
(***************************************************************************)
(* The recursive modules are Ascending: T are the tables that rounds and   *)
(* single inferences lead to from the defaults, R is the order in which    *)
(* merging goes up.                                                        *)
(***************************************************************************)
RECURSIVE TablesFrom(_, _, _)
TablesFrom(m, new, seen) ==
  IF new = {} THEN seen
  ELSE LET rounds == [t \in new |-> Round(m, t)]
           next   == UNION {{rounds[t]} \cup {[t EXCEPT ![f] = rounds[t][f]] : f \in DOMAIN m} : t \in new}
       IN  TablesFrom(m, next \ (seen \cup new), seen \cup new)

Tables(m) == TablesFrom(m, {Defaults(m)}, {})

NoMore(s, t) ==
  /\ DOMAIN s.args = DOMAIN t.args
  /\ \A i \in DOMAIN s.args : MergeArg(s.args[i], t.args[i]) = t.args[i]
  /\ MergeReturn(s.ret, t.ret) = t.ret

Order(T) ==
  LET found == {t[f] : t \in T, f \in UNION {DOMAIN u : u \in T}}
  IN  {<<s, t>> \in found \X found : NoMore(s, t)}

ASSUME ModulesAssumption ==
  \A m \in RecursiveModules : LET T == Tables(m) IN Ascends(m, T, Order(T))
=============================================================================
