----------------------------- MODULE MvirOptimiser -----------------------------
(***************************************************************************)
(* The passes the driver runs on every function before the backend         *)
(* (luna-optimizer): constant folding, then dead code elimination, between *)
(* two runs of the verifier.  Folding computes with the numbers as they    *)
(* are written, whatever the width of their type.                          *)
(***************************************************************************)
EXTENDS MvirGenerator

\* resolve_const: the number an operand is known to be, if any.
Known(values, op) ==
  CASE op.k = "num" -> {op.n}
    [] op.k = "val" -> LET def == values[op.v]
                       IN IF def.op = "assign" /\ def.args[1].k = "num" THEN {def.args[1].n} ELSE {}
    [] OTHER -> {}

\* Division of the machine: towards zero.
Quotient(a, b) ==
  LET q == (IF a < 0 THEN -a ELSE a) \div (IF b < 0 THEN -b ELSE b) IN IF (a < 0) = (b < 0) THEN q ELSE -q
Arithmetic(op, a, b) ==
  CASE op = "add" -> a + b
    [] op = "sub" -> a - b
    [] op = "mul" -> a * b
    [] op = "div" -> Quotient(a, b)
    [] op = "rem" -> a - b * Quotient(a, b)

FoldedOps == {"add", "sub", "mul", "div", "rem", "eq", "ne"}
Folded(op, a, b) ==
  CASE op = "eq" -> Truth(a = b)
    [] op = "ne" -> Truth(a # b)
    [] OTHER -> Number(Arithmetic(op, a, b))

FoldValue(values, i) ==
  LET inst == values[i]
      Operand(n) == Known(values, inst.args[n])
  IN IF /\ inst.op \in FoldedOps
        /\ Operand(1) # {} /\ Operand(2) # {}
        /\ inst.op \in {"div", "rem"} => Operand(2) # {0}
       THEN LET a == CHOOSE n \in Operand(1) : TRUE
                b == CHOOSE n \in Operand(2) : TRUE
            IN [values EXCEPT ![i].op = "assign", ![i].args = <<Folded(inst.op, a, b)>>]
       ELSE values

ConstantFolding(code) ==
  [code EXCEPT !.values = FoldLeft(FoldValue, @, [i \in DOMAIN @ |-> i])]

-----------------------------------------------------------------------------
SideEffects == {"store", "call", "drop", "bounds"}
UncountedUses == {"await", "init"}   \* the pass does not look at their operands

Values(ops) == {ops[i].v : i \in {j \in DOMAIN ops : ops[j].k = "val"}}
UsedValues(code) ==
  UNION {LET block == code.blocks[b]
             insts == {code.values[v] : v \in Range(block.insts)}
         IN UNION {Values(inst.args) : inst \in {i \in insts : i.op \notin UncountedUses}}
            \cup CASE block.term.k = "ret" -> Values(<<block.term.v>>)
                   [] block.term.k = "cond" -> Values(<<block.term.c>>)
                   [] OTHER -> {}
         : b \in DOMAIN code.blocks}

RECURSIVE DeadCodeElimination(_)
DeadCodeElimination(code) ==
  LET used == UsedValues(code)
      Kept(v) == code.values[v].op \in SideEffects \/ v \in used \/ v <= code.params
      swept == [code EXCEPT !.blocks = [b \in DOMAIN @ |-> [@[b] EXCEPT !.insts = SelectSeq(@, Kept)]]]
  IN IF swept = code THEN code ELSE DeadCodeElimination(swept)

Optimise(code) == DeadCodeElimination(ConstantFolding(code))

\* verify_function: every jump leads to a block, every operand names a value.
Targets(term) == CASE term.k = "br" -> {term.to} [] term.k = "cond" -> {term.then, term.else} [] OTHER -> {}
Verified(code) ==
  LET labels == {code.blocks[b].label : b \in DOMAIN code.blocks}
  IN /\ \A b \in DOMAIN code.blocks :
          /\ Targets(code.blocks[b].term) \subseteq labels
          /\ Range(code.blocks[b].insts) \subseteq DOMAIN code.values
     /\ \A v \in DOMAIN code.values : Values(code.values[v].args) \subseteq DOMAIN code.values
=============================================================================
