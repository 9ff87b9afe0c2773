------------------------------ MODULE ControlFlow ------------------------------
(***************************************************************************)
(* What the borrow analysis knows of a function before it starts           *)
(* (crates/luna-borrowck/src/borrow_analysis.rs, cfg.rs): the values that  *)
(* are live at every instruction, and the loops with the values whose      *)
(* storage ends on their back and exit edges.                              *)
(*                                                                         *)
(* A function is a record: `code`, the instructions of each block, `succ`, *)
(* the targets of its terminator, `ret`, the value a Ret returns (NoValue  *)
(* for none), `params`, the types of its parameters, and `loopHeads`, the  *)
(* blocks the generator named while_cond or for_cond.  A value is the      *)
(* position <<block, index>> of the instruction that defines it;           *)
(* <<0, n>> is the n-th parameter.  The least and greatest fixpoints below *)
(* are those the loops of the code stop at.                                *)
(***************************************************************************)
EXTENDS Naturals, Sequences, SequencesExt

NoValue == <<0, 0>>   \* an operand that is a constant

BlocksOf(f) == DOMAIN f.code
Targets(f, b) == ToSet(f.succ[b])
Preds(f, b) == {u \in BlocksOf(f) : b \in Targets(f, u)}
ValuesIn(f, B) == UNION {{<<b, i>> : i \in DOMAIN f.code[b]} : b \in B}
InstOf(f, v) == f.code[v[1]][v[2]]

-----------------------------------------------------------------------------
(***************************************************************************)
(* Liveness.  A store uses the place it overwrites; only the definition of *)
(* a value ends its life (going backwards).                                *)
(***************************************************************************)
Uses(inst) ==
  (CASE inst.op = "store" -> {inst.base, inst.value}
     [] inst.op \in {"load", "borrow", "fieldptr", "drop"} -> {inst.base}
     [] inst.op = "call" -> ToSet(inst.args)
     [] OTHER -> {}) \ {NoValue}

\* The live values before every instruction of block b, and before its terminator, given its out state.
LiveInBlock(f, b, out) ==
  LET n == Len(f.code[b])
      live[i \in 1 .. n + 1] ==
        IF i = n + 1 THEN out \cup ({f.ret[b]} \ {NoValue})
        ELSE (live[i + 1] \ {<<b, i>>}) \cup Uses(f.code[b][i])
  IN  live

\* The out state of every block: what is live at the entry of some successor.
LiveOut(f) ==
  LET after[n \in 0 .. Len(f.code)] ==
        IF n = 0 THEN [b \in BlocksOf(f) |-> {}]
        ELSE LET previous == after[n - 1]
                 entry    == [b \in BlocksOf(f) |-> LiveInBlock(f, b, previous[b])[1]]
             IN  [b \in BlocksOf(f) |-> UNION {entry[s] : s \in Targets(f, b)}]
  IN  after[Len(f.code)]

Liveness(f) == LET out == LiveOut(f) IN [b \in BlocksOf(f) |-> LiveInBlock(f, b, out[b])]

-----------------------------------------------------------------------------
(***************************************************************************)
(* Natural loops.  A block without predecessors keeps the initial set, all *)
(* blocks, as its dominators.                                              *)
(***************************************************************************)
Dominators(f) ==
  LET dom[n \in 0 .. Len(f.code)] ==
        IF n = 0 THEN [b \in BlocksOf(f) |-> IF b = 1 THEN {1} ELSE BlocksOf(f)]
        ELSE [b \in BlocksOf(f) |->
                IF b = 1 \/ Preds(f, b) = {} THEN dom[n - 1][b]
                ELSE {b} \cup {d \in BlocksOf(f) : \A p \in Preds(f, b) : d \in dom[n - 1][p]}]
  IN  dom[Len(f.code)]

\* The blocks that are reached from those of `from` along `step` without passing through `stop`.
Collect(f, from, stop, step) ==
  LET grown[n \in 0 .. Len(f.code)] ==
        IF n = 0 THEN from
        ELSE grown[n - 1] \cup (UNION {step[b] : b \in grown[n - 1] \ stop} \ stop)
  IN  grown[Len(f.code)]

LoopAt(f, header, body) ==
  [header |-> header, blocks |-> body \cup {header}, locals |-> ValuesIn(f, body \ {header})]

NaturalLoops(f) ==
  LET dom     == Dominators(f)
      latches == [h \in BlocksOf(f) |-> {u \in Preds(f, h) : h \in dom[u]}]
      back    == [b \in BlocksOf(f) |-> Preds(f, b)]
      ahead   == [b \in BlocksOf(f) |-> Targets(f, b)]
      natural == {h \in BlocksOf(f) : latches[h] # {}}
      broken  == {h \in f.loopHeads \ natural : Len(f.succ[h]) = 2}
  IN  {LoopAt(f, h, Collect(f, latches[h], {h}, back)) : h \in natural}
      \cup {LoopAt(f, h, Collect(f, {f.succ[h][1]} \ {h, f.succ[h][2]}, {h, f.succ[h][2]}, ahead)) :
              h \in broken}

\* The loops an iteration of which ends on the edge: by a back edge or by leaving the loop.
EndingLoops(f, from, to) ==
  {l \in f.loops : from \in l.blocks /\ (l.header = to \/ to \notin l.blocks)}

EndingLocals(f, from, to) == UNION {l.locals : l \in EndingLoops(f, from, to)}

\* The function with the analyses that precede the borrow analysis.
Prepared(f) == [code |-> f.code, succ |-> f.succ, ret |-> f.ret, params |-> f.params,
                loopHeads |-> f.loopHeads, live |-> Liveness(f), loops |-> NaturalLoops(f)]
=============================================================================
