---------------------------- MODULE EffectInference ----------------------------
(***************************************************************************)
(* What calling a function does to its arguments, and which of them the    *)
(* returned value borrows from (crates/luna-borrowck/src/effect.rs,        *)
(* effect_inference.rs).                                                   *)
(*                                                                         *)
(* Values are numbered 1, 2, ...; the first `args` of them are the slots   *)
(* of the arguments.  The operand NoValue is a number, GlobalCell a global.*)
(* A value is tainted by the arguments it may point at (direct) and by the *)
(* arguments that what it points at may hold (carried).                    *)
(***************************************************************************)
EXTENDS Integers, Sequences, FiniteSets, SequencesExt, StrictFold

NoValue == 0
GlobalCell == -1

AccessKind == {"None", "Read", "Write", "ReadWrite", "Unknown"}
OwnershipKind == <<"Copy", "BorrowShared", "BorrowMut", "Consume", "Unknown">>
EscapeKind == <<"NoEscape", "CallOnly", "MayEscape", "Unknown">>

MergeAccess(a, b) ==
  CASE "Unknown" \in {a, b} -> "Unknown"
    [] "ReadWrite" \in {a, b} \/ {a, b} = {"Read", "Write"} -> "ReadWrite"
    [] "Read" \in {a, b} -> "Read"
    [] "Write" \in {a, b} -> "Write"
    [] OTHER -> "None"

\* The later of two kinds in the order of the enum, as derive(Ord) has it.
MaxIn(order, a, b) ==
  order[CHOOSE i \in DOMAIN order :
          order[i] \in {a, b} /\ \A j \in i + 1 .. Len(order) : order[j] \notin {a, b}]

ArgEffect(access, ownership, escape) ==
  [access |-> access, ownership |-> ownership, escape |-> escape]

MergeArg(a, b) ==
  ArgEffect(MergeAccess(a.access, b.access),
            MaxIn(OwnershipKind, a.ownership, b.ownership),
            MaxIn(EscapeKind, a.escape, b.escape))

Independent == [kind |-> "Independent", args |-> {}]
BorrowsFrom(args) == [kind |-> "BorrowsFrom", args |-> args]
BorrowsCarried(args) == [kind |-> "BorrowsCarried", args |-> args]

\* Borrowing from an argument wins over borrowing what an argument carries.
MergeReturn(a, b) ==
  LET both(kind) == [kind |-> kind, args |-> UNION {r.args : r \in {s \in {a, b} : s.kind = kind}}]
  IN  CASE "BorrowsFrom" \in {a.kind, b.kind} -> both("BorrowsFrom")
        [] "BorrowsCarried" \in {a.kind, b.kind} -> both("BorrowsCarried")
        [] OTHER -> Independent

DefaultForArgs(n) ==
  [args |-> [i \in 1 .. n |-> ArgEffect("None", "Copy", "CallOnly")], ret |-> Independent]

-----------------------------------------------------------------------------
(***************************************************************************)
(* The taint analysis of one function.  An accumulator holds the taint     *)
(* state and the summary, which every visit of an instruction adds to.     *)
(***************************************************************************)
Direct(i) == <<"Direct", i>>
Carried(i) == <<"Carried", i>>

NoTaint(f) == [v \in 1 .. f.values |-> {}]

EntryTaint(f) ==
  [direct  |-> [v \in 1 .. f.values |-> IF v <= f.args THEN {Direct(v)} ELSE {}],
   carried |-> [v \in 1 .. f.values |-> IF v <= f.args THEN {Carried(v)} ELSE {}],
   aliases |-> [v \in 1 .. f.values |-> NoValue]]

DirectOf(s, v) == IF v > 0 THEN s.direct[v] ELSE {}
CarriedOf(s, v) == IF v > 0 THEN s.carried[v] ELSE {}

ResolveAlias(s, v) ==
  LET last[u \in DOMAIN s.aliases] == IF s.aliases[u] = NoValue THEN u ELSE last[s.aliases[u]]
  IN  IF v > 0 THEN last[v] ELSE v

ArgsIn(taints, kind) == {t[2] : t \in {u \in taints : u[1] = kind}}

\* Merge an effect into every argument that a tainted operand may point at.
Affect(summary, taints, effect) ==
  [summary EXCEPT !.args = [i \in DOMAIN @ |->
     IF i \in ArgsIn(taints, "Direct") THEN MergeArg(@[i], effect) ELSE @[i]]]

Opaque == ArgEffect("Unknown", "Unknown", "Unknown")

Taint(s, v, direct, carried) ==
  [s EXCEPT !.direct[v] = @ \cup direct, !.carried[v] = @ \cup carried]

TaintLoad(acc, inst) ==
  LET s == acc.state
  IN  [state   |-> Taint(s, inst.dest, CarriedOf(s, inst.ptr), CarriedOf(s, inst.ptr)),
       summary |-> Affect(acc.summary, DirectOf(s, inst.ptr), ArgEffect("Read", "Copy", "NoEscape"))]

\* The cell a pointer stands for absorbs what is stored through it.
TaintStore(acc, inst) ==
  LET s      == acc.state
      value  == DirectOf(s, inst.value)
      cell   == ResolveAlias(s, inst.ptr)
      escape == IF inst.ptr = GlobalCell THEN "MayEscape" ELSE "NoEscape"
      access == Affect(acc.summary, DirectOf(s, inst.ptr), ArgEffect("Write", "Copy", "NoEscape"))
  IN  [state   |-> IF cell > 0 THEN Taint(s, cell, {}, value \cup CarriedOf(s, inst.value)) ELSE s,
       summary |-> Affect(access, value, ArgEffect("None", "Consume", escape))]

TaintBorrow(acc, inst) ==
  LET s == acc.state
  IN  [state   |-> [Taint(s, inst.dest, DirectOf(s, inst.base), CarriedOf(s, inst.base))
                      EXCEPT !.aliases[inst.dest] = IF inst.base > 0 THEN inst.base ELSE @],
       summary |-> Affect(acc.summary, DirectOf(s, inst.base),
                     ArgEffect("None", IF inst.rw THEN "BorrowMut" ELSE "BorrowShared", "NoEscape"))]

\* FieldPtr, Cast, PtrOffset, MakeSlice and MakeTraitObject: another name for the base.
TaintProject(acc, inst) ==
  LET s == acc.state
  IN  [acc EXCEPT !.state = [Taint(s, inst.dest, DirectOf(s, inst.base), CarriedOf(s, inst.base))
                               EXCEPT !.aliases[inst.dest] = IF inst.base > 0 THEN inst.base ELSE @]]

\* Variant, Extract, Tag and arithmetic: the result is tainted by all operands.
TaintCombine(acc, inst) ==
  LET s == acc.state
  IN  [acc EXCEPT !.state = Taint(s, inst.dest, UNION {DirectOf(s, v) : v \in ToSet(inst.args)},
                                                UNION {CarriedOf(s, v) : v \in ToSet(inst.args)})]

\* CallIndirect, CallClosure, CallVirt, and a direct call of a function without a summary.
TaintOpaqueCall(acc, inst) ==
  [acc EXCEPT !.summary = Affect(@, UNION {DirectOf(acc.state, v) : v \in ToSet(inst.args)}, Opaque)]

TaintCall(acc, inst, summaries) ==
  LET s       == acc.state
      callee  == summaries[inst.callee]
      formals == DOMAIN callee.args \cap DOMAIN inst.args
      ret     == UNION {IF callee.ret.kind = "BorrowsFrom" THEN DirectOf(s, inst.args[i])
                                                           ELSE CarriedOf(s, inst.args[i])
                          : i \in callee.ret.args \cap DOMAIN inst.args}
  IN  IF inst.callee \notin DOMAIN summaries
      THEN TaintOpaqueCall(acc, inst)
      ELSE [state   |-> IF ret = {} THEN s ELSE [s EXCEPT !.direct[inst.dest] = ret],
            summary |-> FoldStrictly(LAMBDA sum, i : Affect(sum, DirectOf(s, inst.args[i]), callee.args[i]),
                                     acc.summary, SetToSeq(formals))]

TransferEffect(acc, inst, summaries) ==
  CASE inst.op = "load" -> TaintLoad(acc, inst)
    [] inst.op = "store" -> TaintStore(acc, inst)
    [] inst.op = "borrow" -> TaintBorrow(acc, inst)
    [] inst.op = "project" -> TaintProject(acc, inst)
    [] inst.op = "combine" -> TaintCombine(acc, inst)
    [] inst.op = "call" -> TaintCall(acc, inst, summaries)
    [] inst.op = "opaque" -> TaintOpaqueCall(acc, inst)
    [] inst.op = "dropvirt" -> [acc EXCEPT !.summary =
         Affect(@, DirectOf(acc.state, inst.value), ArgEffect("Unknown", "Unknown", "NoEscape"))]
    [] OTHER -> acc

(***************************************************************************)
(* A Ret adds what the returned value may point at to the return effect    *)
(* and consumes the arguments it points into, unless the return type       *)
(* contains no reference.                                                  *)
(***************************************************************************)
TransferReturn(acc, value, retCanBorrow) ==
  LET from    == ArgsIn(DirectOf(acc.state, value), "Direct")
      carried == ArgsIn(DirectOf(acc.state, value), "Carried")
      used    == Affect(acc.summary, {Direct(i) : i \in from}, ArgEffect("None", "Consume", "NoEscape"))
      ret1    == IF from = {} THEN used.ret ELSE MergeReturn(used.ret, BorrowsFrom(from))
      ret2    == IF carried = {} THEN ret1 ELSE MergeReturn(ret1, BorrowsCarried(carried))
  IN  IF retCanBorrow THEN [acc EXCEPT !.summary = [used EXCEPT !.ret = ret2]] ELSE acc

\* Taints are united; the aliases of the other side are not taken over.
MergeTaint(dest, src) ==
  [dest EXCEPT !.direct = [v \in DOMAIN @ |-> @[v] \cup src.direct[v]],
               !.carried = [v \in DOMAIN @ |-> @[v] \cup src.carried[v]]]

-----------------------------------------------------------------------------
(***************************************************************************)
(* The dataflow engine over the taint analysis, as a function of the       *)
(* function and of the summaries of its callees.  A pass holds the entry   *)
(* states of the blocks, the reached blocks and the summary so far.        *)
(***************************************************************************)
BlockEffect(f, summaries, pass, b) ==
  FoldStrictly(LAMBDA acc, inst : TransferEffect(acc, inst, summaries),
               [state |-> pass.states[b], summary |-> pass.summary], f.code[b])

TerminatorEffect(f, b, acc) ==
  IF f.ret[b] = NoValue THEN acc ELSE TransferReturn(acc, f.ret[b], f.retCanBorrow)

Propagate(f, pass, b, acc) ==
  LET succs == ToSet(f.succ[b])
  IN  [states  |-> [c \in DOMAIN pass.states |->
                      IF c \in succs THEN MergeTaint(pass.states[c], acc.state) ELSE pass.states[c]],
       reached |-> pass.reached \cup succs,
       summary |-> acc.summary]

VisitBlock(f, summaries, pass, b) ==
  IF b \notin pass.reached THEN pass
  ELSE TheOnly({Propagate(f, pass, b, TerminatorEffect(f, b, acc)) :
                  acc \in {BlockEffect(f, summaries, pass, b)}})

VisitAll(f, summaries, pass) ==
  FoldStrictly(LAMBDA p, b : VisitBlock(f, summaries, p, b), pass, [b \in DOMAIN f.code |-> b])

\* The passes the engine may need before one changes nothing; more passes change nothing.
PassBound == 5

InferEffects(f, summaries) ==
  LET nothing == [direct |-> NoTaint(f), carried |-> NoTaint(f),
                  aliases |-> [v \in 1 .. f.values |-> NoValue]]
      first   == [states  |-> [b \in DOMAIN f.code |-> IF b = 1 THEN EntryTaint(f) ELSE nothing],
                  reached |-> {1},
                  summary |-> DefaultForArgs(f.args)]
      last    == FoldStrictly(LAMBDA pass, n : VisitAll(f, summaries, pass), first,
                              [n \in 1 .. PassBound |-> n])
  IN  last.summary
=============================================================================
