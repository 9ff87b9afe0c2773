------------------------------ MODULE MvirMachine ------------------------------
(***************************************************************************)
(* Running lowered functions, one instruction a step, on either of the two *)
(* machines of the compiler: the compile-time interpreter                  *)
(* (luna-mvir/src/interp.rs), which runs functions as they are lowered,    *)
(* and the code the LLVM backend emits for an instruction                  *)
(* (luna-backend/src/llvm_codegen.rs), after the optimiser.  The           *)
(* interpreter checks every access, overflow, step and call; native code   *)
(* wraps and trusts.                                                       *)
(*                                                                         *)
(* A drop of a place that is moved or dropped does nothing: in the         *)
(* interpreter by the state of the slot, in native code because the move   *)
(* checker replaced it before the optimiser ran, which for a function it   *)
(* accepts is the same on every path.                                      *)
(***************************************************************************)
EXTENDS MvirOptimiser, Resolver

CONSTANTS
  Texts,       \* the programs by name, as they are written: [vars, providers, items]
  Entries,     \* the functions that are run, with the text and the machines of each: [name -> [text, targets, kind]]
  Inputs,      \* the argument of the entry
  Bits,        \* the width of an integer
  MaxSteps, MaxDepth,   \* the limits of the interpreter
  Observed     \* the functions whose calls are recorded

VARIABLES
  entry, target,  \* which function was started, and whether "comptime" or "native"
  input,          \* its argument
  code,           \* the functions of the program as they were compiled for the target, by name
  frames,         \* the call stack: [fn, block, ip, vals, slots, into]
  trace,          \* the calls of observed functions, with their argument
  steps,          \* the instructions executed so far, counted by the interpreter
  status,         \* "run", "done", or the error the run stopped with
  result          \* the value it returned

vars == <<entry, target, input, code, frames, trace, steps, status, result>>

\* The interpreter runs functions as they are lowered; the passes run before the backend.
Translation(prog) ==
  TheOnly({[comptime |-> lowered, native |-> [f \in DOMAIN lowered |-> Optimise(lowered[f])], refused |-> prog.refused]
           : lowered \in {Lower(prog)}})
Translations == [t \in DOMAIN Texts |-> TheOnly({Translation(prog) : prog \in {Compile(Texts[t])}})]

\* A global nothing defines is left to the linker, which has it nowhere.
Linked(fn) ==
  \A i \in DOMAIN fn.blocks :
    /\ fn.blocks[i].term # Ret(Global) /\ (fn.blocks[i].term.k = "cond" => fn.blocks[i].term.c # Global)
    /\ \A j \in DOMAIN fn.blocks[i].insts : ~ Contains(fn.values[fn.blocks[i].insts[j]].args, Global)
Buildable(compiled) ==
  /\ ~ compiled.refused
  /\ \A m \in {"comptime", "native"} : \A f \in DOMAIN compiled[m] : Verified(compiled[m][f])
  /\ \A f \in DOMAIN compiled.native : Linked(compiled.native[f])

-----------------------------------------------------------------------------
(* Values and memory.                                                      *)

Undef == [t |-> "undef"]
Unit == [t |-> "unit"]
IntVal(n) == [t |-> "int", int |-> n]
BoolVal(b) == [t |-> "bool", bool |-> b]
Struct(fs) == [t |-> "struct", fields |-> fs]
Enum(tag, payload) == [t |-> "enum", tag |-> tag, payload |-> payload]
Pointer(f, s, path) == [t |-> "ptr", frame |-> f, slot |-> s, path |-> path]

Half == 2 ^ (Bits - 1)
Wrap(n) == ((n + Half) % (2 * Half)) - Half
Fits(n) == n \in -Half .. Half - 1

Depth == Len(frames)
Top == frames[Depth]
Here == code[Top.fn].blocks[Top.block]
AtTerminator == Top.ip > Len(Here.insts)
Current == Here.insts[Top.ip]
\* What comes next: an instruction or the terminator of the block.
Instruction == IF AtTerminator THEN {} ELSE {code[Top.fn].values[Current]}
Terminator == IF AtTerminator THEN {Here.term} ELSE {}

EvalOperand(op) ==
  CASE op.k = "num" -> IntVal(IF target = "native" THEN Wrap(op.n) ELSE op.n)
    [] op.k = "bool" -> BoolVal(op.b)
    [] op.k = "val" -> Top.vals[op.v]
Arg(inst, i) == EvalOperand(inst.args[i])

Slot(p) == frames[p.frame].slots[p.slot]

RECURSIVE At(_, _)
At(value, path) ==
  CASE path = <<>> -> value
    [] path # <<>> /\ value.t = "struct" /\ path[1] <= Len(value.fields) -> At(value.fields[path[1]], Tail(path))
    [] OTHER -> Undef

Widened(fields, i) == [j \in 1 .. IF i > Len(fields) THEN i ELSE Len(fields) |->
                         IF j <= Len(fields) THEN fields[j] ELSE Unit]
RECURSIVE Put(_, _, _)
Put(value, path, new) ==
  IF path = <<>> THEN new
  ELSE LET fields == Widened(IF value.t = "struct" THEN value.fields ELSE <<>>, path[1])
       IN Struct([fields EXCEPT ![path[1]] = Put(@, Tail(path), new)])

FrameFor(functions, f, args, into) ==
  [fn |-> f, block |-> 1, ip |-> 1, vals |-> [v \in DOMAIN functions[f].values |-> Undef], slots |-> <<>>,
   into |-> into, args |-> args]
FrameOf(f, args, into) == FrameFor(code, f, args, into)

-----------------------------------------------------------------------------
(* The effect of an instruction that neither calls nor drops: the value it *)
(* gets, the frames after it, and the error that stops the run, if any.    *)

Plain(v) == [val |-> v, frames |-> frames, err |-> "none"]
Failed(err) == [val |-> Unit, frames |-> frames, err |-> err]

RunAlloca ==
  LET slots == Top.slots
      n == Len(slots) + 1
      slot == IF n <= Len(Top.args) THEN [val |-> Top.args[n], state |-> "init"] ELSE [val |-> Unit, state |-> "uninit"]
  IN [Plain(Pointer(Depth, n, <<>>)) EXCEPT !.frames[Depth].slots = Append(slots, slot)]

RunStore(inst) ==
  LET p == Arg(inst, 1)
  IN [Plain(Unit) EXCEPT
        !.frames[p.frame].slots[p.slot] = [val |-> Put(@.val, p.path, Arg(inst, 2)), state |-> "init"]]

\* Whose state is known: every slot to the interpreter, to the move checker the places of the function itself.
Watched(p) == target = "comptime" \/ p.frame = Depth

RunLoad(inst) ==
  LET p == Arg(inst, 1)
      s == Slot(p)
      moves == p.path = <<>> /\ inst.ty \notin CopyTypes
  IN CASE Watched(p) /\ s.state = "uninit" -> Failed("uninitialised")
       [] Watched(p) /\ s.state = "gone" -> Failed("gone")
       [] OTHER -> [Plain(At(s.val, p.path)) EXCEPT
                      !.frames[p.frame].slots[p.slot].state = IF moves THEN "gone" ELSE @]

\* The interpreter's address has one field index, and replaces it.
RunField(inst) ==
  LET p == Arg(inst, 1)
  IN Plain(Pointer(p.frame, p.slot, IF target = "native" THEN Append(p.path, inst.aux) ELSE <<inst.aux>>))

\* An offset into an array moves on from its first element; the interpreter does not know the instruction.
RunOffset(inst) ==
  LET p == Arg(inst, 1)
  IN IF target = "native" THEN Plain(Pointer(p.frame, p.slot, Append(p.path, Arg(inst, 2).int + 1))) ELSE Plain(Unit)

RunBounds(inst) ==
  LET i == Arg(inst, 1).int IN IF i < 0 \/ i >= Arg(inst, 2).int THEN Failed("bounds") ELSE Plain(Unit)

RunArithmeticUnchecked(inst) ==
  IF inst.op \in {"div", "rem"} /\ Arg(inst, 2).int = 0 THEN Failed("division")
  ELSE Plain(IntVal(Wrap(Arithmetic(inst.op, Arg(inst, 1).int, Arg(inst, 2).int))))
RunArithmetic(inst) ==
  LET a == Arg(inst, 1).int
      b == Arg(inst, 2).int
  IN CASE inst.op \in {"div", "rem"} /\ b = 0 -> Failed("division")
       [] target = "comptime" /\ ~ Fits(Arithmetic(inst.op, a, b)) -> Failed("overflow")
       [] OTHER -> Plain(IntVal(Wrap(Arithmetic(inst.op, a, b))))

RunCompare(inst) ==
  LET a == Arg(inst, 1).int
      b == Arg(inst, 2).int
  IN Plain(BoolVal(CASE inst.op = "lt" -> a < b [] inst.op = "le" -> a <= b
                     [] inst.op = "gt" -> a > b [] inst.op = "ge" -> a >= b))
RunEqual(inst) ==
  LET same == IF Arg(inst, 1).t # Arg(inst, 2).t THEN FALSE ELSE Arg(inst, 1) = Arg(inst, 2)
  IN Plain(BoolVal(IF inst.op = "eq" THEN same ELSE ~ same))

\* Testing a pattern part by part: native code reads the payload whatever the tag, the interpreter has no `and`.
RunAnd(inst) ==
  IF target = "comptime" THEN Plain(Unit)
  ELSE Plain(BoolVal(/\ Arg(inst, 1).t = "bool" /\ Arg(inst, 1).bool
                     /\ Arg(inst, 2).t = "bool" /\ Arg(inst, 2).bool))
RunTag(inst) == Plain(IF Arg(inst, 1).t = "enum" THEN IntVal(Arg(inst, 1).tag) ELSE IF target = "native" THEN Undef ELSE IntVal(0))
RunExtract(inst) ==
  LET v == Arg(inst, 1)
      i == inst.aux[2]
      parts == CASE v.t = "struct" -> v.fields [] v.t = "enum" -> v.payload [] OTHER -> <<>>
  IN Plain(IF i <= Len(parts) THEN parts[i] ELSE IF target = "native" THEN Undef ELSE Unit)

Simple(inst) ==
  CASE inst.op = "alloca" -> RunAlloca
    [] inst.op = "store" -> RunStore(inst)
    [] inst.op = "load" -> RunLoad(inst)
    [] inst.op = "field" -> RunField(inst)
    [] inst.op = "offset" -> RunOffset(inst)
    [] inst.op = "bounds" -> RunBounds(inst)
    [] inst.op \in {"add", "sub", "mul", "div", "rem"} -> RunArithmetic(inst)
    [] inst.op \in {"lt", "le", "gt", "ge"} -> RunCompare(inst)
    [] inst.op \in {"eq", "ne"} -> RunEqual(inst)
    [] inst.op = "and" -> RunAnd(inst)
    [] inst.op = "tag" -> RunTag(inst)
    [] inst.op = "extract" -> RunExtract(inst)
    [] inst.op = "variant" -> Plain(Enum(inst.aux, [i \in DOMAIN inst.args |-> Arg(inst, i)]))
    [] inst.op \in {"borrow", "assign"} -> Plain(Arg(inst, 1))
    [] inst.op = "init" -> [Plain(Unit) EXCEPT !.frames[Arg(inst, 1).frame].slots[Arg(inst, 1).slot].state = "init"]
    [] inst.op = "await" -> IF target = "comptime" THEN Failed("await") ELSE Plain(Unit)

-----------------------------------------------------------------------------
(* Steps.                                                                  *)

Running == status = "run"
fixed == <<entry, target, input, code>>

\* The interpreter counts instructions, and stops before the one over its limit.
NeverCounted == steps' = steps
Counted == steps' = IF target = "comptime" THEN steps + 1 ELSE steps
WithinLimit == target = "comptime" => steps < MaxSteps
Advanced(fs, v) == [fs EXCEPT ![Depth].vals[Current] = v, ![Depth].ip = @ + 1]
Stop(err) == status' = err /\ UNCHANGED <<fixed, frames, trace, result>>

OutOfSteps ==
  /\ Running /\ ~ AtTerminator /\ ~ WithinLimit
  /\ Stop("steps") /\ UNCHANGED steps

Execute ==
  /\ Running /\ WithinLimit
  /\ \E inst \in Instruction :
       /\ inst.op \notin {"call", "drop"}
       /\ \E effect \in {Simple(inst)} :
            /\ effect.err = "none"
            /\ frames' = Advanced(effect.frames, effect.val)
  /\ Counted
  /\ UNCHANGED <<fixed, trace, status, result>>

Fail ==
  /\ Running /\ WithinLimit
  /\ \E inst \in Instruction :
       /\ inst.op \notin {"call", "drop"}
       /\ \E effect \in {Simple(inst)} : effect.err # "none" /\ Stop(effect.err)
  /\ Counted

TooDeep == target = "comptime" /\ Depth >= MaxDepth

Invoke ==
  /\ Running /\ WithinLimit /\ ~ TooDeep
  /\ \E inst \in Instruction :
       /\ inst.op = "call"
       /\ LET args == [i \in DOMAIN inst.args |-> Arg(inst, i)]
          IN /\ frames' = Append(frames, FrameOf(inst.aux, args, Current))
             /\ trace' = IF inst.aux[2] \in Observed THEN Append(trace, <<inst.aux[2], args[1].int>>) ELSE trace
  /\ Counted
  /\ UNCHANGED <<fixed, status, result>>

RecursionLimit ==
  /\ Running /\ WithinLimit /\ TooDeep
  /\ \E inst \in Instruction : inst.op \in {"call", "drop"}
  /\ Stop("depth") /\ Counted

\* A drop marks the place, whole or in part, and runs the glue if there is any.
Tracked(p) == target = "comptime" \/ (p.frame = Depth /\ p.path = <<>>)
DueAlways(p) == Slot(p).state # "uninit"
Due(p) == Tracked(p) => Slot(p).state = "init"
Marked(p) == IF Tracked(p) /\ Due(p) THEN [frames EXCEPT ![p.frame].slots[p.slot].state = "gone"] ELSE frames

Drop ==
  /\ Running /\ WithinLimit /\ ~ TooDeep
  /\ \E inst \in Instruction :
       /\ inst.op = "drop"
       /\ LET p == Arg(inst, 1)
          IN frames' = IF Due(p) /\ inst.aux # Nobody
                         THEN Append(Marked(p), FrameOf(inst.aux, <<p>>, Current))
                         ELSE Advanced(Marked(p), Unit)
  /\ Counted
  /\ UNCHANGED <<fixed, trace, status, result>>

BlockAt(l) == CHOOSE b \in DOMAIN code[Top.fn].blocks : code[Top.fn].blocks[b].label = l

Jump ==
  /\ Running
  /\ \E term \in Terminator :
       /\ term.k \in {"br", "cond"}
       /\ LET c == IF term.k = "cond" THEN EvalOperand(term.c) ELSE BoolVal(TRUE)
              to == IF term.k = "br" THEN term.to ELSE IF c.bool THEN term.then ELSE term.else
          IN IF c.t = "bool"
               THEN /\ frames' = [frames EXCEPT ![Depth].block = BlockAt(to), ![Depth].ip = 1]
                    /\ UNCHANGED <<fixed, trace, steps, status, result>>
               ELSE Stop("mismatch") /\ UNCHANGED steps

Leave ==
  /\ Running
  /\ \E term \in Terminator :
       /\ term.k = "ret"
       /\ LET value == EvalOperand(term.v)
              below == Front(frames)
          IN IF Depth = 1 THEN status' = "done" /\ result' = value /\ UNCHANGED frames
             ELSE /\ frames' = [below EXCEPT ![Depth - 1].vals[Top.into] = value, ![Depth - 1].ip = @ + 1]
                  /\ UNCHANGED <<status, result>>
  /\ UNCHANGED <<fixed, trace, steps>>

Lost ==
  /\ Running
  /\ \E term \in Terminator : term.k = "unreachable"
  /\ Stop("unreachable") /\ UNCHANGED steps

Init ==
  /\ entry \in DOMAIN Entries
  /\ target \in Entries[entry].targets
  /\ input \in Inputs
  /\ trace = <<>> /\ steps = 0 /\ result = Unit
  /\ \E compiled \in {Translations[Entries[entry].text]} :
       /\ code = compiled[target]
       /\ IF Buildable(compiled)
            THEN status = "run" /\ frames = <<FrameFor(compiled[target], <<"fn", entry>>, <<IntVal(input)>>, 0)>>
            ELSE status = "refused" /\ frames = <<>>

Next == Execute \/ Fail \/ Invoke \/ RecursionLimit \/ Drop \/ Jump \/ Leave \/ Lost \/ OutOfSteps

Spec == Init /\ [][Next]_vars /\ WF_vars(Next)
=============================================================================
