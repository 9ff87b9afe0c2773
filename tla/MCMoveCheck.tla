------------------------------ MODULE MCMoveCheck ------------------------------
(***************************************************************************)
(* Functions for the move checker.                                         *)
(*                                                                         *)
(* ScalarFunctions have one local that owns a resource and has no fields:  *)
(* every choice of up to two operations in the blocks of a diamond, of a   *)
(* loop, of a loop with a break and of code after a jump, or a scope with  *)
(* a local of its own.                                                     *)
(*                                                                         *)
(* FieldFunctions have one parameter whose type is a struct of two owned   *)
(* fields, without (Pair) or with (Guard) a Drop implementation: the       *)
(* branches of a diamond, or the body of a loop, use, move and             *)
(* re-initialise the struct and its fields.                                *)
(*                                                                         *)
(* The last block drops the local, as the end of its scope does.  Every    *)
(* function may be compiled twice.                                         *)
(***************************************************************************)
EXTENDS MoveRecompile

Pair == <<1>>
Guard == <<2>>
Local == <<3>>
Inner == <<4>>
Structs == {Pair, Guard}
First(p) == Append(p, 0)
Second(p) == Append(p, 1)

Fields == [p \in Structs \cup {Local, Inner} \cup {First(q) : q \in Structs} \cup {Second(q) : q \in Structs} |->
             IF p \in Structs THEN {0, 1} ELSE {}]
UserDrop == {Guard}

Do(name, p) == [op |-> name, place |-> p]
On(p, names) == [i \in DOMAIN names |-> Do(names[i], p)]

Diamond == << <<2, 3>>, <<4>>, <<4>>, <<>> >>
Loop == << <<2>>, <<3, 4>>, <<2>>, <<>> >>
LoopWithBreak == << <<2>>, <<3, 4>>, <<4, 2>>, <<>> >>
AfterJump == << <<4>>, <<3>>, <<4>>, <<>> >>   \* blocks that no path from the entry leads to

Function(first, second, third, last, shape) ==
  [code |-> <<first, second, third, last>>, succ |-> shape, ret |-> << <<>>, <<>>, <<>>, <<>> >>]

-----------------------------------------------------------------------------
\* What a block does to the outer local, or a scope of its own with an inner local.
ScalarBodies ==
  {On(Local, ops) : ops \in {<<>>, <<"init">>, <<"use">>, <<"move">>, <<"drop">>, <<"free">>,
                             <<"extract">>, <<"move", "init">>}}
  \cup {On(Inner, <<"alloca", "init">> \o ops \o <<"drop">>) :
          ops \in {<<"use">>, <<"move">>, <<"move", "init">>}}

ScalarFunctions ==
  {Function(On(Local, decl), second, third, On(Local, last \o <<"drop">>), shape) :
     decl \in {<<"alloca">>, <<"alloca", "init">>, <<"param">>},
     second \in ScalarBodies, third \in ScalarBodies, last \in {<<>>, <<"use">>},
     shape \in {Diamond, Loop, LoopWithBreak, AfterJump}}

FieldBodies(p) ==
  {<<>>} \cup {<<Do(name, q)>> : name \in {"use", "move"}, q \in {p, First(p)}}
         \cup { <<Do("extract", First(p))>>, <<Do("move", Second(p))>>,
                <<Do("move", First(p)), Do("move", Second(p))>>,
                <<Do("move", First(p)), Do("init", First(p))>>,
                <<Do("move", p), Do("init", p)>> }

OnParameter(p, second, third, last, shape) ==
  Function(<<Do("param", p)>>, second, third, last \o <<Do("drop", p)>>, shape)

FieldFunctions ==
  UNION {{OnParameter(p, second, third, last, shape) :
            second \in FieldBodies(p), third \in FieldBodies(p), shape \in {Diamond, Loop},
            last \in {<<>>, <<Do("use", First(p))>>, <<Do("use", Second(p))>>}} : p \in Structs}

\* One branch moves the struct and stores one of its fields back into it.
RefillFunctions ==
  UNION {{OnParameter(p, second, <<Do("move", p), Do("init", f)>>, last, Diamond) :
            second \in FieldBodies(p), f \in {First(p), Second(p)},
            last \in {<<>>, <<Do("use", First(p))>>, <<Do("init", Second(p))>>}} : p \in Structs}

CompiledFunctions == ScalarFunctions \cup FieldFunctions \cup RefillFunctions

-----------------------------------------------------------------------------
(***************************************************************************)
(* The functions meet what the theorems of MoveCheckProofs ask of them.    *)
(* The annotation of Settles is the greatest one: from all positions, take *)
(* away those that nothing before them justifies.                          *)
(***************************************************************************)
CodePositions(f) == UNION {{<<b, i>> : i \in 1 .. Len(f.code[b]) + 1} : b \in DOMAIN f.code}

Justified(f, S, x) ==
  LET a == x[1]
      b == x[2]
      i == x[3] - 1
  IN  IF i = 0 THEN \A c \in DOMAIN f.code : b \in ToSet(f.succ[c]) => <<a, c, Len(f.code[c]) + 1>> \in S
      ELSE LET inst == f.code[b][i]
           IN  \/ inst.op \in {"move", "await", "drop", "free", "alloca"} /\ inst.place = a
               \/ <<a, b, i>> \in S /\ ~(inst.op \in {"init", "param"} /\ IsAncestorOf(a, inst.place))

RECURSIVE Shrink(_, _)
Shrink(f, S) == LET T == {x \in S : Justified(f, S, x)} IN IF T = S THEN S ELSE Shrink(f, T)

Settled(f) == Shrink(f, UNION {{<<a, x[1], x[2]>> : x \in CodePositions(f)} : a \in Declared(f)})

ASSUME CompiledAssumption ==
  \A f \in CompiledFunctions :
    WholeInits(f) /\ RootDrops(f) /\ LeafExtracts(f) /\ Settles(f, Settled(f))

=============================================================================
