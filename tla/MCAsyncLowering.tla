---------------------------- MODULE MCAsyncLowering ----------------------------
(***************************************************************************)
(* Async functions with up to three awaits, in a diamond and in a loop: a  *)
(* resource, a struct of two resources and a future in a local are used,   *)
(* moved and dropped around the awaits.  The struct is a parameter, the    *)
(* others are locals.                                                      *)
(***************************************************************************)
EXTENDS AsyncLowering

Call == <<0>>
Pair == <<1>>
Resource == <<2>>
Future == <<3>>
Inner == <<4>>
First == <<1, 0>>
Second == <<1, 1>>

Fields == [p \in {Call, Pair, Resource, Future, Inner, First, Second} |-> IF p = Pair THEN {0, 1} ELSE {}]
StoredFutures == {Call, Future}

Do(name, p) == [op |-> name, place |-> p]
AwaitCall == Do("awaitcall", Call)

Diamond == << <<2, 3>>, <<4>>, <<4>>, <<>> >>
Loop == << <<2>>, <<3, 4>>, <<2>>, <<>> >>

\* What a block does before or after it awaits.
Effects ==
  { <<>>, <<Do("move", Resource)>>, <<Do("use", Resource)>>, <<Do("move", Resource), Do("init", Resource)>>,
    <<Do("move", First)>>, <<Do("move", Second)>>, <<Do("move", Pair)>>,
    <<Do("move", First), Do("init", First)>> }

\* A drop that may have been removed.
Drop(p) == {Do("drop", p), Removed(Do("drop", p))}

Bodies ==
  {effect \o <<AwaitCall>> : effect \in Effects}
  \cup {<<AwaitCall>> \o effect : effect \in Effects \ {<<>>}}
  \cup {<<Do("init", Future)>> \o effect \o <<Do("await", Future)>> : effect \in {<<>>, <<Do("move", Resource)>>}}
  \cup {<<Do("alloca", Inner), Do("init", Inner), AwaitCall>> \o effect \o <<drop>> :
          effect \in {<<>>, <<Do("move", Inner)>>}, drop \in Drop(Inner)}

Start(init) == <<Do("param", Pair), Do("alloca", Resource), Do("alloca", Future)>> \o init

ScopeEnds == {<<x, y, z>> : x \in Drop(Future), y \in Drop(Resource), z \in Drop(Pair)}

Starts == {Start(init) : init \in {<<>>, <<Do("init", Resource)>>, <<Do("init", Future)>>}}
Others == Effects \cup {<<Do("init", Future), Do("await", Future)>>}
Lasts == {last \o ends : last \in {<<>>, <<AwaitCall>>, <<AwaitCall, Do("init", Resource)>>}, ends \in ScopeEnds}

\* What the generator emits, and what is left of it when some drops have been removed.
AsyncFunctions == [code : Starts \X Bodies \X Others \X Lasts, succ : {Diamond, Loop}, ret : {<< <<>>, <<>>, <<>>, <<>> >>}]

-----------------------------------------------------------------------------
(***************************************************************************)
(* The functions meet what the theorems of AsyncLoweringProofs ask of      *)
(* them.  The annotation of Clears is the greatest one, found as in        *)
(* MCMoveCheck; a removed drop counts as a drop there, so that it is one   *)
(* for the versions of a function too.                                     *)
(***************************************************************************)
CodePositions(f) == UNION {{<<b, i>> : i \in 1 .. Len(f.code[b]) + 1} : b \in DOMAIN f.code}

Justified(f, S, x) ==
  LET a == x[1]
      b == x[2]
      i == x[3] - 1
  IN  IF i = 0
      THEN /\ b = 1 => a \notin Allocas(f, "param")
           /\ \A c \in DOMAIN f.code : b \in ToSet(f.succ[c]) => <<a, c, Len(f.code[c]) + 1>> \in S
      ELSE LET inst == f.code[b][i]
           IN  \/ inst.op \in {"move", "await", "drop", "free", "alloca", "nop"} /\ inst.place = a
               \/ <<a, b, i>> \in S /\ ~(inst.op \in {"init", "param"} /\ IsAncestorOf(a, inst.place))

RECURSIVE Shrink(_, _)
Shrink(f, S) == LET T == {x \in S : Justified(f, S, x)} IN IF T = S THEN S ELSE Shrink(f, T)

Cleared(f) == Shrink(f, UNION {{<<a, x[1], x[2]>> : x \in CodePositions(f)} : a \in Declared(f)})

ASSUME AsyncFunctionsAssumption ==
  \A f \in AsyncFunctions : Emitted(f) => WholeInits(f) /\ RootDrops(f) /\ Clears(f, Cleared(f))
=============================================================================
