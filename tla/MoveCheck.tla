------------------------------- MODULE MoveCheck -------------------------------
(***************************************************************************)
(* The move half of the borrow checker, end to end                         *)
(* (crates/luna-borrowck/src/lib.rs, move_analysis.rs, cleanup.rs):        *)
(*   analyse  the dataflow engine runs the move analysis to a fixpoint;    *)
(*   emit     one more pass over the blocks reports the diagnostics and    *)
(*            collects the drops that are dead;                            *)
(*   clean    dead drops become Nop;                                       *)
(*   run      a function without diagnostics is executed, taking any       *)
(*            branch, and the fate of every owned value is recorded.       *)
(*                                                                         *)
(* A function is a record: `code`, the instructions of each block, `succ`, *)
(* the targets of its terminator, and `ret`, the place whose value a Ret   *)
(* returns (<<>> for none).  An instruction is an operation on a place;    *)
(* operands that are temporaries or have a Copy type do nothing in this    *)
(* analysis and are left out.                                              *)
(***************************************************************************)
EXTENDS ForwardDataflow, MoveLattice

VARIABLES
  phase,         \* "analyse", "emit", "run", "rejected", "returned"
  emitted,       \* how many blocks the reporting pass has covered
  diagnostics,   \* the reported errors, a set since messages are not repeated
  deadDrops,     \* the positions <<block, index>> of redundant drops
  at,            \* run: the position <<block, index>> of the next instruction
  own,           \* run: what each leaf place holds: "uninit", "owned" or "gone"
  fault          \* run: the faults the execution has committed, and on which place

runVars   == <<at, own, fault>>
checkVars == <<phase, emitted, diagnostics, deadDrops>>
vars      == <<engineVars, checkVars, runVars>>

Places == DOMAIN Owned
Leaves(p) == {q \in Places : Owned[q] = {} /\ IsAncestorOf(p, q)}

-----------------------------------------------------------------------------
(***************************************************************************)
(* The analysis the engine is given.                                       *)
(***************************************************************************)
MoveNumBlocks(f) == Len(f.code)
MoveSuccessors(f, b) == f.succ[b]

MoveDefaultState == [unvisited |-> TRUE, places |-> <<>>]

\* Every alloca of the function starts uninitialised, the ones of its parameters live.
Allocas(f, op) ==
  {inst.place : inst \in {i \in UNION {ToSet(f.code[b]) : b \in DOMAIN f.code} : i.op = op}}

(***************************************************************************)
(* What the generator emits.  Locals are declared, those of the parameters *)
(* before anything else, and every place an instruction names is part of a *)
(* declared local; only a local without owned fields (the environment of a *)
(* future) is freed; a block that returns ends the function; and nothing   *)
(* branches to the entry block.                                            *)
(***************************************************************************)
Declared(f) == Allocas(f, "alloca") \cup Allocas(f, "param")

Instructions == [op : STRING, place : Places]

WellPlaced(f, b, i) ==
  LET inst == f.code[b][i]
  IN  /\ inst.op \in {"alloca", "param"} => Len(inst.place) = 1
      /\ inst.op = "param" => b = 1 /\ \A j \in 1 .. i : f.code[1][j].op \in {"alloca", "param"}
      /\ inst.op = "free" => Len(inst.place) = 1 /\ Owned[inst.place] = {}
      /\ inst.op \in {"use", "move", "await", "extract", "drop", "init"} =>
           \E a \in Declared(f) : IsAncestorOf(a, inst.place)

WellFormed(f) ==
  /\ f.code \in Seq(Seq(Instructions))
  /\ \A b \in DOMAIN f.code :
       /\ \A i \in DOMAIN f.code[b] : WellPlaced(f, b, i)
       /\ f.ret[b] \in Places \cup {<<>>}
       /\ f.ret[b] # <<>> => f.succ[b] = <<>>
       /\ 1 \notin ToSet(f.succ[b])

ASSUME FunctionsAssumption == \A f \in Functions : WellFormed(f)

MoveEntryState(f) ==
  [unvisited |-> FALSE,
   places |-> [p \in Allocas(f, "alloca") \cup Allocas(f, "param") |->
                 IF p \in Allocas(f, "param") THEN "Live" ELSE "Uninitialized"]]

TransferInst(places, inst) ==
  CASE inst.op = "alloca" -> [k \in DOMAIN places \cup {inst.place} |->
                                IF k = inst.place THEN "Uninitialized" ELSE places[k]]
    [] inst.op = "param" -> [k \in DOMAIN places \cup {inst.place} |->
                                IF k = inst.place THEN "Live" ELSE places[k]]
    [] inst.op = "init" -> MarkLive(inst.place, places)
    [] inst.op \in {"move", "await"} -> MarkMoved(inst.place, places)
    [] inst.op \in {"drop", "free"} -> MarkDropped(inst.place, places)
    [] OTHER -> places

TransferInsts(places, insts) == FoldStrictly(TransferInst, places, insts)

\* The instructions of a block, then its terminator: Ret moves the value it returns.
MoveTransfer(f, b, s) ==
  TheOnly({[s EXCEPT !.places = IF f.ret[b] = <<>> THEN after ELSE MarkMoved(f.ret[b], after)] :
             after \in {TransferInsts(s.places, f.code[b])}})

MoveTransferEdge(f, from, to, s) == s

MoveMergeResults(dest, src) ==
  IF dest.unvisited
  THEN {[src EXCEPT !.unvisited = FALSE]}
  ELSE {[dest EXCEPT !.places = merged] : merged \in MergePlaces(dest.places, src.places)}

-----------------------------------------------------------------------------
(***************************************************************************)
(* The reporting pass.  It repeats the instructions of every block from    *)
(* the block's final entry state, unreached blocks included, and leaves    *)
(* the terminators out.                                                    *)
(***************************************************************************)
\* Mistake: fields may be moved out of a type with a Drop implementation.
ReportMisuse(places, inst) ==
  LET s == GetPlaceState(inst.place, places)
  IN  IF inst.op \in {"use", "move"} /\ s # "Live" THEN {<<s, inst.place>>} ELSE {}

Report(places, inst) ==
  LET p        == inst.place
      s        == GetPlaceState(p, places)
      misuse   == IF s = "Live" THEN {} ELSE {<<s, p>>}
      subplace == IF ProperAncestors(p) \cap DropImpl = {} THEN {} ELSE {<<"PartialMoveUnderDrop">>}
  IN  CASE inst.op = "use" -> misuse
        [] inst.op \in {"move", "await"} -> misuse \cup subplace
        [] inst.op = "extract" -> (IF s \in Gone THEN misuse ELSE {}) \cup subplace
        [] inst.op = "drop" /\ s = "ConditionallyMoved" -> {<<"DropConditionallyMoved">>}
        [] OTHER -> {}

PlacesBefore(b, i) == TransferInsts(state[b].places, SubSeq(func.code[b], 1, i - 1))

BlockReports(b) ==
  UNION {Report(PlacesBefore(b, i), func.code[b][i]) : i \in DOMAIN func.code[b]}

BlockDeadDrops(b) ==
  {<<b, i>> : i \in {j \in DOMAIN func.code[b] :
     /\ func.code[b][j].op = "drop"
     /\ GetPlaceState(func.code[b][j].place, PlacesBefore(b, j))
          \in {"Moved", "Dropped", "Uninitialized"}}}

Analyse ==
  /\ phase = "analyse"
  /\ EngineNext
  /\ phase' = IF finished' THEN "emit" ELSE "analyse"
  /\ UNCHANGED <<emitted, diagnostics, deadDrops, runVars>>

EmitBlock ==
  /\ phase = "emit"
  /\ emitted < NumBlocks(func)
  /\ emitted' = emitted + 1
  /\ diagnostics' = diagnostics \cup BlockReports(emitted + 1)
  /\ deadDrops' = deadDrops \cup BlockDeadDrops(emitted + 1)
  /\ UNCHANGED <<engineVars, phase, runVars>>

\* Errors end the compilation; otherwise the cleaned function is compiled and run.
FinishCheck ==
  /\ phase = "emit"
  /\ emitted = NumBlocks(func)
  /\ phase' = IF diagnostics = {} THEN "run" ELSE "rejected"
  /\ UNCHANGED <<engineVars, emitted, diagnostics, deadDrops, runVars>>

-----------------------------------------------------------------------------
(***************************************************************************)
(* Executing the cleaned function.  Dropping a place calls the drop glue   *)
(* of its type, which drops every owned field whatever happened to it.     *)
(***************************************************************************)
Removed(inst) == [inst EXCEPT !.op = "nop"]

Cleaned(b, i) == IF <<b, i>> \in deadDrops THEN Removed(func.code[b][i]) ELSE func.code[b][i]

Set(p, v) == [q \in DOMAIN own |-> IF q \in Leaves(p) THEN v ELSE own[q]]
Holds(p, v) == \E q \in Leaves(p) : own[q] = v
NotOwned(p) == \E q \in Leaves(p) : own[q] # "owned"

Commit(condition, kind, p) == fault' = IF condition THEN fault \cup {<<kind, p>>} ELSE fault

StepInst ==
  LET inst == Cleaned(at[1], at[2])
      p    == inst.place
  IN  /\ phase = "run"
      /\ at[2] <= Len(func.code[at[1]])
      /\ at' = <<at[1], at[2] + 1>>
      /\ CASE inst.op \in {"alloca", "param"} ->
                 /\ own' = Set(p, IF inst.op = "param" THEN "owned" ELSE "uninit")
                 /\ Commit(Holds(p, "owned"), "leak", p)
           [] inst.op = "init" -> own' = Set(p, "owned") /\ Commit(Holds(p, "owned"), "overwrite", p)
           [] inst.op \in {"use", "extract"} -> UNCHANGED own /\ Commit(NotOwned(p), "use", p)
           [] inst.op \in {"move", "await"} -> own' = Set(p, "gone") /\ Commit(NotOwned(p), "use", p)
           [] inst.op = "drop" -> own' = Set(p, "gone") /\ Commit(NotOwned(p), "drop", p)
           [] inst.op = "free" -> own' = Set(p, "gone") /\ UNCHANGED fault
           [] OTHER -> UNCHANGED <<own, fault>>
      /\ UNCHANGED <<engineVars, checkVars>>

Branch ==
  /\ phase = "run"
  /\ at[2] > Len(func.code[at[1]])
  /\ \E i \in DOMAIN Succ(at[1]) : at' = <<Succ(at[1])[i], 1>>
  /\ UNCHANGED <<engineVars, checkVars, own, fault>>

\* The returned value belongs to the caller; whatever is still owned here is lost.
Return ==
  LET ret  == func.ret[at[1]]
      kept == IF ret = <<>> THEN {} ELSE Leaves(ret)
  IN  /\ phase = "run"
      /\ at[2] > Len(func.code[at[1]])
      /\ Succ(at[1]) = <<>>
      /\ phase' = "returned"
      /\ fault' = fault \cup {<<"return", q>> : q \in {k \in kept : own[k] # "owned"}}
                       \cup {<<"leak", q>> : q \in {k \in DOMAIN own \ kept : own[k] = "owned"}}
      /\ UNCHANGED <<engineVars, emitted, diagnostics, deadDrops, at, own>>

Init ==
  /\ EngineInit
  /\ phase = "analyse"
  /\ emitted = 0
  /\ diagnostics = {}
  /\ deadDrops = {}
  /\ at = <<1, 1>>
  /\ own = [q \in {p \in Places : Owned[p] = {}} |-> "uninit"]
  /\ fault = {}

Next == Analyse \/ EmitBlock \/ FinishCheck \/ StepInst \/ Branch \/ Return

Spec == Init /\ [][Next]_vars /\ WF_vars(Analyse \/ EmitBlock \/ FinishCheck)

-----------------------------------------------------------------------------
Committed(kind) == {p \in Places : <<kind, p>> \in fault}

\* A function the checker accepts never reads or moves a value that is not there.
AcceptedNeverUsesGone == Committed("use") = {}

\* A function the checker accepts never drops a value twice or drops an uninitialised one.
AcceptedNeverDropsGone == Committed("drop") = {}

(***************************************************************************)
(* What an accepted function drops twice is at most a field of a struct    *)
(* without a Drop implementation, when the struct is dropped after the     *)
(* field was moved: never a whole value and never a value with a Drop      *)
(* implementation or a part of one.                                        *)
(***************************************************************************)
OnlyPartsDropTwice ==
  \A p \in Committed("drop") : Owned[p] # {} /\ p \notin DropImpl /\ ProperAncestors(p) \cap DropImpl = {}

\* A function the checker accepts loses no value.
AcceptedNeverLeaks == Committed("leak") = {}

\* All of the value has left, on every path.
Vanished == {"Moved", "Dropped", "Uninitialized"}

\* Once a field has been stored, no struct around it counts as gone.
StoreNoticed(b, i) ==
  \A a \in ProperAncestors(func.code[b][i].place) : GetPlaceState(a, PlacesBefore(b, i + 1)) \notin Vanished

StoresNoticed == \A b \in Blocks : \A i \in DOMAIN func.code[b] : func.code[b][i].op = "init" => StoreNoticed(b, i)

(***************************************************************************)
(* A function the checker accepts loses a value only if it stores a field  *)
(* into a struct that goes on counting as moved: no other drop that is due *)
(* is taken for dead and removed.                                          *)
(***************************************************************************)
OnlyUnnoticedStoresLeak == ~AcceptedNeverLeaks => ~StoresNoticed

-----------------------------------------------------------------------------
(***************************************************************************)
(* What the generator emits.  The theorems of MoveCheckProofs assume some  *)
(* of this of a function, and each says what it needs.                     *)
(***************************************************************************)

(***************************************************************************)
(* A local that is not a parameter is given its value as a whole: no       *)
(* struct literal is written into its fields one by one, and no field of   *)
(* it is assigned to.                                                      *)
(***************************************************************************)
WholeInit(f, a) ==
  a \in Allocas(f, "alloca") => \A p \in Allocas(f, "init") : IsAncestorOf(a, p) => p = a

WholeInits(f) == \A a \in Allocas(f, "alloca") : WholeInit(f, a)

\* The generator drops locals, not fields.
RootDrops(f) == \A p \in Allocas(f, "drop") : Len(p) = 1

\* Only a field without owned fields of its own is extracted by value.
LeafExtracts(f) == \A p \in Allocas(f, "extract") : Owned[p] = {}

(***************************************************************************)
(* S says, of positions of the code, which locals hold nothing there that  *)
(* is still to be dropped: <<a, b, i>> is a member of S only if on every   *)
(* path to instruction i of block b, local a has been dropped, freed or    *)
(* moved as a whole since the last value was put into it.  A local is      *)
(* settled where it is declared and, unless it is returned, where the      *)
(* function ends.                                                          *)
(***************************************************************************)
Settles(f, S) ==
  \A a \in Declared(f), b \in DOMAIN f.code :
    /\ \A i \in DOMAIN f.code[b] :
         LET inst == f.code[b][i]
         IN  /\ inst.op \in {"alloca", "param"} /\ inst.place = a => <<a, b, i>> \in S
             /\ <<a, b, i + 1>> \in S =>
                  \/ inst.op \in {"move", "await", "drop", "free", "alloca"} /\ inst.place = a
                  \/ <<a, b, i>> \in S /\ ~(inst.op \in {"init", "param"} /\ IsAncestorOf(a, inst.place))
    /\ \A c \in ToSet(f.succ[b]) : <<a, c, 1>> \in S => <<a, b, Len(f.code[b]) + 1>> \in S
    /\ f.succ[b] = <<>> /\ f.ret[b] # a => <<a, b, Len(f.code[b]) + 1>> \in S

\* Every local is dropped at the end of its scope, as the generator does, or moved before.
DropsItsLocals(f) == \E S : Settles(f, S)

-----------------------------------------------------------------------------
\* The two that follow do not hold of the code: an assignment emits no drop, a Ret is not checked.
\* A function the checker accepts drops the old value of a place it assigns to.
AcceptedNeverOverwritesOwned == Committed("overwrite") = {}

\* A function the checker accepts never returns a value that was moved or dropped.
AcceptedNeverReturnsGone == Committed("return") = {}

\* The checker reaches a verdict on every function.
CheckTerminates == <>(phase \in {"run", "rejected"})
=============================================================================
