------------------------------- MODULE BorrowCheck -------------------------------
(***************************************************************************)
(* The loan half of the borrow checker                                     *)
(* (crates/luna-borrowck/src/borrow_analysis.rs, analyze_with_shadow): the *)
(* dataflow engine runs the analysis of BorrowLoans to a fixpoint, a       *)
(* reporting pass collects the errors of every block, edge and return, and *)
(* a function without errors is executed.                                  *)
(*                                                                         *)
(* The execution keeps what the analysis does not see: every reference     *)
(* that exists, in a variable or in a temporary, knows the place it points *)
(* to, the borrows it was made by, and whether it is still good.  Writing  *)
(* to a place makes every other reference to it stale, reading it those    *)
(* that are exclusive; only references a place was reached through are     *)
(* spared.  Introducing or leaving a local makes references to it dead.    *)
(***************************************************************************)
EXTENDS ForwardDataflow, BorrowLoans

VARIABLES
  phase,         \* "analyse", "report", "run", "rejected", "returned"
  reported,      \* how many blocks the reporting pass has covered
  diagnostics,   \* the errors
  at,            \* run: the position of the next instruction
  held,          \* run: the reference each value and each place of a local holds
  fault          \* run: the misuses of references so far

checkVars == <<phase, reported, diagnostics>>
runVars   == <<at, held, fault>>
vars      == <<engineVars, checkVars, runVars>>

BorrowNumBlocks(f) == Len(f.code)
BorrowSuccessors(f, b) == f.succ[b]

-----------------------------------------------------------------------------
(***************************************************************************)
(* Analysis and report.                                                    *)
(***************************************************************************)
\* The errors of the instructions of a block, and the state after them.
Inspected(b) ==
  FoldStrictly(LAMBDA t, i : [errors |-> t.errors \cup InstConflicts(func, t.s, <<b, i>>),
                              s      |-> TransferInst(func, t.s, <<b, i>>)],
               [errors |-> {}, s |-> state[b]], [i \in DOMAIN func.code[b] |-> i])

BlockErrors(b) ==
  UNION {t.errors
         \cup UNION {CrossingErrors(func, t.s, b, to) : to \in Targets(func, b)}
         \cup (IF func.ret[b] = NoValue THEN {} ELSE ReturnErrors(func, t.s, func.ret[b])) :
           t \in {Inspected(b)}}

Analyse ==
  /\ phase = "analyse"
  /\ EngineNext
  /\ phase' = IF finished' THEN "report" ELSE "analyse"
  /\ UNCHANGED <<reported, diagnostics, runVars>>

ReportBlock ==
  /\ phase = "report"
  /\ reported < NumBlocks(func)
  /\ reported' = reported + 1
  /\ diagnostics' = diagnostics \cup BlockErrors(reported + 1)
  /\ UNCHANGED <<engineVars, phase, runVars>>

FinishReport ==
  /\ phase = "report"
  /\ reported = NumBlocks(func)
  /\ phase' = IF diagnostics = {} THEN "run" ELSE "rejected"
  /\ UNCHANGED <<engineVars, reported, diagnostics, runVars>>

-----------------------------------------------------------------------------
(***************************************************************************)
(* Execution.  A place is <<v>> for an alloca v, <<v, field>> for a field  *)
(* of one; any other value v is itself kept at <<v>>.                      *)
(***************************************************************************)
Outside == <<NoValue>>   \* what the reference parameters point to

PlaceOf(v) == IF IsAlloca(func, v) THEN <<v>> ELSE <<InstOf(func, v).base, InstOf(func, v).field>>

Overlapping(p, q) == IsPrefix(p, q) \/ IsPrefix(q, p)

\* An access to a place, reached through the borrows in `via`, ends the references it conflicts with.
Accessed(refs, place, via, isWrite) ==
  [k \in DOMAIN refs |->
     IF /\ refs[k].good = "good"
        /\ Overlapping(refs[k].place, place)
        /\ ~IsPrefix(refs[k].made, via)
        /\ isWrite \/ refs[k].rw
     THEN [refs[k] EXCEPT !.good = "stale"] ELSE refs[k]]

\* The storage of the local is new, or no more.
Unstored(refs, local) ==
  [k \in {j \in DOMAIN refs : j[1] # local} |->
     IF refs[k].place[1] = local THEN [refs[k] EXCEPT !.good = "dead"] ELSE refs[k]]

With(refs, k, ref) == [j \in DOMAIN refs \cup {k} |-> IF j = k THEN ref ELSE refs[j]]
Without(refs, k) == [j \in DOMAIN refs \ {k} |-> refs[j]]

\* An access through a reference, which is misused if it is no longer good.
Deref(ref, isWrite) ==
  /\ fault' = IF ref.good = "good" THEN fault ELSE fault \cup {ref.good}
  /\ held' = Accessed(held, ref.place, ref.made, isWrite)

NewRef(place, made, isRw) == [place |-> place, made |-> made, rw |-> isRw, good |-> "good"]

StepAlloca(pos) == held' = Unstored(held, pos) /\ UNCHANGED fault

StepLoad(pos, inst) ==
  IF ~LocalStorage(func, inst.base)
  THEN IF <<inst.base>> \in DOMAIN held THEN Deref(held[<<inst.base>>], FALSE) ELSE UNCHANGED <<held, fault>>
  ELSE /\ UNCHANGED fault
       /\ held' = LET from == PlaceOf(inst.base)
                  IN  IF inst.ty = "data" THEN Accessed(held, from, <<>>, FALSE)
                      ELSE IF from \in DOMAIN held THEN With(held, <<pos>>, held[from])
                      ELSE Without(held, <<pos>>)

StepStore(inst) ==
  IF ~LocalStorage(func, inst.base)
  THEN IF <<inst.base>> \in DOMAIN held THEN Deref(held[<<inst.base>>], TRUE) ELSE UNCHANGED <<held, fault>>
  ELSE /\ UNCHANGED fault
       /\ held' = LET to       == PlaceOf(inst.base)
                      accessed == Accessed(held, to, <<>>, TRUE)
                  IN  IF <<inst.value>> \in DOMAIN held THEN With(accessed, to, accessed[<<inst.value>>])
                      ELSE Without(accessed, to)

StepBorrow(pos, inst) ==
  LET isRw == inst.ty = "rw"
  IN  IF LocalStorage(func, inst.base)
      THEN /\ held' = With(Accessed(held, PlaceOf(inst.base), <<>>, isRw), <<pos>>,
                           NewRef(PlaceOf(inst.base), <<pos>>, isRw))
           /\ UNCHANGED fault
      ELSE IF <<inst.base>> \in DOMAIN held
      THEN LET ref == held[<<inst.base>>]
           IN  /\ fault' = IF ref.good = "good" THEN fault ELSE fault \cup {ref.good}
               /\ held' = With(Accessed(held, ref.place, ref.made, isRw), <<pos>>,
                               NewRef(ref.place, Append(ref.made, pos), isRw))
      ELSE UNCHANGED <<held, fault>>

StepDrop(inst) ==
  held' = Accessed(held, PlaceOf(inst.base), <<>>, TRUE) /\ UNCHANGED fault

\* The callee uses its arguments; the result is one of those it may return.
StepCall(pos, inst) ==
  LET given == {i \in DOMAIN inst.args : <<inst.args[i]>> \in DOMAIN held}
      Use(refs, i) == IF i \in given
                      THEN Accessed(refs, held[<<inst.args[i]>>].place, held[<<inst.args[i]>>].made,
                                    inst.effects[i].writes)
                      ELSE refs
      used == FoldLeft(Use, held, [i \in DOMAIN inst.args |-> i])
  IN  /\ fault' = fault \cup ({held[<<inst.args[i]>>].good : i \in given} \ {"good"})
      /\ \/ inst.returns \cap given = {} /\ held' = Without(used, <<pos>>)
         \/ \E i \in inst.returns \cap given : held' = With(used, <<pos>>, used[<<inst.args[i]>>])

StepInst ==
  /\ phase = "run"
  /\ at[2] <= Len(func.code[at[1]])
  /\ LET inst == InstOf(func, at)
     IN  \/ inst.op = "alloca" /\ StepAlloca(at)
         \/ inst.op = "fieldptr" /\ UNCHANGED <<held, fault>>
         \/ inst.op = "load" /\ StepLoad(at, inst)
         \/ inst.op = "store" /\ StepStore(inst)
         \/ inst.op = "borrow" /\ StepBorrow(at, inst)
         \/ inst.op = "drop" /\ StepDrop(inst)
         \/ inst.op = "call" /\ StepCall(at, inst)
  /\ at' = <<at[1], at[2] + 1>>
  /\ UNCHANGED <<engineVars, checkVars>>

\* The locals of the iterations that end lose their storage.
Branch ==
  /\ phase = "run"
  /\ at[2] > Len(func.code[at[1]])
  /\ \E to \in Targets(func, at[1]) :
       LET ending == {v \in EndingLocals(func, at[1], to) : IsAlloca(func, v)}
       IN  /\ at' = <<to, 1>>
           /\ held' = FoldLeft(Unstored, held, SetToSeq(ending))
  /\ UNCHANGED <<engineVars, checkVars, fault>>

\* A returned reference must be good and must not point to a local of this function.
Return ==
  LET v == func.ret[at[1]]
  IN  /\ phase = "run"
      /\ at[2] > Len(func.code[at[1]])
      /\ Targets(func, at[1]) = {}
      /\ phase' = "returned"
      /\ fault' = IF <<v>> \in DOMAIN held /\ (held[<<v>>].good # "good" \/ held[<<v>>].place # Outside)
                  THEN fault \cup {"escape"} ELSE fault
      /\ UNCHANGED <<engineVars, reported, diagnostics, at, held>>

Init ==
  /\ EngineInit
  /\ phase = "analyse"
  /\ reported = 0
  /\ diagnostics = {}
  /\ at = <<1, 1>>
  /\ held = [k \in {<<<<0, p>>>> : p \in {q \in DOMAIN func.params : func.params[q] \in Reference}} |->
               NewRef(Outside, k, func.params[k[1][2]] = "rw")]
  /\ fault = {}

Next == Analyse \/ ReportBlock \/ FinishReport \/ StepInst \/ Branch \/ Return

Spec == Init /\ [][Next]_vars /\ WF_vars(Analyse \/ ReportBlock \/ FinishReport)

-----------------------------------------------------------------------------
(***************************************************************************)
(* A function the checker accepts never uses a reference after what it     *)
(* points to was changed, moved on or exclusively borrowed otherwise.      *)
(***************************************************************************)
AcceptedNeverUsesStale == "stale" \notin fault

\* A function the checker accepts never uses a reference to a local whose storage has ended.
AcceptedNeverUsesDead == "dead" \notin fault

\* A function the checker accepts returns no reference to one of its locals, and none that is not good.
AcceptedNeverEscapes == "escape" \notin fault

(***************************************************************************)
(* The analysis accounts for every reference: whenever the execution       *)
(* enters a block, a variable or value that is live there and holds a good *)
(* reference has, in the block's state, the loan the reference came from.  *)
(***************************************************************************)
ProvenanceIsSound ==
  phase = "run" /\ at[2] = 1 =>
    \A k \in DOMAIN held :
      (Len(k) = 1 /\ k[1] \in func.live[at[1]][1] /\ held[k].good = "good")
        => held[k].made[1] \in {loan.id : loan \in Provenance(state[at[1]], k[1])}

\* The checker reaches a verdict on every function.
BorrowCheckTerminates == <>(phase \in {"run", "rejected"})
=============================================================================
