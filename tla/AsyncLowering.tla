----------------------------- MODULE AsyncLowering -----------------------------
(***************************************************************************)
(* The life of a future (crates/luna-driver/src/async_lowering.rs,         *)
(* crates/luna-borrowck/src/suspension.rs).  An async function that passed *)
(* the borrow checker becomes three functions:                             *)
(*   kickoff   allocates the environment and stores the arguments in it;   *)
(*   resume    runs from one await to the next;                            *)
(*   drop      cancels: it drops the future being awaited and the places   *)
(*             that are live at the await, and frees the environment.      *)
(* The live places of every await come from a second run of the move       *)
(* analysis, on the function whose dead drops were removed.  The caller    *)
(* polls a future until it is completed and may drop it at any time        *)
(* between two polls.                                                      *)
(*                                                                         *)
(* "await" takes the future that a local holds, "awaitcall" the future a   *)
(* call returned just now, which no local holds (it is Temp here).         *)
(***************************************************************************)
EXTENDS Integers, MoveCheck

CONSTANTS
  Futures,   \* the places whose type is a future
  Temp       \* the future of an "awaitcall", a place that no instruction names

VARIABLES
  life,      \* "source", "lowering", "lowered", "suspended", "running", "completed", "freed"
  fstate,    \* env.state: 0, the number of an await, or -1 when completed
  child,     \* env.child_future: a place, or <<>> for null
  destroyed  \* what the drop function did: faults and the leaves they hit

asyncVars == <<life, fstate, child, destroyed>>
allVars   == <<vars, asyncVars>>

Awaits == {"await", "awaitcall"}
Completed == -1

-----------------------------------------------------------------------------
(***************************************************************************)
(* compute_suspension_states                                               *)
(***************************************************************************)
Before(x, y) == x[1] < y[1] \/ (x[1] = y[1] /\ x[2] < y[2])

Positions(f) == UNION {{<<b, i>> : i \in DOMAIN f.code[b]} : b \in DOMAIN f.code}

AwaitsOf(f) == {x \in Positions(f) : f.code[x[1]][x[2]].op \in Awaits}

\* The awaits of the function are numbered from 1 in the order of its blocks.
AwaitId(f, x) == Cardinality({y \in AwaitsOf(f) : Before(y, x)}) + 1

AwaitPoint(f, k) == CHOOSE x \in AwaitsOf(f) : AwaitId(f, x) = k

\* Mistakes: places that moved on some path are left out; everything that did not move is taken.
LiveOnAllPaths(places) ==
  LET raw == {p \in DOMAIN places : places[p] = "Live"}
  IN  {p \in raw : ProperAncestors(p) \cap raw = {}}

NotMoved(places) ==
  LET raw == {p \in DOMAIN places : places[p] \notin {"Moved", "Dropped"}}
  IN  {p \in raw : ProperAncestors(p) \cap raw = {}}

\* Places with an entry that is live or live on some path, without those below another one.
LivePlaces(places) ==
  LET raw == {p \in DOMAIN places : places[p] \in {"Live", "ConditionallyMoved"}}
  IN  {p \in raw : ProperAncestors(p) \cap raw = {}}

\* How many allocas the entry block begins with.
Leading(f) == Cardinality({i \in DOMAIN f.code[1] : \A j \in 1 .. i : f.code[1][j].op \in {"alloca", "param"}})

\* The move state the drop function of state k is generated from, the await itself left out.
SuspensionPlaces(k) ==
  IF k = 0 THEN PlacesBefore(1, Leading(func) + 1)
  ELSE PlacesBefore(AwaitPoint(func, k)[1], AwaitPoint(func, k)[2])

DropSet(k) == LivePlaces(SuspensionPlaces(k))

-----------------------------------------------------------------------------
(***************************************************************************)
(* The functions.  The generator emits no Nop; a version of a function is  *)
(* the function without some of its drops.  Temp is no part of anything an *)
(* instruction names, but for the calls that are awaited at once, and a    *)
(* parameter is declared once.                                             *)
(***************************************************************************)
Emitted(f) == \A x \in Positions(f) : f.code[x[1]][x[2]].op # "nop"

DropsOf(f) == {x \in Positions(f) : f.code[x[1]][x[2]].op = "drop"}

Without(f, D) ==
  [f EXCEPT !.code =
     [b \in DOMAIN f.code |->
        [i \in DOMAIN f.code[b] |-> IF <<b, i>> \in D THEN Removed(f.code[b][i]) ELSE f.code[b][i]]]]

ASSUME VersionsAssumption ==
  \A f \in Functions : /\ DOMAIN f = {"code", "succ", "ret"}
                       /\ \A D \in SUBSET DropsOf(f) : Without(f, D) \in Functions

ASSUME TempAssumption ==
  /\ Temp \in Places /\ Owned[Temp] = {}
  /\ \A f \in Functions : \A x \in Positions(f) :
       f.code[x[1]][x[2]].op # "awaitcall" => ~IsAncestorOf(f.code[x[1]][x[2]].place, Temp)

ASSUME ParametersAssumption == \A f \in Functions : Allocas(f, "alloca") \cap Allocas(f, "param") = {}

-----------------------------------------------------------------------------
(***************************************************************************)
(* Whose drop function is called.  A future is traced back to a call       *)
(* through the store into its local; a struct with a Drop implementation   *)
(* is dropped through the name of its method, which no emitted function    *)
(* has (they carry mangled names), and the backend leaves out a call to a  *)
(* function it does not know; a struct without one has no drop function.   *)
(***************************************************************************)
StoredByCall(p) == \E x \in Positions(func) : func.code[x[1]][x[2]] = [op |-> "init", place |-> p]

Resolves(p) == p \in Futures /\ (p = Temp \/ StoredByCall(p))

\* How many of the calls the drop function makes in state k drop the leaf q.
Drops(k, q) ==
  Cardinality({p \in {child} \ {<<>>} : q \in Leaves(p) /\ Resolves(p)})
  + Cardinality({p \in DropSet(k) : q \in Leaves(p) /\ Resolves(p)})

Twice(k) == {q \in DOMAIN own : \/ Drops(k, q) > 1
                                \/ Drops(k, q) = 1 /\ own[q] # "owned"}
Lost(k) == {q \in DOMAIN own : Drops(k, q) = 0 /\ own[q] = "owned"}

-----------------------------------------------------------------------------
Check ==
  /\ life = "source"
  /\ Analyse \/ EmitBlock \/ FinishCheck
  /\ UNCHANGED asyncVars

\* The cleaned function is analysed again for its awaits.
Lower ==
  /\ life = "source"
  /\ phase = "run"
  /\ life' = "lowering"
  /\ func' = Without(func, deadDrops)
  /\ state' = [b \in Blocks |-> IF b = 1 THEN EntryState(func) ELSE DefaultState]
  /\ reachable' = {1}
  /\ changed' = FALSE
  /\ cursor' = 1
  /\ edge' = 0
  /\ out' = DefaultState
  /\ finished' = FALSE
  /\ UNCHANGED <<checkVars, runVars, fstate, child, destroyed>>

FindSuspensions ==
  /\ life = "lowering"
  /\ EngineNext
  /\ life' = IF finished' THEN "lowered" ELSE "lowering"
  /\ UNCHANGED <<checkVars, runVars, fstate, child, destroyed>>

\* The arguments move into the environment.
Kickoff ==
  /\ life = "lowered"
  /\ life' = "suspended"
  /\ fstate' = 0
  /\ child' = <<>>
  /\ own' = [q \in DOMAIN own |-> IF \E p \in Allocas(func, "param") : q \in Leaves(p)
                                   THEN "owned" ELSE "uninit"]
  /\ UNCHANGED <<engineVars, checkVars, at, fault, destroyed>>

\* Mistake: the awaits are numbered in the order of their index in the block.
ResumeAtByIndex(k) ==
  LET earlier(x) == {y \in AwaitsOf(func) : Before(<<y[2], y[1]>>, <<x[2], x[1]>>)}
      point      == CHOOSE x \in AwaitsOf(func) : Cardinality(earlier(x)) + 1 = k
  IN  IF k = 0 THEN <<1, 1>> ELSE <<point[1], point[2] + 1>>

\* The dispatcher of the resume function.
ResumeAt(k) ==
  IF k = 0 THEN <<1, 1>> ELSE <<AwaitPoint(func, k)[1], AwaitPoint(func, k)[2] + 1>>

\* Mistake: child_future is not cleared.
PollKeepingChild ==
  /\ life = "suspended"
  /\ life' = "running"
  /\ at' = ResumeAt(fstate)
  /\ own' = IF child = <<>> THEN own ELSE Set(child, "gone")
  /\ UNCHANGED <<engineVars, checkVars, fault, fstate, child, destroyed>>

\* A resumed await takes the future out of the environment and consumes it.
Poll ==
  /\ life = "suspended"
  /\ life' = "running"
  /\ at' = ResumeAt(fstate)
  /\ own' = IF child = <<>> THEN own ELSE Set(child, "gone")
  /\ child' = <<>>
  /\ UNCHANGED <<engineVars, checkVars, fault, fstate, destroyed>>

Current == func.code[at[1]][at[2]]
HasNext == at[2] <= Len(func.code[at[1]])

Suspend ==
  /\ life = "running"
  /\ HasNext
  /\ Current.op \in Awaits
  /\ LET fut == IF Current.op = "await" THEN Current.place ELSE Temp
     IN  /\ child' = fut
         /\ IF fut = Temp THEN own' = Set(Temp, "owned") /\ UNCHANGED fault
            ELSE UNCHANGED own /\ Commit(NotOwned(fut), "use", fut)
  /\ fstate' = AwaitId(func, at)
  /\ life' = "suspended"
  /\ UNCHANGED <<engineVars, checkVars, at, destroyed>>

(***************************************************************************)
(* Locals live in the environment, so their allocas do nothing in the      *)
(* resume function: what an earlier turn of a loop left in a local is      *)
(* never dropped.  The drop of a future whose pointer comes from the       *)
(* environment names no function and is left out.                          *)
(***************************************************************************)
Abandon(p, v) == own' = Set(p, v) /\ Commit(Holds(p, "owned"), "leak", p)

Skip ==
  /\ life = "running"
  /\ HasNext
  /\ \/ Current.op = "param" /\ UNCHANGED <<own, fault>>
     \/ Current.op = "alloca" /\ Abandon(Current.place, "uninit")
     \/ Current.op = "drop" /\ Current.place \in Futures /\ Abandon(Current.place, "gone")
  /\ at' = <<at[1], at[2] + 1>>
  /\ UNCHANGED <<engineVars, checkVars, asyncVars>>

Step ==
  /\ life = "running"
  /\ HasNext
  /\ Current.op \notin Awaits \cup {"alloca", "param"}
  /\ ~(Current.op = "drop" /\ Current.place \in Futures)
  /\ StepInst
  /\ UNCHANGED asyncVars

Jump ==
  /\ life = "running"
  /\ Branch
  /\ UNCHANGED asyncVars

\* The future is ready: nothing of it is live any more.
Complete ==
  /\ life = "running"
  /\ Return
  /\ fstate' = Completed
  /\ life' = "completed"
  /\ UNCHANGED <<child, destroyed>>

\* The drop function of a completed future only frees the environment.
Destroy ==
  /\ life \in {"suspended", "completed"}
  /\ destroyed' = IF fstate = Completed THEN {}
                  ELSE {<<"twice", q>> : q \in Twice(fstate)} \cup {<<"lost", q>> : q \in Lost(fstate)}
  /\ life' = "freed"
  /\ UNCHANGED <<vars, fstate, child>>

AsyncInit ==
  /\ Init
  /\ Emitted(func)
  /\ life = "source"
  /\ fstate = 0
  /\ child = <<>>
  /\ destroyed = {}

AsyncNext ==
  \/ Check \/ Lower \/ FindSuspensions
  \/ Kickoff \/ Poll \/ Suspend \/ Skip \/ Step \/ Jump \/ Complete \/ Destroy

AsyncSpec == AsyncInit /\ [][AsyncNext]_allVars

-----------------------------------------------------------------------------
\* The environment's state is that of an await of the function; a child is set at an await only.
AsyncTypeOK ==
  /\ life \in {"source", "lowering", "lowered", "suspended", "running", "completed", "freed"}
  /\ fstate \in {Completed} \cup 0 .. Cardinality(AwaitsOf(func))
  /\ child \in {<<>>, Temp} \cup Futures
  /\ life = "suspended" => ((child = <<>>) <=> (fstate = 0))
  /\ life \in {"running", "completed"} => child = <<>>
  /\ destroyed \subseteq {"twice", "lost"} \X DOMAIN own

(***************************************************************************)
(* Whatever a suspended future owns, the drop set of its state names it,   *)
(* or it is the future being awaited: on every path the future may have    *)
(* taken to the await.                                                     *)
(***************************************************************************)
DropSetMissesNothing ==
  life = "suspended" =>
    \A q \in DOMAIN own : own[q] = "owned" =>
      q = child \/ \E p \in DropSet(fstate) : q \in Leaves(p)

(***************************************************************************)
(* The drop set names nothing that is surely not there: a leaf below one   *)
(* of its places is owned, unless the analysis has that leaf moved, or     *)
(* moved or uninitialised on some path.                                    *)
(***************************************************************************)
DropSetOnlyOwned ==
  life = "suspended" =>
    \A p \in DropSet(fstate) : \A q \in Leaves(p) :
      \/ own[q] = "owned"
      \/ GetPlaceState(q, SuspensionPlaces(fstate)) \in {"Moved", "ConditionallyMoved"}

(***************************************************************************)
(* A future loses nothing on its way, and has dropped all it owned when it *)
(* is polled to its end, but for the futures in its locals that it never   *)
(* awaited.                                                                *)
(***************************************************************************)
CompletionLosesOnlyFutures == Committed("leak") \subseteq Futures

(***************************************************************************)
(* Nothing but futures is lost on the way.  S says, of positions of the    *)
(* version, which locals own nothing there, as in MoveCheck (Settles);     *)
(* here the arguments are there from the start, and a drop that was        *)
(* removed clears a local as well, if the second analysis agrees that it   *)
(* was dead.                                                               *)
(***************************************************************************)
Clears(f, S) ==
  \A a \in Declared(f), b \in DOMAIN f.code :
    /\ a \in Allocas(f, "param") => <<a, 1, 1>> \notin S
    /\ \A i \in DOMAIN f.code[b] :
         LET inst == f.code[b][i]
         IN  /\ inst.op = "alloca" /\ inst.place = a => <<a, b, i>> \in S
             /\ <<a, b, i + 1>> \in S =>
                  \/ inst.op \in {"move", "await", "drop", "free", "alloca", "nop"} /\ inst.place = a
                  \/ <<a, b, i>> \in S /\ ~(inst.op \in {"init", "param"} /\ IsAncestorOf(a, inst.place))
    /\ \A c \in ToSet(f.succ[b]) : <<a, c, 1>> \in S => <<a, b, Len(f.code[b]) + 1>> \in S
    /\ f.succ[b] = <<>> /\ f.ret[b] # a => <<a, b, Len(f.code[b]) + 1>> \in S

\* Every local is dropped at the end of its scope, or moved before, and the arguments with them.
ClearsItsLocals(f) == \E S : Clears(f, S)

\* A poll goes on with the instruction after the await that suspended.
ResumesWhereSuspended ==
  [][Poll /\ fstate # 0 => at' = <<at[1], at[2] + 1>>]_allVars

(***************************************************************************)
(* A future that is dropped before it is completed drops every value it    *)
(* owns exactly once.  Not so, see the README: nothing but futures is      *)
(* dropped, and a future awaited through a local is dropped twice.         *)
(***************************************************************************)
CancelLosesNothing == \A d \in destroyed : d[1] # "lost"
CancelDropsOnce    == \A d \in destroyed : d[1] # "twice"
=============================================================================
