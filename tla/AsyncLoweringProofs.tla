-------------------------- MODULE AsyncLoweringProofs --------------------------
(***************************************************************************)
(* Proofs about the life of a future, for every async function the         *)
(* generator can emit and every set of places: a poll goes on where the    *)
(* last one stopped, the drop set of an await is that of the future, and   *)
(* a future polled to its end loses nothing but futures.                   *)
(*                                                                         *)
(* The drop sets come from a second run of the analysis, on a version of   *)
(* the function without its dead drops, and the execution between two      *)
(* polls is the one of MoveCheck: what MoveCheckProofs says of the engine, *)
(* of an instruction and of a branch is used again for that version.       *)
(***************************************************************************)
EXTENDS AsyncLowering, MoveCheckProofs

-----------------------------------------------------------------------------
(* The numbers of the awaits.                                              *)

\* The positions of a function, and so its awaits, are finitely many.
LEMMA PositionsAre ==
  ASSUME NEW f \in Functions
  PROVE  /\ IsFiniteSet(AwaitsOf(f))
         /\ \A x \in Positions(f) : /\ x = <<x[1], x[2]>> /\ x[1] \in DOMAIN f.code /\ x[2] \in DOMAIN f.code[x[1]]
                                    /\ x[1] \in Nat /\ x[2] \in Nat \ {0}
<1>1. f.code \in Seq(Seq(Instructions))
  BY FunctionsAssumption DEF WellFormed
<1>3. DOMAIN f.code = 1 .. Len(f.code) /\ Len(f.code) \in Nat
  BY <1>1, LenProperties
<1>4. \A b \in DOMAIN f.code : DOMAIN f.code[b] = 1 .. Len(f.code[b]) /\ Len(f.code[b]) \in Nat
  BY CodeFacts
<1> DEFINE Row(b) == {<<b, i>> : i \in DOMAIN f.code[b]}
           Rows == {Row(b) : b \in DOMAIN f.code}
<1>5. ASSUME NEW b \in DOMAIN f.code PROVE IsFiniteSet(Row(b))
  <2> DEFINE g == [i \in DOMAIN f.code[b] |-> <<b, i>>]
  <2>1. g \in Surjection(DOMAIN f.code[b], Row(b))
    BY DEF Surjection
  <2>2. IsFiniteSet(DOMAIN f.code[b])
    BY <1>4, FS_Interval
  <2> HIDE DEF g, Row
  <2> QED
    BY <2>1, <2>2, FS_Surjection
<1>6. IsFiniteSet(Rows)
  <2> DEFINE g == [b \in DOMAIN f.code |-> Row(b)]
  <2> HIDE DEF Row
  <2>1. g \in Surjection(DOMAIN f.code, Rows)
    BY DEF Surjection
  <2>2. IsFiniteSet(DOMAIN f.code)
    BY <1>3, FS_Interval
  <2> HIDE DEF g, Rows
  <2> QED
    BY <2>1, <2>2, FS_Surjection
<1>7. Positions(f) = UNION Rows
  BY DEF Positions
<1> HIDE DEF Row
<1>8. \A R \in Rows : IsFiniteSet(R)
  BY <1>5
<1> HIDE DEF Rows
<1>9. IsFiniteSet(Positions(f))
  BY <1>6, <1>7, <1>8, FS_UNION
<1>10. IsFiniteSet(AwaitsOf(f))
  BY <1>9, FS_Subset DEF AwaitsOf
<1>11. ASSUME NEW x \in Positions(f)
       PROVE  /\ x = <<x[1], x[2]>> /\ x[1] \in DOMAIN f.code /\ x[2] \in DOMAIN f.code[x[1]]
              /\ x[1] \in Nat /\ x[2] \in Nat \ {0}
  <2>1. PICK b \in DOMAIN f.code : \E i \in DOMAIN f.code[b] : x = <<b, i>>
    BY DEF Positions
  <2>2. PICK i \in DOMAIN f.code[b] : x = <<b, i>>
    BY <2>1
  <2> QED
    BY <1>3, <1>4, <2>2
<1> QED
  BY <1>10, <1>11

\* Two awaits have different numbers, none of which is 0 or that of a completed future.
LEMMA AwaitsDiffer ==
  ASSUME NEW f \in Functions, NEW x \in AwaitsOf(f)
  PROVE  /\ AwaitId(f, x) \in Nat \ {0}
         /\ AwaitPoint(f, AwaitId(f, x)) = x
<1> DEFINE Earlier(y) == {z \in AwaitsOf(f) : Before(z, y)}
<1>1. IsFiniteSet(AwaitsOf(f)) /\ AwaitsOf(f) \subseteq Positions(f)
  BY PositionsAre DEF AwaitsOf
<1>2. ASSUME NEW y \in AwaitsOf(f)
      PROVE  IsFiniteSet(Earlier(y)) /\ Cardinality(Earlier(y)) \in Nat /\ AwaitId(f, y) = Cardinality(Earlier(y)) + 1
  BY <1>1, FS_Subset, FS_CardinalityType DEF AwaitId
<1>3. ASSUME NEW y \in AwaitsOf(f), NEW z \in AwaitsOf(f), Before(y, z) PROVE AwaitId(f, y) < AwaitId(f, z)
  <2>1. /\ y = <<y[1], y[2]>> /\ y[1] \in Nat /\ y[2] \in Nat
        /\ z[1] \in Nat /\ z[2] \in Nat
    BY <1>1, PositionsAre
  <2>2. Earlier(y) \subseteq Earlier(z)
    <3> SUFFICES ASSUME NEW w \in AwaitsOf(f), Before(w, y) PROVE Before(w, z)
      OBVIOUS
    <3>1. w[1] \in Nat /\ w[2] \in Nat
      BY <1>1, PositionsAre
    <3> QED
      BY <1>3, <2>1, <3>1 DEF Before
  <2>3. y \in Earlier(z) /\ y \notin Earlier(y)
    BY <1>3, <2>1 DEF Before
  <2> HIDE DEF Earlier
  <2>4. Cardinality(Earlier(y)) <= Cardinality(Earlier(z)) /\ Cardinality(Earlier(y)) # Cardinality(Earlier(z))
    BY <1>2, <2>2, <2>3, FS_Subset
  <2> QED
    BY <1>2, <2>4
<1>4. ASSUME NEW y \in AwaitsOf(f), y # x PROVE Before(x, y) \/ Before(y, x)
  <2>1. /\ y = <<y[1], y[2]>> /\ y[1] \in Nat /\ y[2] \in Nat
        /\ x = <<x[1], x[2]>> /\ x[1] \in Nat /\ x[2] \in Nat
    BY <1>1, PositionsAre
  <2> QED
    BY <1>4, <2>1 DEF Before
<1> HIDE DEF Earlier
<1>5. ASSUME NEW y \in AwaitsOf(f), y # x PROVE AwaitId(f, y) # AwaitId(f, x)
  <2>1. AwaitId(f, x) \in Nat /\ AwaitId(f, y) \in Nat
    BY <1>2
  <2>2. AwaitId(f, x) < AwaitId(f, y) \/ AwaitId(f, y) < AwaitId(f, x)
    BY <1>3, <1>4, <1>5
  <2> QED
    BY <2>1, <2>2
<1>6. AwaitId(f, x) \in Nat \ {0}
  BY <1>2
<1> QED
  BY <1>5, <1>6 DEF AwaitPoint

-----------------------------------------------------------------------------
(* The version of the function without its dead drops.                     *)

LEMMA VersionIs ==
  ASSUME NEW f \in Functions, NEW D \in SUBSET DropsOf(f)
  PROVE  /\ Without(f, D) \in Functions
         /\ DOMAIN Without(f, D).code = DOMAIN f.code
         /\ \A b \in DOMAIN f.code :
              /\ DOMAIN Without(f, D).code[b] = DOMAIN f.code[b]
              /\ \A i \in DOMAIN f.code[b] :
                   Without(f, D).code[b][i] = IF <<b, i>> \in D THEN Removed(f.code[b][i]) ELSE f.code[b][i]
<1> DEFINE code == [b \in DOMAIN f.code |->
                      [i \in DOMAIN f.code[b] |-> IF <<b, i>> \in D THEN Removed(f.code[b][i]) ELSE f.code[b][i]]]
<1>1. Without(f, D) \in Functions /\ "code" \in DOMAIN f
  BY VersionsAssumption
<1>2. Without(f, D) = [f EXCEPT !.code = code]
  BY DEF Without
<1>3. /\ DOMAIN code = DOMAIN f.code
      /\ \A b \in DOMAIN f.code :
           /\ DOMAIN code[b] = DOMAIN f.code[b]
           /\ \A i \in DOMAIN f.code[b] : code[b][i] = IF <<b, i>> \in D THEN Removed(f.code[b][i]) ELSE f.code[b][i]
  OBVIOUS
<1> HIDE DEF code
<1>4. Without(f, D).code = code
  BY <1>1, <1>2
<1> QED
  BY <1>1, <1>3, <1>4

\* What was removed does nothing, the rest is as it was.
LEMMA VersionInsts ==
  ASSUME NEW f \in Functions, NEW D \in SUBSET DropsOf(f), NEW b \in DOMAIN f.code, NEW i \in DOMAIN f.code[b]
  PROVE  /\ Without(f, D).code[b][i].place = f.code[b][i].place
         /\ f.code[b][i].op # "drop" => Without(f, D).code[b][i].op = f.code[b][i].op
         /\ <<b, i>> \in D => f.code[b][i].op = "drop" /\ Without(f, D).code[b][i].op = "nop"
         /\ <<b, i>> \notin D => Without(f, D).code[b][i] = f.code[b][i]
<1>1. Without(f, D).code[b][i] = IF <<b, i>> \in D THEN Removed(f.code[b][i]) ELSE f.code[b][i]
  BY VersionIs
<1>2. f.code[b][i] \in Instructions
  BY InstFacts
<1>3. /\ Removed(f.code[b][i]).op = "nop"
      /\ Removed(f.code[b][i]).place = f.code[b][i].place
  BY <1>2 DEF Removed, Instructions
<1>4. <<b, i>> \in D => f.code[b][i].op = "drop"
  BY DEF DropsOf
<1> QED
  BY <1>1, <1>3, <1>4

LEMMA VersionAllocas ==
  ASSUME NEW f \in Functions, NEW D \in SUBSET DropsOf(f), NEW op \in {"alloca", "param"}
  PROVE  Allocas(Without(f, D), op) = Allocas(f, op)
<1> DEFINE g == Without(f, D)
<1>1. /\ g \in Functions /\ DOMAIN g.code = DOMAIN f.code
      /\ \A b \in DOMAIN f.code : DOMAIN g.code[b] = DOMAIN f.code[b]
  BY VersionIs
<1>2. \A b \in DOMAIN f.code : \A i \in DOMAIN f.code[b] :
        /\ g.code[b][i].place = f.code[b][i].place
        /\ g.code[b][i].op = op <=> f.code[b][i].op = op
  <2> SUFFICES ASSUME NEW b \in DOMAIN f.code, NEW i \in DOMAIN f.code[b]
               PROVE  /\ g.code[b][i].place = f.code[b][i].place
                      /\ g.code[b][i].op = op <=> f.code[b][i].op = op
    OBVIOUS
  <2>1. CASE <<b, i>> \in D
    <3>1. g.code[b][i].place = f.code[b][i].place /\ f.code[b][i].op = "drop" /\ g.code[b][i].op = "nop"
      BY <2>1, VersionInsts
    <3> QED
      BY <3>1
  <2>2. CASE <<b, i>> \notin D
    <3>1. g.code[b][i] = f.code[b][i]
      BY <2>2, VersionInsts
    <3> QED
      BY <3>1
  <2> QED
    BY <2>1, <2>2
<1> HIDE DEF g
<1>3. ASSUME NEW p \in Allocas(f, op) PROVE p \in Allocas(g, op)
  <2>1. PICK b \in DOMAIN f.code : \E i \in DOMAIN f.code[b] : f.code[b][i].op = op /\ f.code[b][i].place = p
    BY AllocasAre
  <2>2. PICK i \in DOMAIN f.code[b] : f.code[b][i].op = op /\ f.code[b][i].place = p
    BY <2>1
  <2>3. g.code[b][i].op = op /\ g.code[b][i].place = p /\ b \in DOMAIN g.code /\ i \in DOMAIN g.code[b]
    BY <1>1, <1>2, <2>2
  <2> QED
    BY <1>1, <2>3, InstFacts
<1>4. ASSUME NEW p \in Allocas(g, op) PROVE p \in Allocas(f, op)
  <2>1. PICK b \in DOMAIN g.code : \E i \in DOMAIN g.code[b] : g.code[b][i].op = op /\ g.code[b][i].place = p
    BY <1>1, AllocasAre
  <2>2. PICK i \in DOMAIN g.code[b] : g.code[b][i].op = op /\ g.code[b][i].place = p
    BY <2>1
  <2>3. f.code[b][i].op = op /\ f.code[b][i].place = p /\ b \in DOMAIN f.code /\ i \in DOMAIN f.code[b]
    BY <1>1, <1>2, <2>2
  <2> QED
    BY <2>3, InstFacts
<1> QED
  BY <1>3, <1>4 DEF g

\* The engine starts on the version as it starts on any function.
LEMMA EngineRestarts == MoveEngine /\ EngineInit' => EngineInv' /\ WholeInv'
<1>1. MoveEngine /\ EngineInit => EngineInv /\ WholeInv
  BY InitInv, AnalysisInit, WholeStart DEF EngineInv
<1>2. MoveEngine' <=> MoveEngine
  BY DEF MoveEngine
<1> QED
  BY <1>1, <1>2, PTL

LEMMA EngineGoesOn == EngineInv /\ WholeInv /\ [EngineNext]_engineVars => EngineInv' /\ WholeInv'
<1>1. MoveEngine' <=> MoveEngine
  BY DEF MoveEngine
<1> QED
  BY <1>1, FixpointStep, AnalysisStep, WholeStep DEF EngineInv

-----------------------------------------------------------------------------
(* Where the future is.                                                    *)

\* What the arguments fill.
AtKickoff == [q \in LeafPlaces |-> IF \E p \in Allocas(func, "param") : q \in Leaves(p) THEN "owned" ELSE "uninit"]

\* The future that the await at x waits for.
Awaiting(x) == IF func.code[x[1]][x[2]].op = "await" THEN func.code[x[1]][x[2]].place ELSE Temp

\* A suspended future has not been polled, or it is at the await that its state names.
Pending ==
  \/ fstate = 0 /\ child = <<>> /\ at = <<1, 1>> /\ own = AtKickoff
  \/ at \in AwaitsOf(func) /\ fstate = AwaitId(func, at) /\ child = Awaiting(at)

RemovedInv == \A x \in deadDrops : x \in Positions(func) /\ func.code[x[1]][x[2]].op = "nop"

Begun == life \in {"suspended", "running"}

LifeInv ==
  /\ EngineInv /\ WholeInv
  /\ life \in {"source", "lowering", "lowered", "suspended", "running", "completed", "freed"}
  /\ own \in Fates /\ at = <<at[1], at[2]>>
  /\ life = "source" => CheckInv
  /\ life \in {"source", "lowering", "lowered"} => at = <<1, 1>>
  /\ life \in {"lowering", "lowered"} \/ Begun => phase = "run" /\ RemovedInv
  /\ life \notin {"source", "lowering"} => finished
  /\ life = "suspended" => Pending
  /\ life = "running" => child = <<>>
  /\ Begun => /\ at[1] \in reachable /\ at[2] \in 1 .. Len(func.code[at[1]]) + 1
              /\ own[Temp] = "owned" => child = Temp

\* No instruction but the call itself names the future of a call that is awaited at once.
LEMMA TempIsApart ==
  /\ Temp \in LeafPlaces /\ Temp # <<>> /\ Temp \in Leaves(Temp)
  /\ \A q \in Leaves(Temp) : q = Temp
  /\ \A f \in Functions : \A b \in DOMAIN f.code : \A i \in DOMAIN f.code[b] :
       f.code[b][i].op # "awaitcall" => Temp \notin Leaves(f.code[b][i].place) /\ f.code[b][i].place # Temp
  /\ \A f \in Functions : \A p \in Allocas(f, "param") : Temp \notin Leaves(p)
<1>1. Temp \in LeafPlaces /\ Temp \in Leaves(Temp)
  BY TempAssumption, Self DEF LeafPlaces, Leaves
<1>2. Temp # <<>>
  <2>1. Len(Temp) > 0
    BY <1>1, PlaceFacts DEF LeafPlaces
  <2> QED
    BY <2>1
<1>3. \A q \in Leaves(Temp) : q = Temp
  BY <1>1, TempAssumption, NothingBelow DEF Leaves
<1>4. ASSUME NEW f \in Functions, NEW b \in DOMAIN f.code, NEW i \in DOMAIN f.code[b], f.code[b][i].op # "awaitcall"
      PROVE  Temp \notin Leaves(f.code[b][i].place) /\ f.code[b][i].place # Temp
  <2>1. <<b, i>> \in Positions(f)
    BY DEF Positions
  <2>2. ~IsAncestorOf(f.code[b][i].place, Temp)
    BY <1>4, <2>1, TempAssumption
  <2> QED
    BY <1>1, <2>2 DEF Leaves
<1>5. ASSUME NEW f \in Functions, NEW p \in Allocas(f, "param") PROVE Temp \notin Leaves(p)
  <2>1. PICK b \in DOMAIN f.code : \E i \in DOMAIN f.code[b] : f.code[b][i].op = "param" /\ f.code[b][i].place = p
    BY AllocasAre
  <2>2. PICK i \in DOMAIN f.code[b] : f.code[b][i].op = "param" /\ f.code[b][i].place = p
    BY <2>1
  <2> QED
    BY <1>4, <2>2
<1> QED
  BY <1>1, <1>2, <1>3, <1>4, <1>5

LEMMA SetGives ==
  ASSUME own \in Fates, NEW p, NEW v \in {"uninit", "owned", "gone"}
  PROVE  /\ Set(p, v) \in Fates
         /\ \A q \in LeafPlaces : Set(p, v)[q] = IF q \in Leaves(p) THEN v ELSE own[q]
BY DEF Set, Fates

\* The instruction a running future is at: the cleaned one is the one of the version.
LEMMA AtFacts ==
  ASSUME LifeInv, Begun
  PROVE  /\ func \in Functions /\ at[1] \in DOMAIN func.code /\ at[1] \in Blocks /\ at[2] \in Nat \ {0}
         /\ Len(func.code[at[1]]) \in Nat /\ DOMAIN func.code[at[1]] = 1 .. Len(func.code[at[1]])
         /\ at[2] <= Len(func.code[at[1]]) =>
              /\ at[2] \in DOMAIN func.code[at[1]] /\ at \in Positions(func)
              /\ Cleaned(at[1], at[2]) = func.code[at[1]][at[2]]
         /\ Now \in PlaceStates /\ Tidy(func, Now)
<1>1. /\ func \in Functions /\ at[1] \in DOMAIN func.code /\ at[1] \in Blocks
      /\ at[2] \in 1 .. Len(func.code[at[1]]) + 1
  BY FunctionShape DEF LifeInv, EngineInv, FixpointInv, EngineTypeOK
<1>2. Len(func.code[at[1]]) \in Nat /\ DOMAIN func.code[at[1]] = 1 .. Len(func.code[at[1]])
  BY <1>1, CodeFacts
<1>3. state[at[1]].places \in PlaceStates /\ Tidy(func, state[at[1]].places)
  BY <1>1 DEF LifeInv, EngineInv, AnalysisInv, MoveStates
<1>4. at[2] - 1 \in 0 .. Len(func.code[at[1]])
  BY <1>1, <1>2
<1>5. Now \in PlaceStates /\ Tidy(func, Now)
  BY <1>1, <1>3, <1>4, BlockFacts DEF Now, PlacesBefore
<1>6. ASSUME at[2] <= Len(func.code[at[1]])
      PROVE  /\ at[2] \in DOMAIN func.code[at[1]] /\ at \in Positions(func)
             /\ Cleaned(at[1], at[2]) = func.code[at[1]][at[2]]
  <2>1. at[2] \in DOMAIN func.code[at[1]]
    BY <1>1, <1>2, <1>6
  <2>2. at = <<at[1], at[2]>> /\ RemovedInv
    BY DEF LifeInv
  <2>3. <<at[1], at[2]>> \in Positions(func)
    BY <1>1, <2>1 DEF Positions
  <2>4. <<at[1], at[2]>> \in deadDrops => func.code[at[1]][at[2]].op = "nop"
    BY <2>2 DEF RemovedInv
  <2>5. func.code[at[1]][at[2]] \in Instructions
    BY <1>1, <2>1, InstFacts
  <2>6. func.code[at[1]][at[2]].op = "nop" => Removed(func.code[at[1]][at[2]]) = func.code[at[1]][at[2]]
    BY <2>5 DEF Removed, Instructions
  <2> QED
    BY <2>1, <2>2, <2>3, <2>4, <2>6 DEF Cleaned
<1> QED
  BY <1>1, <1>2, <1>5, <1>6

LEMMA LifeStarts == MoveEngine /\ AsyncInit => LifeInv
<1> SUFFICES ASSUME MoveEngine, AsyncInit PROVE LifeInv
  OBVIOUS
<1>1. Init /\ life = "source"
  BY DEF AsyncInit
<1>2. CheckInv /\ EngineInv
  BY <1>1, CheckInit DEF CheckInv, EngineInv
<1>3. WholeInv
  BY <1>1, <1>2, WholeStart DEF Init
<1>4. at = <<1, 1>> /\ own \in Fates
  BY <1>1, <1>2 DEF Init, CheckInv, PositionInv
<1> QED
  BY <1>1, <1>2, <1>3, <1>4 DEF LifeInv, Begun

LEMMA CheckKeeps == LifeInv /\ Check => LifeInv'
<1> SUFFICES ASSUME LifeInv, Check PROVE LifeInv'
  OBVIOUS
<1>1. life = "source" /\ life' = "source" /\ CheckInv /\ at = <<1, 1>>
  BY DEF LifeInv, Check, asyncVars
<1>2. Analyse \/ EmitBlock \/ FinishCheck
  BY DEF Check
<1>3. [Next]_vars
  BY <1>2 DEF Next
<1>4. CheckInv'
  BY <1>1, <1>3, CheckStep
<1>5. EngineInv' /\ WholeInv'
  BY <1>3, EngineAlong, EngineGoesOn DEF LifeInv
<1>6. at' = at /\ own' = own
  BY <1>2 DEF Analyse, EmitBlock, FinishCheck, runVars
<1>7. own' \in Fates
  BY <1>6 DEF LifeInv, Fates, LeafPlaces
<1> QED
  BY <1>1, <1>4, <1>5, <1>6, <1>7 DEF LifeInv, Begun

\* The version: what was removed from the function does nothing.
LEMMA LowerKeeps == LifeInv /\ Lower => LifeInv'
<1> SUFFICES ASSUME LifeInv, Lower PROVE LifeInv'
  OBVIOUS
<1>1. /\ life = "source" /\ life' = "lowering" /\ phase = "run" /\ CheckInv /\ at = <<1, 1>>
      /\ UNCHANGED <<phase, deadDrops, at, own>>
  BY DEF LifeInv, Lower, checkVars, runVars
<1>2. /\ func \in Functions /\ Blocks = DOMAIN func.code /\ NumBlocks(func) = Len(func.code) /\ MoveEngine
      /\ Blocks = 1 .. Len(func.code)
  BY <1>1, FunctionShape DEF CheckInv, FixpointInv
<1>3. deadDrops \in SUBSET DropsOf(func)
  <2> SUFFICES ASSUME NEW x \in deadDrops PROVE x \in DropsOf(func)
    OBVIOUS
  <2>1. PICK b \in 1 .. emitted : x \in BlockDeadDrops(b)
    BY <1>1 DEF CheckInv, ReportInv
  <2>2. b \in DOMAIN func.code
    BY <1>1, <1>2 DEF CheckInv, ReportInv, Blocks
  <2>3. PICK i \in DOMAIN func.code[b] : x = <<b, i>> /\ func.code[b][i].op = "drop"
    BY <2>1 DEF BlockDeadDrops
  <2>4. x \in Positions(func)
    BY <2>2, <2>3 DEF Positions
  <2> QED
    BY <2>3, <2>4 DEF DropsOf
<1> DEFINE g == Without(func, deadDrops)
<1>4. /\ func' = g /\ g \in Functions /\ DOMAIN g.code = DOMAIN func.code
      /\ \A b \in DOMAIN func.code : DOMAIN g.code[b] = DOMAIN func.code[b]
  BY <1>2, <1>3, VersionIs DEF Lower
<1>5. Blocks' = Blocks
  <2>1. NumBlocks(g) = Len(g.code) /\ Len(g.code) \in Nat /\ DOMAIN g.code = 1 .. Len(g.code)
    <3>1. g.code \in Seq(Seq(Instructions))
      BY <1>4, FunctionsAssumption DEF WellFormed
    <3> QED
      BY <1>2, <1>4, <3>1, LenProperties DEF MoveEngine, MoveNumBlocks
  <2>2. Len(func.code) \in Nat /\ DOMAIN func.code = 1 .. Len(func.code)
    <3>1. func.code \in Seq(Seq(Instructions))
      BY <1>2, FunctionsAssumption DEF WellFormed
    <3> QED
      BY <3>1, LenProperties
  <2>3. Blocks' = 1 .. NumBlocks(g)
    BY <1>4 DEF Blocks
  <2> HIDE DEF g
  <2> QED
    BY <1>2, <1>4, <2>1, <2>2, <2>3
<1>6. EntryState(g) = EntryState(func)
  <2>1. Allocas(g, "alloca") = Allocas(func, "alloca") /\ Allocas(g, "param") = Allocas(func, "param")
    BY <1>2, <1>3, VersionAllocas
  <2>2. MoveEntryState(g) = MoveEntryState(func)
    BY <2>1 DEF MoveEntryState
  <2> QED
    BY <1>2, <1>4, <2>2 DEF MoveEngine
<1>7. EngineInit'
  BY <1>4, <1>5, <1>6 DEF EngineInit, Lower
<1>8. EngineInv' /\ WholeInv'
  BY <1>2, <1>7, EngineRestarts
<1>9. RemovedInv'
  <2> SUFFICES ASSUME NEW x \in deadDrops PROVE x \in Positions(g) /\ g.code[x[1]][x[2]].op = "nop"
    BY <1>1, <1>4 DEF RemovedInv
  <2>1. x \in Positions(func) /\ <<x[1], x[2]>> \in deadDrops
    BY <1>2, <1>3, PositionsAre DEF DropsOf
  <2>2. x = <<x[1], x[2]>> /\ x[1] \in DOMAIN func.code /\ x[2] \in DOMAIN func.code[x[1]]
    BY <1>2, <2>1, PositionsAre
  <2>3. g.code[x[1]][x[2]].op = "nop"
    BY <1>2, <1>3, <2>1, <2>2, VersionInsts
  <2>4. <<x[1], x[2]>> \in Positions(g)
    BY <1>4, <2>2 DEF Positions
  <2> QED
    BY <2>2, <2>3, <2>4
<1>10. own' \in Fates
  BY <1>1 DEF LifeInv, Fates, LeafPlaces
<1> QED
  BY <1>1, <1>8, <1>9, <1>10 DEF LifeInv, Begun

LEMMA FindSuspensionsKeeps == LifeInv /\ FindSuspensions => LifeInv'
<1> SUFFICES ASSUME LifeInv, FindSuspensions PROVE LifeInv'
  OBVIOUS
<1>1. /\ life = "lowering" /\ EngineNext /\ life' = (IF finished' THEN "lowered" ELSE "lowering")
      /\ UNCHANGED <<phase, deadDrops, at, own>>
  BY DEF FindSuspensions, checkVars, runVars
<1>2. EngineInv' /\ WholeInv'
  BY <1>1, EngineGoesOn DEF LifeInv
<1>3. func' = func
  BY <1>1 DEF EngineNext, SkipUnreachable, TransferBlock, PropagateEdge, LeaveBlock, EndPass
<1>4. own' \in Fates /\ RemovedInv' /\ phase' = "run" /\ at' = <<1, 1>>
  BY <1>1, <1>3 DEF LifeInv, Fates, LeafPlaces, RemovedInv
<1> QED
  BY <1>1, <1>2, <1>4 DEF LifeInv, Begun

LEMMA KickoffKeeps == LifeInv /\ Kickoff => LifeInv'
<1> SUFFICES ASSUME LifeInv, Kickoff PROVE LifeInv'
  OBVIOUS
<1>1. /\ life = "lowered" /\ life' = "suspended" /\ fstate' = 0 /\ child' = <<>> /\ at = <<1, 1>> /\ own \in Fates
      /\ UNCHANGED <<engineVars, phase, deadDrops, at>> /\ UNCHANGED <<func, reachable, finished>>
  BY DEF LifeInv, Kickoff, checkVars, engineVars
<1>2. EngineInv' /\ WholeInv'
  BY <1>1, EngineGoesOn DEF LifeInv
<1>3. own' = AtKickoff
  BY <1>1 DEF Kickoff, AtKickoff, Fates
<1>4. own' \in Fates
  BY <1>3 DEF AtKickoff, Fates
<1>5. func \in Functions /\ 1 \in reachable /\ 1 \in DOMAIN func.code
  BY FunctionShape DEF LifeInv, EngineInv, FixpointInv, EngineTypeOK
<1>6. 1 \in 1 .. Len(func.code[1]) + 1
  BY <1>5, CodeFacts
<1>7. own'[Temp] # "owned"
  BY <1>3, <1>5, TempIsApart DEF AtKickoff
<1>8. (AtKickoff)' = AtKickoff
  BY <1>1 DEF AtKickoff, LeafPlaces, Leaves
<1> QED
  BY <1>1, <1>2, <1>3, <1>4, <1>5, <1>6, <1>7, <1>8 DEF LifeInv, Begun, Pending, RemovedInv

-----------------------------------------------------------------------------
(* The steps of a future that goes past an instruction.                    *)

\* What the future owns, but for the future of a call that it awaits at once.
Mine == [q \in LeafPlaces |-> IF q = Temp THEN "uninit" ELSE own[q]]

\* An instruction of the version is always executed.
Runs(inst, o, o2) ==
  \A q \in LeafPlaces :
    o2[q] = IF ~IsAncestorOf(inst.place, q) THEN o[q]
            ELSE CASE inst.op = "alloca" -> "uninit"
                   [] inst.op \in {"param", "init"} -> "owned"
                   [] inst.op \in {"move", "await", "drop", "free"} -> "gone"
                   [] OTHER -> o[q]

Advance == (Poll /\ fstate # 0) \/ Skip \/ Step

\* A poll after an await executes the await; ResumesWhereSuspended is a part of this.
LEMMA PollResumes ==
  ASSUME LifeInv, Poll, fstate # 0
  PROVE  /\ at \in AwaitsOf(func) /\ child = Awaiting(at) /\ at' = <<at[1], at[2] + 1>>
         /\ own' = Set(child, "gone")
<1>1. life = "suspended" /\ Pending /\ func \in Functions
  BY DEF Poll, LifeInv, EngineInv, FixpointInv, FuncOK
<1>2. at \in AwaitsOf(func) /\ fstate = AwaitId(func, at) /\ child = Awaiting(at)
  BY <1>1 DEF Pending
<1>3. AwaitPoint(func, fstate) = at
  BY <1>1, <1>2, AwaitsDiffer
<1>4. at' = <<at[1], at[2] + 1>>
  BY <1>3 DEF Poll, ResumeAt
<1>5. child # <<>>
  <2>1. at \in Positions(func)
    BY <1>2 DEF AwaitsOf
  <2>2. at[1] \in DOMAIN func.code /\ at[2] \in DOMAIN func.code[at[1]]
    BY <1>1, <2>1, PositionsAre
  <2>3. Len(func.code[at[1]][at[2]].place) > 0
    BY <1>1, <2>2, InstFacts, PlaceFacts
  <2>4. func.code[at[1]][at[2]].place # <<>>
    BY <2>3
  <2> QED
    BY <1>2, <2>4, TempIsApart DEF Awaiting
<1> QED
  BY <1>2, <1>4, <1>5 DEF Poll

LEMMA AdvanceGoes ==
  ASSUME LifeInv, Advance
  PROVE  /\ Begun /\ at[1] \in DOMAIN func.code /\ at[2] \in DOMAIN func.code[at[1]] /\ at' = <<at[1], at[2] + 1>>
         /\ UNCHANGED <<engineVars, checkVars>>
         /\ life' = "running" /\ child' = <<>>
<1>1. CASE Poll /\ fstate # 0
  <2>1. at \in Positions(func) /\ at' = <<at[1], at[2] + 1>> /\ func \in Functions
    BY <1>1, PollResumes DEF AwaitsOf, LifeInv, EngineInv, FixpointInv, FuncOK
  <2>2. at[1] \in DOMAIN func.code /\ at[2] \in DOMAIN func.code[at[1]]
    BY <2>1, PositionsAre
  <2>3. Begun /\ UNCHANGED <<engineVars, checkVars>> /\ life' = "running" /\ child' = <<>>
    BY <1>1 DEF Poll, Begun
  <2> QED
    BY <2>1, <2>2, <2>3
<1>2. CASE Skip
  <2>1. /\ Begun /\ HasNext /\ at' = <<at[1], at[2] + 1>> /\ UNCHANGED <<engineVars, checkVars>>
        /\ life' = "running" /\ child' = child /\ life = "running"
    BY <1>2 DEF Skip, Begun, asyncVars
  <2> QED
    BY <2>1, AtFacts DEF HasNext, LifeInv
<1>3. CASE Step
  <2>1. /\ Begun /\ HasNext /\ at' = <<at[1], at[2] + 1>> /\ UNCHANGED <<engineVars, checkVars>>
        /\ life' = "running" /\ child' = child /\ life = "running"
    BY <1>3 DEF Step, Begun, asyncVars, StepInst
  <2> QED
    BY <2>1, AtFacts DEF HasNext, LifeInv
<1> QED
  BY <1>1, <1>2, <1>3 DEF Advance

LEMMA NowAdvances ==
  ASSUME LifeInv, Advance
  PROVE  Now' = TransferInst(Now, func.code[at[1]][at[2]])
<1>1. /\ Begun /\ at[1] \in DOMAIN func.code /\ at[2] \in DOMAIN func.code[at[1]] /\ at' = <<at[1], at[2] + 1>>
      /\ UNCHANGED <<func, state>>
  BY AdvanceGoes DEF engineVars
<1>2. /\ func \in Functions /\ at[1] \in Blocks /\ DOMAIN func.code[at[1]] = 1 .. Len(func.code[at[1]])
      /\ Len(func.code[at[1]]) \in Nat
  BY <1>1, AtFacts
<1>3. state[at[1]].places \in PlaceStates /\ func.code[at[1]] \in Seq(Instructions)
  BY <1>1, <1>2, CodeFacts DEF LifeInv, EngineInv, AnalysisInv, MoveStates
<1>4. at[2] \in 1 .. Len(func.code[at[1]]) /\ at'[1] = at[1] /\ at'[2] = at[2] + 1 /\ at'[2] - 1 = at[2]
  BY <1>1, <1>2
<1>5. Now' = TransferInsts(state[at[1]].places, SubSeq(func.code[at[1]], 1, at[2]))
  <2>1. Now' = TransferInsts(state'[at'[1]].places, SubSeq(func'.code[at'[1]], 1, at'[2] - 1))
    BY DEF Now, PlacesBefore
  <2> QED
    BY <1>1, <1>4, <2>1
<1> QED
  BY <1>3, <1>4, <1>5, InstStep DEF Now, PlacesBefore

\* What the step does to the fates, whichever action of the model executes the instruction.
LEMMA AdvanceSets ==
  ASSUME LifeInv, Advance
  PROVE  LET inst == func.code[at[1]][at[2]]
         IN  /\ inst.op = "alloca" => own' = Set(inst.place, "uninit")
             /\ inst.op = "init" => own' = Set(inst.place, "owned")
             /\ inst.op \in {"move", "await", "drop", "free"} => own' = Set(inst.place, "gone")
             /\ inst.op = "awaitcall" => own' = Set(Temp, "gone") /\ child = Temp
             /\ inst.op \notin {"alloca", "init", "move", "await", "drop", "free", "awaitcall"} => own' = own
<1> DEFINE inst == func.code[at[1]][at[2]]
<1>1. Begun /\ at[1] \in DOMAIN func.code /\ at[2] \in DOMAIN func.code[at[1]]
  BY AdvanceGoes
<1>2. Cleaned(at[1], at[2]) = inst /\ Current = inst
  BY <1>1, AtFacts DEF Current
<1>3. CASE Poll /\ fstate # 0
  <2>1. at \in AwaitsOf(func) /\ child = Awaiting(at) /\ own' = Set(child, "gone")
    BY <1>3, PollResumes
  <2>2. inst.op \in {"await", "awaitcall"}
    BY <2>1 DEF AwaitsOf, Awaits
  <2> QED
    BY <2>1, <2>2 DEF Awaiting
<1>4. CASE Skip
  <2>1. \/ inst.op = "param" /\ own' = own
        \/ inst.op = "alloca" /\ own' = Set(inst.place, "uninit")
        \/ inst.op = "drop" /\ own' = Set(inst.place, "gone")
    BY <1>2, <1>4 DEF Skip, Abandon
  <2> QED
    BY <2>1
<1>5. CASE Step
  <2>1. inst.op \notin {"await", "awaitcall", "alloca", "param"} /\ StepInst
    BY <1>2, <1>5 DEF Step, Awaits
  <2>2. CASE inst.op \in {"init", "move", "drop", "free"}
    <3>1. own' = Set(inst.place, IF inst.op = "init" THEN "owned" ELSE "gone")
      <4>1. CASE inst.op = "init"
        BY <1>2, <2>1, <4>1 DEF StepInst
      <4>2. CASE inst.op = "move"
        BY <1>2, <2>1, <4>2 DEF StepInst
      <4>3. CASE inst.op = "drop"
        BY <1>2, <2>1, <4>3 DEF StepInst
      <4>4. CASE inst.op = "free"
        BY <1>2, <2>1, <4>4 DEF StepInst
      <4> QED
        BY <2>2, <4>1, <4>2, <4>3, <4>4
    <3> QED
      BY <2>2, <3>1
  <2>3. CASE inst.op \notin {"init", "move", "drop", "free"}
    <3>1. own' = own
      BY <1>2, <2>1, <2>3 DEF StepInst
    <3> QED
      BY <2>1, <2>3, <3>1
  <2> QED
    BY <2>2, <2>3
<1> QED
  BY <1>3, <1>4, <1>5 DEF Advance

LEMMA AdvanceRuns ==
  ASSUME LifeInv, Advance
  PROVE  /\ own' \in Fates /\ own'[Temp] # "owned" /\ Mine \in Fates /\ Mine' \in Fates
         /\ func.code[at[1]][at[2]].op = "param" => own' = own
         /\ func.code[at[1]][at[2]].op # "param" => Runs(func.code[at[1]][at[2]], Mine, Mine')
<1> DEFINE inst == func.code[at[1]][at[2]]
           p == inst.place
           op == inst.op
<1>1. /\ Begun /\ at[1] \in DOMAIN func.code /\ at[2] \in DOMAIN func.code[at[1]]
      /\ func \in Functions /\ own \in Fates
  BY AdvanceGoes, AtFacts DEF LifeInv
<1>2. /\ op = "alloca" => own' = Set(p, "uninit")
      /\ op = "init" => own' = Set(p, "owned")
      /\ op \in {"move", "await", "drop", "free"} => own' = Set(p, "gone")
      /\ op = "awaitcall" => own' = Set(Temp, "gone") /\ child = Temp
      /\ op \notin {"alloca", "init", "move", "await", "drop", "free", "awaitcall"} => own' = own
  BY AdvanceSets
<1>3. p \in Places /\ (op # "awaitcall" => Temp \notin Leaves(p) /\ p # Temp)
  BY <1>1, InstFacts, TempIsApart
<1>4. \A q \in LeafPlaces : q \in Leaves(p) <=> IsAncestorOf(p, q)
  BY DEF Leaves, LeafPlaces
<1>5. op # "awaitcall" => own[Temp] # "owned"
  <2>1. own[Temp] = "owned" => child = Temp
    BY <1>1 DEF LifeInv
  <2>2. life = "running" => child = <<>>
    BY DEF LifeInv
  <2>3. CASE life = "running"
    BY <2>1, <2>2, <2>3, TempIsApart
  <2>4. CASE Poll /\ fstate # 0
    <3>1. child = Awaiting(at) /\ at \in AwaitsOf(func)
      BY <2>4, PollResumes
    <3>2. op # "awaitcall" => child = p
      BY <3>1 DEF AwaitsOf, Awaits, Awaiting
    <3> QED
      BY <1>3, <2>1, <3>2
  <2> QED
    BY <2>3, <2>4 DEF Advance, Skip, Step
<1> HIDE DEF inst, p, op
<1>6. own' \in Fates
  BY <1>1, <1>2, SetGives
<1>7. own'[Temp] # "owned"
  <2>1. CASE op = "awaitcall"
    BY <1>1, <1>2, <2>1, SetGives, TempIsApart
  <2>2. CASE op # "awaitcall"
    <3>1. Temp \in LeafPlaces /\ Temp \notin Leaves(p) /\ own[Temp] # "owned"
      BY <1>3, <1>5, <2>2, TempIsApart
    <3>2. \A v \in {"uninit", "owned", "gone"} : Set(p, v)[Temp] = own[Temp]
      BY <1>1, <3>1, SetGives
    <3> QED
      BY <1>2, <2>2, <3>1, <3>2
  <2> QED
    BY <2>1, <2>2
<1>8. Mine \in Fates /\ Mine' = [q \in LeafPlaces |-> IF q = Temp THEN "uninit" ELSE own'[q]]
  BY <1>1 DEF Mine, Fates, LeafPlaces
<1>9. Mine' \in Fates
  BY <1>6, <1>8 DEF Fates
<1>10. op = "param" => own' = own
  BY <1>2
<1>11. ASSUME op # "param" PROVE Runs(inst, Mine, Mine')
  <2> SUFFICES ASSUME NEW q \in LeafPlaces
               PROVE  Mine'[q] = IF ~IsAncestorOf(p, q) THEN Mine[q]
                                 ELSE CASE op = "alloca" -> "uninit"
                                        [] op \in {"param", "init"} -> "owned"
                                        [] op \in {"move", "await", "drop", "free"} -> "gone"
                                        [] OTHER -> Mine[q]
    BY DEF Runs, p, op
  <2>1. CASE op = "awaitcall"
    <3>1. q # Temp => own'[q] = own[q]
      BY <1>1, <1>2, <2>1, SetGives, TempIsApart
    <3>2. Mine'[q] = Mine[q]
      BY <1>8, <3>1 DEF Mine
    <3> QED
      BY <2>1, <3>2
  <2>2. CASE op # "awaitcall" /\ q = Temp
    <3>1. ~IsAncestorOf(p, q)
      BY <1>3, <1>4, <2>2
    <3>2. Mine'[q] = Mine[q]
      BY <1>8, <2>2 DEF Mine
    <3> QED
      BY <3>1, <3>2
  <2>3. CASE op # "awaitcall" /\ q # Temp
    <3>1. Mine[q] = own[q] /\ Mine'[q] = own'[q]
      BY <1>8, <2>3 DEF Mine
    <3>2. \A v \in {"uninit", "owned", "gone"} : Set(p, v)[q] = IF IsAncestorOf(p, q) THEN v ELSE own[q]
      BY <1>1, <1>4, SetGives
    <3> QED
      BY <1>2, <1>11, <2>3, <3>1, <3>2
  <2> QED
    BY <2>1, <2>2, <2>3
<1> QED
  BY <1>6, <1>7, <1>8, <1>9, <1>10, <1>11 DEF inst, op

LEMMA AdvanceKeeps == LifeInv /\ Advance => LifeInv'
<1> SUFFICES ASSUME LifeInv, Advance PROVE LifeInv'
  OBVIOUS
<1>1. /\ Begun /\ at[2] \in DOMAIN func.code[at[1]] /\ at' = <<at[1], at[2] + 1>>
      /\ UNCHANGED <<engineVars, phase, deadDrops>> /\ UNCHANGED <<func, reachable, finished>>
      /\ life' = "running" /\ child' = <<>>
  BY AdvanceGoes DEF engineVars, checkVars
<1>2. EngineInv' /\ WholeInv'
  BY <1>1, EngineGoesOn DEF LifeInv
<1>3. own' \in Fates /\ own'[Temp] # "owned" /\ (Fates)' = Fates
  BY AdvanceRuns DEF Fates, LeafPlaces
<1>4. DOMAIN func.code[at[1]] = 1 .. Len(func.code[at[1]]) /\ Len(func.code[at[1]]) \in Nat
  BY <1>1, AtFacts
<1>5. at[2] + 1 \in 1 .. Len(func.code[at[1]]) + 1
  BY <1>1, <1>4
<1>6. RemovedInv' /\ phase' = "run" /\ finished' /\ at[1] \in reachable
  BY <1>1 DEF LifeInv, Begun, RemovedInv
<1> QED
  BY <1>1, <1>2, <1>3, <1>5, <1>6 DEF LifeInv, Begun

LEMMA FirstPollKeeps == LifeInv /\ Poll /\ fstate = 0 => LifeInv' /\ own' = own /\ at' = at
<1> SUFFICES ASSUME LifeInv, Poll, fstate = 0 PROVE LifeInv' /\ own' = own /\ at' = at
  OBVIOUS
<1>1. /\ life = "suspended" /\ Pending /\ life' = "running" /\ child' = <<>> /\ at' = <<1, 1>>
      /\ UNCHANGED <<engineVars, phase, deadDrops>> /\ UNCHANGED <<func, reachable, finished>>
  BY DEF LifeInv, Poll, ResumeAt, checkVars, engineVars
<1>2. child = <<>> /\ at = <<1, 1>>
  <2>1. func \in Functions
    BY DEF LifeInv, EngineInv, FixpointInv, FuncOK
  <2>2. at \in AwaitsOf(func) => AwaitId(func, at) # 0
    BY <2>1, AwaitsDiffer
  <2> QED
    BY <1>1, <2>2 DEF Pending
<1>3. own' = own
  BY <1>2 DEF Poll
<1>4. EngineInv' /\ WholeInv'
  BY <1>1, EngineGoesOn DEF LifeInv
<1> QED
  BY <1>1, <1>2, <1>3, <1>4, TempIsApart DEF LifeInv, Begun, RemovedInv, Fates, LeafPlaces

LEMMA SuspendKeeps == LifeInv /\ Suspend => LifeInv' /\ at' = at /\ Mine' = Mine
<1> SUFFICES ASSUME LifeInv, Suspend PROVE LifeInv' /\ at' = at /\ Mine' = Mine
  OBVIOUS
<1>1. /\ life = "running" /\ Begun /\ at[2] <= Len(func.code[at[1]]) /\ Current.op \in Awaits
      /\ life' = "suspended" /\ at' = at /\ fstate' = AwaitId(func, at) /\ child = <<>>
      /\ UNCHANGED <<engineVars, phase, deadDrops>> /\ UNCHANGED <<func, reachable, finished>>
  BY DEF LifeInv, Suspend, HasNext, Begun, checkVars, engineVars
<1>2. /\ func \in Functions /\ at[1] \in DOMAIN func.code /\ at[2] \in DOMAIN func.code[at[1]]
      /\ at \in Positions(func) /\ own \in Fates
  BY <1>1, AtFacts DEF LifeInv
<1>3. at \in AwaitsOf(func)
  BY <1>1, <1>2 DEF AwaitsOf, Current
<1>4. child' = Awaiting(at) /\ (Awaiting(at) = Temp => own' = Set(Temp, "owned")) /\ (Awaiting(at) # Temp => own' = own)
  BY <1>1 DEF Suspend, Awaiting, Current
<1>5. own' \in Fates /\ (own'[Temp] = "owned" => child' = Temp)
  <2>1. own[Temp] # "owned"
    BY <1>1, TempIsApart DEF LifeInv
  <2> QED
    BY <1>2, <1>4, <2>1, SetGives
<1>6. Mine' = Mine
  <2>1. \A q \in LeafPlaces : q # Temp => own'[q] = own[q]
    BY <1>2, <1>4, SetGives, TempIsApart
  <2>2. Mine' = [q \in LeafPlaces |-> IF q = Temp THEN "uninit" ELSE own'[q]]
    BY DEF Mine, LeafPlaces
  <2> QED
    BY <2>1, <2>2 DEF Mine
<1>7. EngineInv' /\ WholeInv'
  BY <1>1, EngineGoesOn DEF LifeInv
<1>8. (at \in AwaitsOf(func))' /\ (Awaiting(at))' = Awaiting(at) /\ (Fates)' = Fates
  BY <1>1, <1>3 DEF Awaiting, Fates, LeafPlaces
<1>9. Pending'
  BY <1>1, <1>4, <1>8 DEF Pending
<1>10. RemovedInv' /\ phase' = "run" /\ finished'
  BY <1>1 DEF LifeInv, RemovedInv, Begun
<1>11. at'[1] \in reachable' /\ at'[2] \in 1 .. Len(func'.code[at'[1]]) + 1 /\ at' = <<at'[1], at'[2]>>
  BY <1>1 DEF LifeInv
<1> QED
  BY <1>1, <1>5, <1>6, <1>7, <1>8, <1>9, <1>10, <1>11 DEF LifeInv, Begun

\* A branch keeps what the analysis says of the end of the block, or weakens it.
LEMMA JumpFlows ==
  ASSUME LifeInv, Jump
  PROVE  /\ at'[1] \in reachable /\ at' = <<at'[1], 1>> /\ at'[1] # 1
         /\ UNCHANGED <<engineVars, checkVars, own, child>> /\ life = "running" /\ life' = "running"
         /\ Now' = state[at'[1]].places /\ DOMAIN Now \subseteq DOMAIN Now' /\ Now' \in PlaceStates
         /\ \A q \in Places : Weaker(q, Now', Now)
<1> DEFINE b == at[1]
<1>1. /\ life = "running" /\ life' = "running" /\ at[2] > Len(func.code[b]) /\ Begun
      /\ UNCHANGED <<engineVars, checkVars, own, child>> /\ UNCHANGED <<func, state>>
  BY DEF Jump, Branch, Begun, engineVars, asyncVars
<1>2. PICK i \in DOMAIN Succ(b) : at' = <<Succ(b)[i], 1>>
  BY DEF Jump, Branch
<1> DEFINE c == Succ(b)[i]
<1>3. /\ func \in Functions /\ b \in DOMAIN func.code /\ b \in Blocks /\ Len(func.code[b]) \in Nat
      /\ b \in reachable /\ finished /\ at[2] \in 1 .. Len(func.code[b]) + 1
  BY <1>1, AtFacts DEF LifeInv, Begun
<1>4. at[2] - 1 = Len(func.code[b])
  BY <1>1, <1>3
<1>5. /\ c \in reachable /\ \A q \in Places : Weaker(q, state[c].places, TransferInsts(state[b].places, func.code[b]))
      /\ DOMAIN TransferInsts(state[b].places, func.code[b]) \subseteq DOMAIN state[c].places
  BY <1>3, FlowsAlong DEF LifeInv, EngineInv
<1>6. Now = TransferInsts(state[b].places, func.code[b])
  BY <1>3, <1>4, WholeBlock DEF Now, PlacesBefore
<1>7. state[c].places \in PlaceStates
  <2>1. c \in Blocks
    BY <1>5 DEF LifeInv, EngineInv, FixpointInv, EngineTypeOK
  <2> QED
    BY <2>1 DEF LifeInv, EngineInv, AnalysisInv, MoveStates
<1>8. Now' = state[c].places
  <2>1. at'[1] = c /\ at'[2] - 1 = 0
    BY <1>2
  <2>2. Now' = TransferInsts(state'[at'[1]].places, SubSeq(func'.code[at'[1]], 1, at'[2] - 1))
    BY DEF Now, PlacesBefore
  <2> QED
    BY <1>1, <1>7, <2>1, <2>2, InstStart
<1>9. c # 1
  <2>1. Succ(b) = func.succ[b] /\ FuncOK
    BY <1>3, FunctionShape DEF LifeInv, EngineInv, FixpointInv
  <2>2. Succ(b) \in Seq(Blocks)
    BY <1>3, <2>1, Shape
  <2>3. c \in ToSet(func.succ[b])
    BY <2>1, <2>2, LenProperties DEF ToSet
  <2> QED
    BY <1>3, <2>3, CodeFacts
<1>10. at'[1] = c
  BY <1>2
<1> HIDE DEF c, b
<1> QED
  BY <1>1, <1>2, <1>5, <1>6, <1>7, <1>8, <1>9, <1>10 DEF c

LEMMA JumpKeeps == LifeInv /\ Jump => LifeInv'
<1> SUFFICES ASSUME LifeInv, Jump PROVE LifeInv'
  OBVIOUS
<1>1. /\ at'[1] \in reachable /\ at' = <<at'[1], 1>> /\ life = "running" /\ life' = "running" /\ Begun
      /\ UNCHANGED <<engineVars, phase, deadDrops, own, child>> /\ UNCHANGED <<func, reachable, finished>>
  BY JumpFlows DEF checkVars, engineVars, Begun
<1>2. EngineInv' /\ WholeInv'
  BY <1>1, EngineGoesOn DEF LifeInv
<1>3. at'[1] \in DOMAIN func.code /\ func \in Functions
  BY <1>1, FunctionShape DEF LifeInv, EngineInv, FixpointInv, EngineTypeOK
<1>4. 1 \in 1 .. Len(func.code[at'[1]]) + 1 /\ at'[2] = 1
  <2>1. at'[2] = 1
    BY <1>1
  <2>2. Len(func.code[at'[1]]) \in Nat
    BY <1>3, CodeFacts
  <2> QED
    BY <2>1, <2>2
<1>5. at' = <<at'[1], at'[2]>>
  BY <1>1, <1>4
<1> QED
  BY <1>1, <1>2, <1>4, <1>5 DEF LifeInv, Begun, RemovedInv, Fates, LeafPlaces

LEMMA EndKeeps == LifeInv /\ (Complete \/ Destroy) => LifeInv'
<1> SUFFICES ASSUME LifeInv, Complete \/ Destroy PROVE LifeInv'
  OBVIOUS
<1>1. /\ UNCHANGED <<engineVars, at, own>> /\ UNCHANGED finished /\ life' \in {"completed", "freed"}
      /\ life \notin {"source", "lowering"}
  BY DEF Complete, Return, Destroy, vars, runVars, engineVars
<1>2. EngineInv' /\ WholeInv'
  BY <1>1, EngineGoesOn DEF LifeInv
<1> QED
  BY <1>1, <1>2 DEF LifeInv, Begun, Fates, LeafPlaces

LEMMA LifeStutters == LifeInv /\ UNCHANGED allVars => LifeInv'
<1> SUFFICES ASSUME LifeInv, UNCHANGED allVars PROVE LifeInv'
  OBVIOUS
<1>1. /\ UNCHANGED <<vars, engineVars, checkVars, at, own, life, fstate, child>>
      /\ UNCHANGED <<func, reachable, finished, phase, deadDrops>>
  BY DEF allVars, asyncVars, vars, engineVars, checkVars, runVars
<1>2. EngineInv' /\ WholeInv'
  BY <1>1, EngineGoesOn DEF LifeInv
<1>3. life = "source" => CheckInv'
  BY <1>1, CheckStep DEF LifeInv
<1>4. (Pending)' <=> Pending
  BY <1>1 DEF Pending, Awaiting, AtKickoff, LeafPlaces, Leaves
<1>5. (RemovedInv)' <=> RemovedInv
  BY <1>1 DEF RemovedInv
<1>6. (Fates)' = Fates
  BY DEF Fates, LeafPlaces
<1> QED
  BY <1>1, <1>2, <1>3, <1>4, <1>5, <1>6 DEF LifeInv, Begun

LEMMA LifeStep == LifeInv /\ [AsyncNext]_allVars => LifeInv'
<1> SUFFICES ASSUME LifeInv, [AsyncNext]_allVars PROVE LifeInv'
  OBVIOUS
<1>1. CASE Check
  BY <1>1, CheckKeeps
<1>2. CASE Lower
  BY <1>2, LowerKeeps
<1>3. CASE FindSuspensions
  BY <1>3, FindSuspensionsKeeps
<1>4. CASE Kickoff
  BY <1>4, KickoffKeeps
<1>5. CASE Poll /\ fstate = 0
  BY <1>5, FirstPollKeeps
<1>6. CASE (Poll /\ fstate # 0) \/ Skip \/ Step
  BY <1>6, AdvanceKeeps DEF Advance
<1>7. CASE Suspend
  BY <1>7, SuspendKeeps
<1>8. CASE Jump
  BY <1>8, JumpKeeps
<1>9. CASE Complete \/ Destroy
  BY <1>9, EndKeeps
<1>10. CASE UNCHANGED allVars
  BY <1>10, LifeStutters
<1> QED
  BY <1>1, <1>2, <1>3, <1>4, <1>5, <1>6, <1>7, <1>8, <1>9, <1>10 DEF AsyncNext

\* The inductive invariant of the life of a future.
THEOREM LifeInvariant == ASSUME MoveEngine PROVE AsyncSpec => []LifeInv
<1>1. AsyncInit => LifeInv
  BY LifeStarts
<1> QED
  BY <1>1, LifeStep, PTL DEF AsyncSpec

(***************************************************************************)
(* A poll goes on with the instruction after the await that suspended: the *)
(* number the environment keeps leads the dispatcher to one await only,    *)
(* whatever the blocks of the function.                                    *)
(***************************************************************************)
THEOREM ResumesAtItsAwait == ASSUME MoveEngine PROVE AsyncSpec => ResumesWhereSuspended
<1>1. LifeInv /\ Poll /\ fstate # 0 => at' = <<at[1], at[2] + 1>>
  BY PollResumes
<1>2. LifeInv => [Poll /\ fstate # 0 => at' = <<at[1], at[2] + 1>>]_allVars
  BY <1>1
<1> QED
  BY <1>2, LifeInvariant, PTL DEF ResumesWhereSuspended

-----------------------------------------------------------------------------
(***************************************************************************)
(* The drop set misses nothing.  Two facts go together: no place around an *)
(* owned leaf counts as gone, but for a whole local, and some entry around *)
(* it is one that extract_live_places takes.  The first is what keeps      *)
(* collapse_fully_moved_ancestors from burying the second.                 *)
(***************************************************************************)
InnerPlaces == {p \in Places : Len(p) > 1 \/ Owned[p] = {}}

Kept == {"Live", "ConditionallyMoved"}

Named(q, P) == \E k \in DOMAIN P : IsAncestorOf(k, q) /\ P[k] \in Kept

AllNamed(o, P) == \A q \in LeafPlaces : o[q] = "owned" => Named(q, P)

LEMMA InnerWatched == Watched(InnerPlaces) /\ LeafPlaces \subseteq InnerPlaces
BY DEF Watched, InnerPlaces, LeafPlaces

LEMMA OverwriteKeeps ==
  ASSUME NEW P, NEW p, NEW s
  PROVE  /\ IsAncestorOf(p, p) => p \in DOMAIN Overwrite(p, s, P) /\ Overwrite(p, s, P)[p] = s
         /\ \A k \in DOMAIN P : ~IsAncestorOf(p, k) /\ k # p => k \in DOMAIN Overwrite(p, s, P) /\ Overwrite(p, s, P)[k] = P[k]
BY DEF Overwrite

\* An executed drop leaves nothing below it, so that it does not matter what the analysis says of its place.
LEMMA DropVouches ==
  ASSUME NEW P \in PlaceStates, NEW p \in Places, NEW o, NEW o2, NEW X, Watched(X), Vouched(o, P, X),
         \A q \in LeafPlaces : o2[q] = IF IsAncestorOf(p, q) THEN "gone" ELSE o[q]
  PROVE  Vouched(o2, MarkDropped(p, P), X)
<1> SUFFICES ASSUME NEW q \in LeafPlaces, NEW x \in X, o2[q] = "owned", IsAncestorOf(x, q)
             PROVE  Inherited(x, MarkDropped(p, P)) \notin Vanished
  BY DEF Vouched
<1>1. q \in Places /\ x \in Places /\ ~IsAncestorOf(p, q) /\ o[q] = "owned"
  BY DEF Watched, LeafPlaces
<1>2. Inherited(x, P) \notin Vanished
  BY <1>1 DEF Vouched
<1>3. ~IsAncestorOf(p, x)
  BY <1>1, Ancestry
<1>4. Overwritten(Overwrite(p, "Dropped", P), p, "Dropped", P)
  BY OverwriteGives DEF MoveState
<1>5. Inherited(x, Overwrite(p, "Dropped", P)) = Inherited(x, P)
  BY <1>1, <1>3, <1>4 DEF Overwritten
<1> QED
  BY <1>2, <1>5 DEF MarkDropped

\* The same for the execution of the cleaned function, where no drop is dead.
LEMMA RunsExecute ==
  ASSUME NEW inst, NEW P, NEW o \in Fates, NEW o2 \in Fates, Runs(inst, o, o2),
         inst.op = "drop" => GetPlaceState(inst.place, P) \notin {"Moved", "Dropped", "Uninitialized"}
  PROVE  Executes(inst, P, o, o2)
<1> DEFINE p == inst.place
<1>1. inst.op \notin {"alloca", "param", "init", "move", "await", "drop", "free"} => o2 = o
  <2> SUFFICES ASSUME inst.op \notin {"alloca", "param", "init", "move", "await", "drop", "free"}
               PROVE  \A q \in LeafPlaces : o2[q] = o[q]
    BY DEF Fates
  <2> QED
    BY DEF Runs
<1>2. inst.op = "alloca" => \A q \in LeafPlaces : o2[q] = IF IsAncestorOf(p, q) THEN "uninit" ELSE o[q]
  BY DEF Runs
<1>3. inst.op \in {"param", "init"} => \A q \in LeafPlaces : o2[q] = IF IsAncestorOf(p, q) THEN "owned" ELSE o[q]
  BY DEF Runs
<1>4. inst.op \in {"move", "await", "free", "drop"} => \A q \in LeafPlaces : o2[q] = IF IsAncestorOf(p, q) THEN "gone" ELSE o[q]
  BY DEF Runs
<1> QED
  BY <1>1, <1>2, <1>3, <1>4 DEF Executes

LEMMA RunsVouched ==
  ASSUME NEW f \in Functions, NEW b \in DOMAIN f.code, NEW i \in DOMAIN f.code[b],
         NEW P \in PlaceStates, NEW o \in Fates, NEW o2 \in Fates, Runs(f.code[b][i], o, o2),
         NEW X, Watched(X), Vouched(o, P, X),
         f.code[b][i].op = "param" => OnlyLocals(P),
         f.code[b][i].op = "init" => \A a \in ProperAncestors(f.code[b][i].place) \cap X :
                                       GetPlaceState(a, TransferInst(P, f.code[b][i])) \notin Vanished
  PROVE  Vouched(o2, TransferInst(P, f.code[b][i]), X)
<1> DEFINE inst == f.code[b][i]
           p == inst.place
<1>1. p \in Places
  BY InstFacts
<1>2. CASE inst.op = "drop"
  <2>1. \A q \in LeafPlaces : o2[q] = IF IsAncestorOf(p, q) THEN "gone" ELSE o[q]
    BY <1>2 DEF Runs
  <2>2. TransferInst(P, inst) = MarkDropped(p, P)
    BY <1>2, TransferCases
  <2> HIDE DEF p, inst
  <2>3. Vouched(o2, MarkDropped(p, P), X)
    BY <1>1, <2>1, DropVouches
  <2> QED
    BY <2>2, <2>3 DEF inst
<1>3. CASE inst.op # "drop"
  <2>1. Executes(inst, P, o, o2)
    BY <1>3, RunsExecute
  <2> QED
    BY <1>3, <2>1, StepVouches
<1> QED
  BY <1>2, <1>3

LEMMA RunsNamed ==
  ASSUME NEW f \in Functions, NEW b \in DOMAIN f.code, NEW i \in DOMAIN f.code[b],
         NEW P \in PlaceStates, NEW o \in Fates, NEW o2 \in Fates, Runs(f.code[b][i], o, o2),
         f.code[b][i].op \in {"move", "await"} => Vouched(o, P, InnerPlaces), AllNamed(o, P)
  PROVE  AllNamed(o2, TransferInst(P, f.code[b][i]))
<1> DEFINE inst == f.code[b][i]
           p == inst.place
           Q == TransferInst(P, inst)
<1> SUFFICES ASSUME NEW q \in LeafPlaces, o2[q] = "owned" PROVE Named(q, Q)
  BY DEF AllNamed
<1>1. /\ p \in Places /\ q \in Places /\ IsAncestorOf(p, p) /\ DOMAIN P \subseteq Places
      /\ inst.op \in {"alloca", "param", "free"} => Len(p) = 1
  BY InstFacts, Self, StateFacts DEF LeafPlaces, WellPlaced
<1>2. /\ inst.op = "alloca" => Q = Put(p, "Uninitialized", P)
      /\ inst.op = "param" => Q = Put(p, "Live", P)
      /\ inst.op = "init" => Q = MarkLive(p, P)
      /\ inst.op \in {"move", "await"} => Q = MarkMoved(p, P)
      /\ inst.op \in {"drop", "free"} => Q = MarkDropped(p, P)
      /\ inst.op \notin {"alloca", "param", "init", "move", "await", "drop", "free"} => Q = P
  BY TransferCases
<1>3. o2[q] = IF ~IsAncestorOf(p, q) THEN o[q]
              ELSE CASE inst.op = "alloca" -> "uninit"
                     [] inst.op \in {"param", "init"} -> "owned"
                     [] inst.op \in {"move", "await", "drop", "free"} -> "gone"
                     [] OTHER -> o[q]
  BY DEF Runs
<1> HIDE DEF inst, p, Q
<1>4. CASE IsAncestorOf(p, q) /\ inst.op \in {"param", "init"}
  <2>1. CASE inst.op = "param"
    <3>1. p \in DOMAIN Q /\ Q[p] = "Live"
      BY <1>2, <2>1 DEF Put
    <3> QED
      BY <1>4, <3>1 DEF Named, Kept
  <2>2. CASE inst.op = "init"
    <3>1. p \in DOMAIN Overwrite(p, "Live", P) /\ Overwrite(p, "Live", P)[p] = "Live"
      BY <1>1, OverwriteKeeps
    <3>2. p \in DOMAIN Q /\ Q[p] = "Live"
      BY <1>2, <2>2, <3>1 DEF MarkLive
    <3> QED
      BY <1>4, <3>2 DEF Named, Kept
  <2> QED
    BY <1>4, <2>1, <2>2
<1>5. CASE ~(IsAncestorOf(p, q) /\ inst.op \in {"param", "init"})
  <2>1. o[q] = "owned"
    BY <1>3, <1>5
  <2>2. PICK k \in DOMAIN P : IsAncestorOf(k, q) /\ P[k] \in Kept
    BY <2>1 DEF AllNamed, Named
  <2>3. CASE inst.op \notin {"alloca", "param", "init", "move", "await", "drop", "free"}
    BY <1>2, <2>2, <2>3 DEF Named
  <2>4. CASE inst.op \in {"alloca", "param", "init", "move", "await", "drop", "free"}
    <3>1. ~IsAncestorOf(p, q)
      BY <1>3, <1>5, <2>4
    <3>2. k \in Places /\ ~IsAncestorOf(p, k) /\ k # p
      BY <1>1, <2>2, <3>1, Ancestry
    <3>3. \A s : k \in DOMAIN Overwrite(p, s, P) /\ Overwrite(p, s, P)[k] = P[k]
      BY <2>2, <3>2, OverwriteKeeps
    <3>4. CASE inst.op \in {"alloca", "param"}
      <4>1. k \in DOMAIN Q /\ Q[k] = P[k]
        BY <1>2, <2>2, <3>2, <3>4 DEF Put
      <4> QED
        BY <2>2, <4>1 DEF Named
    <3>5. CASE inst.op = "init"
      <4>1. k \in DOMAIN Q /\ Q[k] \in {P[k], "Live"}
        BY <1>2, <3>3, <3>5 DEF MarkLive
      <4> QED
        BY <2>2, <4>1 DEF Named, Kept
    <3>6. CASE inst.op \in {"drop", "free"}
      <4>1. k \in DOMAIN Q /\ Q[k] = P[k]
        BY <1>2, <2>2, <3>3, <3>6 DEF MarkDropped
      <4> QED
        BY <2>2, <4>1 DEF Named
    <3>7. CASE inst.op \in {"move", "await"}
      <4>1. PICK top \in Places : IsAncestorOf(top, p) /\ Q = Overwrite(top, "Moved", Overwrite(p, "Moved", P))
        BY <1>1, <1>2, <3>7, MoveTakes
      <4>2. \A x \in InnerPlaces : IsAncestorOf(x, q) => Inherited(x, P) \notin Vanished
        BY <2>1, <3>7 DEF Vouched, inst
      <4>3. Inherited(q, Q) \notin Vanished
        <5>1. \A x \in InnerPlaces : IsAncestorOf(x, q) => Inherited(x, MarkMoved(p, P)) \notin Vanished
          BY <1>1, <3>1, <4>2, InnerWatched, MovedVouches
        <5>2. q \in InnerPlaces /\ IsAncestorOf(q, q)
          BY <1>1, InnerWatched, Self
        <5> QED
          BY <1>2, <3>7, <5>1, <5>2
      <4> DEFINE R == Overwrite(p, "Moved", P)
      <4>4. R \in PlaceStates
        BY <1>1, OverwriteGives DEF MoveState, Overwritten
      <4>5. Overwritten(Q, top, "Moved", R)
        BY <4>1, <4>4, OverwriteGives DEF MoveState
      <4>6. ~IsAncestorOf(top, q)
        BY <1>1, <4>3, <4>5 DEF Overwritten, Vanished
      <4>7. ~IsAncestorOf(top, k) /\ k # top
        BY <1>1, <2>2, <3>2, <4>1, <4>6, Ancestry
      <4>8. k \in DOMAIN R /\ R[k] = P[k]
        BY <3>3
      <4> HIDE DEF R
      <4>9. k \in DOMAIN Q /\ Q[k] = P[k]
        BY <4>1, <4>7, <4>8, OverwriteKeeps DEF R
      <4> QED
        BY <2>2, <4>9 DEF Named
    <3> QED
      BY <2>4, <3>4, <3>5, <3>6, <3>7
  <2> QED
    BY <2>3, <2>4
<1> QED
  BY <1>4, <1>5

\* A proper ancestor is a shorter place above.
LEMMA ProperIs ==
  ASSUME NEW p \in Places, NEW a \in ProperAncestors(p)
  PROVE  a \in Places /\ IsAncestorOf(a, p) /\ Len(a) \in Nat /\ Len(a) < Len(p)
<1>1. PICK n \in 1 .. Len(p) - 1 : a = SubSeq(p, 1, n)
  BY DEF ProperAncestors
<1>2. a \in Places /\ p \in Seq(Nat) /\ Len(p) \in Nat /\ a \in Seq(Nat)
  BY <1>1, PlacesAssumption, PlaceFacts DEF Places
<1>3. 1 \in Int /\ n \in Int /\ \A i \in 1 .. n : p[i] \in Nat
  BY <1>1, <1>2, ElementOfSeq
<1>4. /\ Len(a) = IF 1 <= n THEN n - 1 + 1 ELSE 0
      /\ \A i \in 1 .. n - 1 + 1 : a[i] = p[1 + i - 1]
  BY <1>1, <1>3, SubSeqProperties
<1>5. n \in Nat /\ 1 <= n /\ n < Len(p) /\ n <= Len(p)
  BY <1>2
<1>6. n - 1 + 1 = n /\ \A i \in 1 .. n : 1 + i - 1 = i
  BY <1>5
<1>7. Len(a) = n /\ \A i \in 1 .. n : a[i] = p[i]
  BY <1>4, <1>5, <1>6
<1> QED
  BY <1>2, <1>5, <1>7, PrefixIs

\* A place with an entry that is taken has a topmost one around it, which is in the drop set.
LEMMA TopmostIsTaken ==
  ASSUME NEW P \in PlaceStates, NEW q \in LeafPlaces, Named(q, P)
  PROVE  \E p \in LivePlaces(P) : q \in Leaves(p)
<1> DEFINE raw == {p \in DOMAIN P : P[p] \in {"Live", "ConditionallyMoved"}}
           around == {p \in raw : IsAncestorOf(p, q)}
           S == {Len(p) : p \in around}
<1>1. q \in Places /\ \A p \in around : p \in Places /\ p \in Seq(Nat) /\ Len(p) \in Nat
  BY StateFacts, PlaceFacts DEF LeafPlaces
<1>2. S \in SUBSET Nat /\ S # {}
  BY <1>1 DEF Named, Kept
<1> HIDE DEF S
<1>3. PICK m \in S : \A n \in S : m <= n
  BY <1>2, LeastExists
<1>4. PICK p \in around : Len(p) = m
  BY <1>3 DEF S
<1>5. ProperAncestors(p) \cap raw = {}
  <2> SUFFICES ASSUME NEW a \in ProperAncestors(p) \cap raw PROVE FALSE
    OBVIOUS
  <2>1. a \in Places /\ IsAncestorOf(a, p) /\ Len(a) < Len(p) /\ Len(a) \in Nat
    BY <1>1, <1>4, ProperIs
  <2>2. a \in around
    BY <1>1, <1>4, <2>1, Ancestry
  <2>3. Len(a) \in S
    BY <2>2 DEF S
  <2> QED
    BY <1>2, <1>3, <1>4, <2>1, <2>3
<1>6. p \in LivePlaces(P)
  BY <1>5 DEF LivePlaces
<1>7. q \in Leaves(p)
  BY <1>1 DEF Leaves, LeafPlaces
<1> QED
  BY <1>6, <1>7

\* The allocas that the entry block begins with.
LEMMA LeadingIs ==
  ASSUME NEW f \in Functions, 1 \in DOMAIN f.code
  PROVE  /\ Leading(f) \in 0 .. Len(f.code[1])
         /\ \A j \in 1 .. Leading(f) : j \in DOMAIN f.code[1] /\ f.code[1][j].op \in {"alloca", "param"}
<1> DEFINE n == Len(f.code[1])
           Declares(i) == \A j \in 1 .. i : f.code[1][j].op \in {"alloca", "param"}
           S == {i \in DOMAIN f.code[1] : Declares(i)}
           Rest == (1 .. n + 1) \ S
<1>1. n \in Nat /\ DOMAIN f.code[1] = 1 .. n
  BY CodeFacts
<1>2. n + 1 \in Rest /\ Rest \in SUBSET Nat
  BY <1>1
<1> HIDE DEF Rest
<1>3. PICK m \in Rest : \A k \in Rest : m <= k
  BY <1>2, LeastExists
<1>4. m \in 1 .. n + 1 /\ m \notin S
  BY <1>3 DEF Rest
<1>5. ASSUME NEW i \in 1 .. n, i < m PROVE i \in S
  BY <1>1, <1>3, <1>5 DEF Rest
<1>6. ASSUME NEW i \in S PROVE i < m
  <2> SUFFICES ASSUME m <= i PROVE FALSE
    BY <1>1, <1>4
  <2>1. m \in 1 .. n /\ m \in 1 .. i /\ i \in 1 .. n
    BY <1>1, <1>4
  <2>2. \A j \in 1 .. m : j \in 1 .. i
    BY <2>1
  <2>3. Declares(m)
    BY <2>2
  <2> QED
    BY <1>1, <1>4, <2>1, <2>3
<1>7. S = 1 .. m - 1
  BY <1>1, <1>4, <1>5, <1>6
<1>8. Cardinality(S) = m - 1
  <2>1. m - 1 \in Int /\ 1 \in Int /\ m - 1 >= 0
    BY <1>1, <1>4
  <2>2. Cardinality(1 .. m - 1) = IF 1 > m - 1 THEN 0 ELSE (m - 1) - 1 + 1
    BY <2>1, FS_Interval
  <2> HIDE DEF S
  <2>3. Cardinality(1 .. m - 1) = m - 1
    BY <2>1, <2>2
  <2> QED
    BY <1>7, <2>3
<1>9. Leading(f) = m - 1
  BY <1>8 DEF Leading
<1>10. \A j \in 1 .. Leading(f) : j \in S
  BY <1>7, <1>9
<1>11. \A j \in S : j \in DOMAIN f.code[1] /\ f.code[1][j].op \in {"alloca", "param"}
  <2> SUFFICES ASSUME NEW j \in S PROVE j \in DOMAIN f.code[1] /\ f.code[1][j].op \in {"alloca", "param"}
    OBVIOUS
  <2>1. j \in 1 .. j
    BY <1>1
  <2> QED
    BY <2>1
<1> HIDE DEF S
<1> QED
  BY <1>1, <1>4, <1>9, <1>10, <1>11

-----------------------------------------------------------------------------
(***************************************************************************)
(* The drop set takes nothing that is not there.  Here the fact that goes  *)
(* along is the one of MoveCheck: what the states say is there, of a local *)
(* that gets its value as a whole, is owned.                               *)
(***************************************************************************)
OwnedAsSaid(o, P) ==
  \A q \in LeafPlaces, a \in Declared(func) :
    WholeInit(func, a) /\ IsAncestorOf(a, q) /\ Here(q, P) => o[q] = "owned"

LEMMA RunsOwned ==
  ASSUME func \in Functions, NEW b \in DOMAIN func.code, NEW i \in DOMAIN func.code[b],
         NEW P \in PlaceStates, Tidy(func, P), NEW o \in Fates, NEW o2 \in Fates, Runs(func.code[b][i], o, o2),
         func.code[b][i].op = "drop" => GetPlaceState(func.code[b][i].place, P) \notin Vanished,
         OwnedAsSaid(o, P)
  PROVE  OwnedAsSaid(o2, TransferInst(P, func.code[b][i]))
<1>1. Executes(func.code[b][i], P, o, o2)
  BY RunsExecute DEF Vanished
<1> SUFFICES ASSUME NEW q \in LeafPlaces, NEW a \in Declared(func), WholeInit(func, a), IsAncestorOf(a, q),
                    Here(q, TransferInst(P, func.code[b][i]))
             PROVE  o2[q] = "owned"
  BY DEF OwnedAsSaid
<1>2. o2[q] = "owned" \/ (Here(q, P) /\ o2[q] = o[q])
  BY <1>1, OwnedStep
<1> QED
  BY <1>2 DEF OwnedAsSaid

\* The entry state has nothing there but the parameters.
LEMMA EntryOwned ==
  ASSUME func \in Functions, NEW o,
         \A q \in LeafPlaces : (\E p \in Allocas(func, "param") : IsAncestorOf(p, q)) => o[q] = "owned"
  PROVE  OwnedAsSaid(o, MoveEntryState(func).places)
<1> DEFINE P == MoveEntryState(func).places
<1> SUFFICES ASSUME NEW q \in LeafPlaces, NEW a \in Declared(func), IsAncestorOf(a, q), Here(q, P)
             PROVE  o[q] = "owned"
  BY DEF OwnedAsSaid
<1>1. Inherited(q, P) = IF a \in Allocas(func, "param") THEN "Live" ELSE "Uninitialized"
  BY EntryFacts DEF LeafPlaces
<1> HIDE DEF P
<1>2. a \in Allocas(func, "param")
  BY <1>1 DEF Here, Sure
<1> QED
  BY <1>2

-----------------------------------------------------------------------------
(* What the execution keeps up between the polls.                          *)

\* A store into a part of a part of a local is noticed by every place in between.
StoresTracked ==
  \A b \in Blocks : \A i \in DOMAIN func.code[b] : func.code[b][i].op = "init" =>
    \A a \in ProperAncestors(func.code[b][i].place) \cap InnerPlaces :
      GetPlaceState(a, PlacesBefore(b, i + 1)) \notin Vanished

\* An entry that stands for what is left of a struct is below one that is taken.
PartsTracked ==
  \A b \in Blocks : \A k \in DOMAIN state[b].places :
    state[b].places[k] = "PartialMoved" => Named(k, state[b].places)

Tracked == StoresTracked /\ PartsTracked

\* A parameter that is still to be declared holds its argument.
ArgumentsOwned == \A q \in LeafPlaces : Awaited(q) => Mine[q] = "owned"

\* The second analysis finds no drop dead that the first one has left.
NothingDead ==
  \A b \in Blocks : \A i \in DOMAIN func.code[b] :
    func.code[b][i].op = "drop" => GetPlaceState(func.code[b][i].place, PlacesBefore(b, i)) \notin Vanished

SuspensionInv ==
  Begun => /\ ArgumentsOwned
           /\ Tracked => Vouched(Mine, Now, InnerPlaces) /\ AllNamed(Mine, Now)
           /\ NothingDead => OwnedAsSaid(Mine, Now)

LEMMA FateTypes == (LeafPlaces)' = LeafPlaces /\ (InnerPlaces)' = InnerPlaces
BY DEF LeafPlaces, InnerPlaces

\* With the arguments in place, the declaration of a parameter changes nothing.
LEMMA RunsAlways ==
  ASSUME LifeInv, ArgumentsOwned, Advance
  PROVE  Runs(func.code[at[1]][at[2]], Mine, Mine')
<1>1. CASE func.code[at[1]][at[2]].op # "param"
  BY <1>1, AdvanceRuns
<1>2. CASE func.code[at[1]][at[2]].op = "param"
  <2>1. /\ at[1] \in DOMAIN func.code /\ at[2] \in DOMAIN func.code[at[1]] /\ func \in Functions
        /\ DOMAIN func.code[at[1]] = 1 .. Len(func.code[at[1]]) /\ Len(func.code[at[1]]) \in Nat
    BY AdvanceGoes, AtFacts
  <2>2. at[1] = 1
    BY <1>2, <2>1, InstFacts DEF WellPlaced
  <2>3. ASSUME NEW q \in LeafPlaces, IsAncestorOf(func.code[at[1]][at[2]].place, q) PROVE Mine[q] = "owned"
    <3>1. at[2] \in at[2] .. Len(func.code[1])
      BY <2>1, <2>2
    <3>2. Awaited(q)
      BY <1>2, <2>2, <2>3, <3>1 DEF Awaited
    <3> QED
      BY <3>2 DEF ArgumentsOwned
  <2>4. own' = own
    BY <1>2, AdvanceRuns
  <2>5. Mine' = Mine
    BY <2>4 DEF Mine, LeafPlaces
  <2> QED
    BY <1>2, <2>3, <2>5 DEF Runs
<1> QED
  BY <1>1, <1>2

LEMMA ArgumentsAlong ==
  ASSUME LifeInv, ArgumentsOwned, Advance
  PROVE  ArgumentsOwned'
<1>1. /\ at' = <<at[1], at[2] + 1>> /\ at[1] \in DOMAIN func.code /\ at[2] \in DOMAIN func.code[at[1]]
      /\ func \in Functions /\ func' = func
      /\ DOMAIN func.code[at[1]] = 1 .. Len(func.code[at[1]]) /\ Len(func.code[at[1]]) \in Nat
  BY AdvanceGoes, AtFacts DEF engineVars
<1> SUFFICES ASSUME NEW q \in LeafPlaces, Awaited(q)' PROVE Mine'[q] = "owned"
  BY FateTypes DEF ArgumentsOwned
<1>2. at[1] = 1 /\ \E j \in at[2] + 1 .. Len(func.code[1]) :
                     func.code[1][j].op = "param" /\ IsAncestorOf(func.code[1][j].place, q)
  BY <1>1 DEF Awaited
<1>3. PICK j \in at[2] + 1 .. Len(func.code[1]) :
        func.code[1][j].op = "param" /\ IsAncestorOf(func.code[1][j].place, q)
  BY <1>2
<1>4. j \in DOMAIN func.code[1] /\ at[2] \in 1 .. j /\ j \in at[2] .. Len(func.code[1])
  BY <1>1, <1>2, <1>3
<1>5. Mine[q] = "owned"
  BY <1>2, <1>3, <1>4 DEF Awaited, ArgumentsOwned
<1> DEFINE inst == func.code[at[1]][at[2]]
           a == func.code[1][j].place
<1>6. inst.op \in {"alloca", "param"}
  BY <1>1, <1>2, <1>3, <1>4, InstFacts DEF WellPlaced
<1>7. CASE inst.op = "param"
  BY <1>5, <1>7, AdvanceRuns DEF Mine, LeafPlaces
<1>8. CASE inst.op = "alloca"
  <2>1. /\ inst.place \in Allocas(func, "alloca") /\ inst.place \in Places /\ Len(inst.place) = 1
        /\ a \in Allocas(func, "param") /\ a \in Places /\ Len(a) = 1 /\ IsAncestorOf(a, q) /\ q \in Places
    BY <1>1, <1>2, <1>3, <1>4, <1>8, InstFacts DEF WellPlaced, LeafPlaces
  <2>2. inst.place # a
    BY <1>1, <2>1, ParametersAssumption
  <2> HIDE DEF a
  <2>3. ~IsAncestorOf(inst.place, q)
    BY <2>1, <2>2, Ancestry
  <2>4. Runs(inst, Mine, Mine')
    BY RunsAlways
  <2> QED
    BY <1>5, <2>3, <2>4 DEF Runs
<1> QED
  BY <1>6, <1>7, <1>8

\* The arguments are what the entry state has live.
LEMMA EntryNames ==
  ASSUME NEW f \in Functions, NEW o, NEW X, Watched(X),
         \A q \in LeafPlaces : o[q] = "owned" => \E p \in Allocas(f, "param") : IsAncestorOf(p, q)
  PROVE  Vouched(o, MoveEntryState(f).places, X) /\ AllNamed(o, MoveEntryState(f).places)
<1> DEFINE P == MoveEntryState(f).places
<1>1. /\ DOMAIN P = Declared(f)
      /\ \A k \in Declared(f) : P[k] = IF k \in Allocas(f, "param") THEN "Live" ELSE "Uninitialized"
  BY DEF MoveEntryState, Declared
<1>2. \A a \in Declared(f), q \in Places :
        IsAncestorOf(a, q) => Inherited(q, P) = IF a \in Allocas(f, "param") THEN "Live" ELSE "Uninitialized"
  BY EntryFacts
<1>3. \A p \in Allocas(f, "param") : p \in Declared(f) /\ p \in Places /\ Len(p) = 1
  BY DeclaredFacts DEF Declared
<1> HIDE DEF P
<1>4. ASSUME NEW q \in LeafPlaces, o[q] = "owned" PROVE Named(q, P)
  BY <1>1, <1>3, <1>4 DEF Named, Kept
<1>5. ASSUME NEW q \in LeafPlaces, o[q] = "owned", NEW x \in X, IsAncestorOf(x, q)
      PROVE  Inherited(x, P) \notin Vanished
  <2>1. PICK p \in Allocas(f, "param") : IsAncestorOf(p, q)
    BY <1>5
  <2>2. x \in Places /\ q \in Places /\ p \in Places /\ Len(p) = 1
    BY <1>3 DEF Watched, LeafPlaces
  <2>3. Len(p) <= Len(x)
    <3>1. Len(x) \in Nat /\ Len(x) > 0
      BY <2>2, PlaceFacts
    <3> QED
      BY <2>2, <3>1
  <2>4. IsAncestorOf(p, x)
    BY <1>5, <2>1, <2>2, <2>3, Ancestry
  <2>5. Inherited(x, P) = "Live"
    BY <1>2, <1>3, <2>2, <2>4
  <2> QED
    BY <2>5 DEF Vanished
<1> QED
  BY <1>4, <1>5 DEF P, AllNamed, Vouched

LEMMA KickoffFacts ==
  ASSUME LifeInv, Kickoff
  PROVE  /\ at' = at /\ at = <<1, 1>> /\ UNCHANGED <<func, state>>
         /\ func \in Functions /\ 1 \in DOMAIN func.code /\ 1 \in Blocks
         /\ Mine' \in [LeafPlaces -> {"owned", "uninit"}]
         /\ \A q \in LeafPlaces : Mine'[q] = "owned" <=> \E p \in Allocas(func, "param") : IsAncestorOf(p, q)
         /\ Now' = MoveEntryState(func).places
<1>1. /\ at' = at /\ at = <<1, 1>> /\ own' = AtKickoff /\ UNCHANGED <<func, state>>
      /\ func \in Functions /\ 1 \in DOMAIN func.code /\ 1 \in Blocks
  BY FunctionShape DEF LifeInv, EngineInv, FixpointInv, Kickoff, AtKickoff, Fates, engineVars
<1>2. /\ Mine' \in [LeafPlaces -> {"owned", "uninit"}]
      /\ \A q \in LeafPlaces : Mine'[q] = "owned" <=> \E p \in Allocas(func, "param") : q \in Leaves(p)
  <2>1. Mine' = [q \in LeafPlaces |-> IF q = Temp THEN "uninit" ELSE own'[q]]
    BY DEF Mine, LeafPlaces
  <2>2. \A p \in Allocas(func, "param") : Temp \notin Leaves(p)
    BY <1>1, TempIsApart
  <2> QED
    BY <1>1, <2>1, <2>2 DEF AtKickoff
<1>3. \A p, q : q \in Leaves(p) <=> q \in LeafPlaces /\ IsAncestorOf(p, q)
  BY DEF Leaves, LeafPlaces
<1>4. Now' = MoveEntryState(func).places
  <2>1. Now' = TransferInsts(state'[at'[1]].places, SubSeq(func'.code[at'[1]], 1, at'[2] - 1))
    BY DEF Now, PlacesBefore
  <2>2. state[1] = MoveEntryState(func) /\ state[1].places \in PlaceStates
    BY <1>1 DEF LifeInv, WholeInv, EngineInv, AnalysisInv, MoveStates
  <2>3. at'[1] = 1 /\ at'[2] - 1 = 0
    BY <1>1
  <2> QED
    BY <1>1, <2>1, <2>2, <2>3, InstStart
<1> QED
  BY <1>1, <1>2, <1>3, <1>4

LEMMA KickoffNames == LifeInv /\ Kickoff => SuspensionInv'
<1> SUFFICES ASSUME LifeInv, Kickoff PROVE SuspensionInv'
  OBVIOUS
<1>1. /\ at' = at /\ at = <<1, 1>> /\ UNCHANGED <<func, state>>
      /\ func \in Functions /\ 1 \in DOMAIN func.code
  BY KickoffFacts
<1>2. \A q \in LeafPlaces : Mine'[q] = "owned" <=> \E p \in Allocas(func, "param") : IsAncestorOf(p, q)
  BY KickoffFacts
<1>3. Now' = MoveEntryState(func).places
  BY KickoffFacts
<1>5. Vouched(Mine', Now', InnerPlaces) /\ AllNamed(Mine', Now') /\ OwnedAsSaid(Mine', Now')
  BY <1>1, <1>2, <1>3, InnerWatched, EntryNames, EntryOwned
<1>6. ASSUME NEW q \in LeafPlaces, Awaited(q)' PROVE Mine'[q] = "owned"
  <2>1. PICK j \in 1 .. Len(func.code[1]) : func.code[1][j].op = "param" /\ IsAncestorOf(func.code[1][j].place, q)
    BY <1>1, <1>6 DEF Awaited
  <2>2. j \in DOMAIN func.code[1]
    BY <1>1, CodeFacts
  <2>3. func.code[1][j].place \in Allocas(func, "param")
    BY <1>1, <2>1, <2>2, InstFacts
  <2> QED
    BY <1>2, <2>1, <2>3
<1>7. (OwnedAsSaid(Mine, Now))'
  BY <1>1, <1>5, FateTypes DEF OwnedAsSaid, Declared, WholeInit
<1> QED
  BY <1>5, <1>6, <1>7, FateTypes DEF SuspensionInv, ArgumentsOwned, Vouched, AllNamed

LEMMA TrackedStays ==
  ASSUME UNCHANGED <<func, state>>
  PROVE  ((Tracked)' <=> Tracked) /\ ((NothingDead)' <=> NothingDead)
BY DEF Tracked, StoresTracked, PartsTracked, NothingDead, PlacesBefore, Blocks, InnerPlaces, Named

\* Nothing is known about the parts of a parameter before it is declared.
LEMMA ParamSeesLocals ==
  ASSUME LifeInv, Begun, at[2] \in DOMAIN func.code[at[1]], func.code[at[1]][at[2]].op = "param"
  PROVE  OnlyLocals(Now)
<1> DEFINE b == at[1]
           P == state[b].places
<1>1. /\ func \in Functions /\ b \in DOMAIN func.code /\ b \in Blocks /\ at[2] \in Nat \ {0}
      /\ Len(func.code[b]) \in Nat /\ DOMAIN func.code[b] = 1 .. Len(func.code[b])
  BY AtFacts
<1>2. P \in PlaceStates
  BY <1>1 DEF LifeInv, EngineInv, AnalysisInv, MoveStates
<1>3. b = 1 => OnlyLocals(P)
  <2>1. DOMAIN MoveEntryState(func).places = Declared(func)
    BY DEF MoveEntryState, Declared
  <2> QED
    BY <1>1, <2>1, DeclaredFacts DEF LifeInv, WholeInv, OnlyLocals
<1> HIDE DEF P
<1>4. at[2] - 1 \in 0 .. Len(func.code[b]) /\ at[2] \in (at[2] - 1) + 1 .. Len(func.code[b])
  BY <1>1
<1>5. OnlyLocals(TransferInsts(P, SubSeq(func.code[b], 1, at[2] - 1)))
  BY <1>1, <1>2, <1>3, <1>4, BeforeParams
<1> QED
  BY <1>5 DEF Now, PlacesBefore, P

\* What is owned stays vouched for, if the places of X notice the stores below them.
LEMMA AdvanceVouches ==
  ASSUME LifeInv, ArgumentsOwned, Advance, NEW X, Watched(X), Vouched(Mine, Now, X),
         func.code[at[1]][at[2]].op = "init" =>
           \A a \in ProperAncestors(func.code[at[1]][at[2]].place) \cap X :
             GetPlaceState(a, PlacesBefore(at[1], at[2] + 1)) \notin Vanished
  PROVE  Vouched(Mine', Now', X)
<1> DEFINE b == at[1]
           i == at[2]
<1>1. /\ Begun /\ b \in DOMAIN func.code /\ i \in DOMAIN func.code[b] /\ at' = <<b, i + 1>>
      /\ UNCHANGED <<func, state>>
  BY AdvanceGoes DEF engineVars
<1>2. func \in Functions /\ Now \in PlaceStates
  BY <1>1, AtFacts
<1>3. Runs(func.code[b][i], Mine, Mine') /\ Mine \in Fates /\ Mine' \in Fates
  BY RunsAlways, AdvanceRuns
<1>4. Now' = TransferInst(Now, func.code[b][i]) /\ Now' = PlacesBefore(b, i + 1)
  BY <1>1, NowAdvances DEF Now, PlacesBefore
<1>5. func.code[b][i].op = "param" => OnlyLocals(Now)
  BY <1>1, ParamSeesLocals
<1>6. Vouched(Mine', TransferInst(Now, func.code[b][i]), X)
  BY <1>1, <1>2, <1>3, <1>4, <1>5, RunsVouched
<1> QED
  BY <1>4, <1>6

LEMMA AdvanceNames == LifeInv /\ SuspensionInv /\ Advance => SuspensionInv'
<1> SUFFICES ASSUME LifeInv, SuspensionInv, Advance PROVE SuspensionInv'
  OBVIOUS
<1> DEFINE b == at[1]
           i == at[2]
<1>1. /\ Begun /\ b \in DOMAIN func.code /\ i \in DOMAIN func.code[b] /\ at' = <<b, i + 1>>
      /\ UNCHANGED <<func, state>>
  BY AdvanceGoes DEF engineVars
<1>2. func \in Functions /\ b \in Blocks /\ Now \in PlaceStates
  BY <1>1, AtFacts
<1>3. ArgumentsOwned
  BY <1>1 DEF SuspensionInv
<1>4. ArgumentsOwned'
  BY <1>3, ArgumentsAlong
<1>5. Runs(func.code[b][i], Mine, Mine') /\ Mine \in Fates /\ Mine' \in Fates
  BY <1>3, RunsAlways, AdvanceRuns
<1>6. Now' = TransferInst(Now, func.code[b][i])
  BY NowAdvances
<1>7. ASSUME Tracked PROVE Vouched(Mine', Now', InnerPlaces) /\ AllNamed(Mine', Now')
  <2>1. Vouched(Mine, Now, InnerPlaces) /\ AllNamed(Mine, Now)
    BY <1>1, <1>7 DEF SuspensionInv
  <2>2. Vouched(Mine', Now', InnerPlaces)
    BY <1>1, <1>2, <1>3, <1>7, <2>1, InnerWatched, AdvanceVouches DEF Tracked, StoresTracked
  <2>3. AllNamed(Mine', TransferInst(Now, func.code[b][i]))
    BY <1>1, <1>2, <1>5, <2>1, RunsNamed
  <2> QED
    BY <1>6, <2>2, <2>3
<1>8. ASSUME NothingDead PROVE (OwnedAsSaid(Mine, Now))'
  <2>1. OwnedAsSaid(Mine, Now) /\ Tidy(func, Now)
    BY <1>1, <1>8, AtFacts DEF SuspensionInv
  <2>2. func.code[b][i].op = "drop" => GetPlaceState(func.code[b][i].place, Now) \notin Vanished
    BY <1>1, <1>2, <1>8 DEF NothingDead, Now
  <2>3. OwnedAsSaid(Mine', TransferInst(Now, func.code[b][i]))
    BY <1>1, <1>2, <1>5, <2>1, <2>2, RunsOwned
  <2> QED
    BY <1>1, <1>6, <2>3, FateTypes DEF OwnedAsSaid, Declared, WholeInit
<1>9. ((Tracked)' <=> Tracked) /\ ((NothingDead)' <=> NothingDead)
  BY <1>1, TrackedStays
<1> QED
  BY <1>4, <1>7, <1>8, <1>9, FateTypes DEF SuspensionInv, Vouched, AllNamed

LEMMA JumpNames == LifeInv /\ SuspensionInv /\ Jump => SuspensionInv'
<1> SUFFICES ASSUME LifeInv, SuspensionInv, Jump PROVE SuspensionInv'
  OBVIOUS
<1> DEFINE c == at'[1]
<1>1. /\ c \in reachable /\ c # 1 /\ Begun
      /\ UNCHANGED <<func, state, own>>
      /\ Now' = state[c].places /\ DOMAIN Now \subseteq DOMAIN Now' /\ Now' \in PlaceStates
      /\ \A q \in Places : Weaker(q, Now', Now)
  BY JumpFlows DEF engineVars, Begun
<1>2. Mine' = Mine /\ Now \in PlaceStates /\ c \in Blocks /\ Tidy(func, Now')
  <2>1. c \in Blocks
    BY <1>1 DEF LifeInv, EngineInv, FixpointInv, EngineTypeOK
  <2>2. Mine' = Mine
    BY <1>1 DEF Mine, LeafPlaces
  <2> QED
    BY <1>1, <2>1, <2>2, AtFacts DEF LifeInv, EngineInv, AnalysisInv
<1>3. ArgumentsOwned'
  BY <1>1 DEF ArgumentsOwned, Awaited
<1>4. ASSUME Tracked PROVE Vouched(Mine', Now', InnerPlaces) /\ AllNamed(Mine', Now')
  <2>1. Vouched(Mine, Now, InnerPlaces) /\ AllNamed(Mine, Now)
    BY <1>1, <1>4 DEF SuspensionInv
  <2>2. Vouched(Mine', Now', InnerPlaces)
    BY <1>1, <1>2, <2>1, InnerWatched DEF Vouched, Weaker, Watched
  <2>3. ASSUME NEW q \in LeafPlaces, Mine'[q] = "owned" PROVE Named(q, Now')
    <3>1. PICK k \in DOMAIN Now : IsAncestorOf(k, q) /\ Now[k] \in Kept
      BY <1>2, <2>1, <2>3 DEF AllNamed, Named
    <3>2. k \in DOMAIN Now' /\ k \in Places /\ q \in Places
      BY <1>1, <1>2, <3>1, StateFacts DEF LeafPlaces
    <3>3. Inherited(k, Now) = Now[k] /\ Inherited(k, Now') = Now'[k] /\ Now'[k] \in MoveState
      BY <1>1, <1>2, <3>1, <3>2, OwnEntry, StateFacts
    <3>4. Now'[k] \notin {"Uninitialized", "Dropped", "Moved"}
      BY <1>1, <3>1, <3>2, <3>3 DEF Weaker, Kept, Vanished
    <3>5. CASE Now'[k] \in Kept
      BY <3>1, <3>2, <3>5 DEF Named
    <3>6. CASE Now'[k] = "PartialMoved"
      <4>1. Named(k, Now')
        BY <1>1, <1>2, <1>4, <3>2, <3>6 DEF Tracked, PartsTracked
      <4>2. PICK j \in DOMAIN Now' : IsAncestorOf(j, k) /\ Now'[j] \in Kept
        BY <4>1 DEF Named
      <4>3. IsAncestorOf(j, q)
        BY <1>1, <3>1, <3>2, <4>2, StateFacts, Ancestry
      <4> QED
        BY <4>2, <4>3 DEF Named
    <3> QED
      BY <3>3, <3>4, <3>5, <3>6 DEF MoveState, Kept
  <2> QED
    BY <2>2, <2>3 DEF AllNamed
<1>5. ASSUME NothingDead PROVE (OwnedAsSaid(Mine, Now))'
  <2>1. OwnedAsSaid(Mine, Now)
    BY <1>1, <1>5 DEF SuspensionInv
  <2>2. \A q \in LeafPlaces : Here(q, Now') => Here(q, Now)
    BY <1>1 DEF Weaker, LeafPlaces
  <2> QED
    BY <1>1, <1>2, <2>1, <2>2, FateTypes DEF OwnedAsSaid, Declared, WholeInit
<1>6. ((Tracked)' <=> Tracked) /\ ((NothingDead)' <=> NothingDead)
  BY <1>1, TrackedStays
<1> QED
  BY <1>3, <1>4, <1>5, <1>6, FateTypes DEF SuspensionInv, Vouched, AllNamed

LEMMA SameNames ==
  ASSUME SuspensionInv, Begun, UNCHANGED <<func, state, at>>, Mine' = Mine
  PROVE  SuspensionInv'
<1>1. Now' = Now
  BY DEF Now, PlacesBefore
<1>2. ((Tracked)' <=> Tracked) /\ ((NothingDead)' <=> NothingDead)
  BY TrackedStays
<1>3. ArgumentsOwned'
  BY DEF SuspensionInv, ArgumentsOwned, Awaited, LeafPlaces
<1>4. NothingDead => (OwnedAsSaid(Mine, Now))'
  BY <1>1, FateTypes DEF SuspensionInv, OwnedAsSaid, Declared, WholeInit
<1> QED
  BY <1>1, <1>2, <1>3, <1>4, FateTypes DEF SuspensionInv, Vouched, AllNamed

LEMMA SuspensionStep == LifeInv /\ SuspensionInv /\ [AsyncNext]_allVars => SuspensionInv'
<1> SUFFICES ASSUME LifeInv, SuspensionInv, [AsyncNext]_allVars PROVE SuspensionInv'
  OBVIOUS
<1>1. ASSUME life' \notin {"suspended", "running"} PROVE SuspensionInv'
  BY <1>1 DEF SuspensionInv, Begun
<1>2. CASE Check
  BY <1>1, <1>2 DEF Check, asyncVars
<1>3. CASE Lower
  BY <1>1, <1>3 DEF Lower
<1>4. CASE FindSuspensions
  BY <1>1, <1>4 DEF FindSuspensions
<1>5. CASE Kickoff
  BY <1>5, KickoffNames
<1>6. CASE Poll /\ fstate = 0
  <2>1. UNCHANGED <<func, state, at>> /\ Mine' = Mine /\ Begun
    BY <1>6, FirstPollKeeps DEF Poll, engineVars, Mine, LeafPlaces, Begun
  <2> QED
    BY <2>1, SameNames
<1>7. CASE (Poll /\ fstate # 0) \/ Skip \/ Step
  BY <1>7, AdvanceNames DEF Advance
<1>8. CASE Suspend
  <2>1. UNCHANGED <<func, state, at>> /\ Mine' = Mine /\ Begun
    BY <1>8, SuspendKeeps DEF Suspend, engineVars, Begun
  <2> QED
    BY <2>1, SameNames
<1>9. CASE Jump
  BY <1>9, JumpNames
<1>10. CASE Complete \/ Destroy
  BY <1>1, <1>10 DEF Complete, Destroy
<1>11. CASE UNCHANGED allVars
  <2>1. UNCHANGED <<func, state, at, own, life>>
    BY <1>11 DEF allVars, asyncVars, vars, engineVars, checkVars, runVars
  <2>2. Mine' = Mine
    BY <2>1 DEF Mine, LeafPlaces
  <2>3. Begun' <=> Begun
    BY <2>1 DEF Begun
  <2> QED
    BY <2>1, <2>2, <2>3, SameNames DEF SuspensionInv
<1> QED
  BY <1>2, <1>3, <1>4, <1>5, <1>6, <1>7, <1>8, <1>9, <1>10, <1>11 DEF AsyncNext

LEMMA SuspensionAlways == ASSUME MoveEngine PROVE AsyncSpec => [](LifeInv /\ SuspensionInv)
<1>1. AsyncInit => LifeInv /\ SuspensionInv
  BY LifeStarts DEF AsyncInit, SuspensionInv, Begun
<1>2. LifeInv /\ SuspensionInv /\ [AsyncNext]_allVars => LifeInv' /\ SuspensionInv'
  BY LifeStep, SuspensionStep
<1> QED
  BY <1>1, <1>2, PTL DEF AsyncSpec

\* The declarations that the entry block begins with change nothing of what the arguments fill.
LEMMA LeadingRuns ==
  ASSUME func \in Functions, 1 \in DOMAIN func.code, NEW j \in 1 .. Leading(func)
  PROVE  /\ AtKickoff \in Fates /\ j \in DOMAIN func.code[1]
         /\ func.code[1][j].op \in {"alloca", "param"}
         /\ Runs(func.code[1][j], AtKickoff, AtKickoff)
<1> DEFINE inst == func.code[1][j]
           p == inst.place
<1>1. j \in DOMAIN func.code[1] /\ inst.op \in {"alloca", "param"}
  BY LeadingIs
<1>2. p \in Places /\ Len(p) = 1 /\ p \in Allocas(func, inst.op)
  BY <1>1, InstFacts DEF WellPlaced
<1>3. AtKickoff \in Fates /\ \A q \in LeafPlaces :
        AtKickoff[q] = IF \E a \in Allocas(func, "param") : IsAncestorOf(a, q) THEN "owned" ELSE "uninit"
  BY DEF AtKickoff, Fates, Leaves, LeafPlaces
<1>4. ASSUME NEW q \in LeafPlaces, IsAncestorOf(p, q), inst.op = "alloca" PROVE AtKickoff[q] = "uninit"
  <2> SUFFICES ASSUME NEW a \in Allocas(func, "param"), IsAncestorOf(a, q) PROVE FALSE
    BY <1>3
  <2>1. a \in Places /\ Len(a) = 1 /\ q \in Places
    BY DeclaredFacts DEF Declared, LeafPlaces
  <2>2. p = a
    BY <1>2, <1>4, <2>1, Ancestry
  <2> QED
    BY <1>2, <1>4, <2>2, ParametersAssumption
<1>5. ASSUME NEW q \in LeafPlaces, IsAncestorOf(p, q), inst.op = "param" PROVE AtKickoff[q] = "owned"
  BY <1>2, <1>3, <1>5
<1> QED
  BY <1>1, <1>3, <1>4, <1>5 DEF Runs

\* So the drop set before the first poll is that of the arguments.
LEMMA KickoffIs ==
  ASSUME LifeInv
  PROVE  /\ SuspensionPlaces(0) \in PlaceStates /\ Tidy(func, SuspensionPlaces(0))
         /\ AllNamed(AtKickoff, SuspensionPlaces(0)) /\ OwnedAsSaid(AtKickoff, SuspensionPlaces(0))
<1> DEFINE s == func.code[1]
           n == Leading(func)
           Before0(j) == TransferInsts(state[1].places, SubSeq(s, 1, j))
           G == {j \in 0 .. n : /\ Before0(j) \in PlaceStates /\ Tidy(func, Before0(j))
                               /\ AllNamed(AtKickoff, Before0(j)) /\ OwnedAsSaid(AtKickoff, Before0(j))}
<1>1. func \in Functions /\ 1 \in DOMAIN func.code /\ 1 \in Blocks
  BY FunctionShape DEF LifeInv, EngineInv, FixpointInv
<1>2. state[1] = MoveEntryState(func) /\ state[1].places \in PlaceStates /\ Tidy(func, state[1].places)
  BY <1>1 DEF LifeInv, WholeInv, EngineInv, AnalysisInv, MoveStates
<1>3. s \in Seq(Instructions) /\ Len(s) \in Nat /\ n \in 0 .. Len(s) /\ n \in Nat
  <2>1. s \in Seq(Instructions) /\ Len(s) \in Nat /\ n \in 0 .. Len(s)
    BY <1>1, CodeFacts, LeadingIs
  <2> QED
    BY <2>1
<1>4. 0 \in G
  <2>1. AllNamed(AtKickoff, MoveEntryState(func).places) /\ OwnedAsSaid(AtKickoff, MoveEntryState(func).places)
    <3>1. \A q \in LeafPlaces : AtKickoff[q] = "owned" <=> \E p \in Allocas(func, "param") : IsAncestorOf(p, q)
      BY DEF AtKickoff, Leaves, LeafPlaces
    <3> QED
      BY <1>1, <3>1, InnerWatched, EntryNames, EntryOwned
  <2>2. Before0(0) = state[1].places
    BY <1>2, InstStart
  <2> HIDE DEF Before0, n
  <2> QED
    BY <1>2, <1>3, <2>1, <2>2
<1>5. ASSUME NEW j \in 1 .. n, j - 1 \in G PROVE j \in G
  <2>1. j \in 1 .. Len(s) /\ j \in 0 .. n /\ j \in 0 .. Len(func.code[1])
    BY <1>3
  <2>2. /\ Before0(j) = TransferInst(Before0(j - 1), s[j])
        /\ Before0(j) \in PlaceStates /\ Tidy(func, Before0(j))
    BY <1>1, <1>2, <1>3, <2>1, InstStep, BlockFacts
  <2>3. /\ Before0(j - 1) \in PlaceStates /\ Tidy(func, Before0(j - 1))
        /\ AllNamed(AtKickoff, Before0(j - 1)) /\ OwnedAsSaid(AtKickoff, Before0(j - 1))
    BY <1>5
  <2>4. /\ AtKickoff \in Fates /\ j \in DOMAIN func.code[1] /\ s[j].op \in {"alloca", "param"}
        /\ Runs(s[j], AtKickoff, AtKickoff)
    BY <1>1, LeadingRuns
  <2> HIDE DEF Before0
  <2>5. AllNamed(AtKickoff, TransferInst(Before0(j - 1), s[j]))
    BY <1>1, <2>3, <2>4, RunsNamed
  <2>6. OwnedAsSaid(AtKickoff, TransferInst(Before0(j - 1), s[j]))
    BY <1>1, <2>3, <2>4, RunsOwned
  <2> QED
    BY <2>1, <2>2, <2>5, <2>6
<1>6. G \in SUBSET (0 .. n)
  OBVIOUS
<1>7. G = 0 .. n
  <2> HIDE DEF G, n
  <2> QED
    BY <1>3, <1>4, <1>5, <1>6, Chain
<1>8. n \in G
  <2> HIDE DEF G
  <2> QED
    BY <1>3, <1>7
<1>9. SuspensionPlaces(0) = Before0(n)
  <2> DEFINE m == n + 1
  <2>1. SuspensionPlaces(0) = PlacesBefore(1, m)
    BY DEF SuspensionPlaces
  <2>2. m - 1 = n
    <3> HIDE DEF n
    <3> QED
      BY <1>3
  <2> HIDE DEF m
  <2>3. PlacesBefore(1, m) = TransferInsts(state[1].places, SubSeq(s, 1, m - 1))
    BY DEF PlacesBefore
  <2> QED
    BY <2>1, <2>2, <2>3
<1> QED
  BY <1>8, <1>9

\* What the future owns in the state it is suspended in, and what the analysis says of it there.
LEMMA AtSuspension ==
  ASSUME LifeInv, SuspensionInv, life = "suspended"
  PROVE  /\ func \in Functions /\ own \in Fates
         /\ SuspensionPlaces(fstate) \in PlaceStates /\ Tidy(func, SuspensionPlaces(fstate))
         /\ Tracked => \A q \in LeafPlaces : own[q] = "owned" /\ q # child => Named(q, SuspensionPlaces(fstate))
         /\ NothingDead => OwnedAsSaid(own, SuspensionPlaces(fstate))
<1>1. Begun /\ Pending /\ func \in Functions /\ own \in Fates
  BY DEF LifeInv, Begun, EngineInv, FixpointInv, FuncOK
<1>2. CASE fstate = 0 /\ own = AtKickoff
  BY <1>1, <1>2, KickoffIs DEF AllNamed
<1>3. CASE at \in AwaitsOf(func) /\ fstate = AwaitId(func, at)
  <2>1. fstate # 0 /\ AwaitPoint(func, fstate) = at
    BY <1>1, <1>3, AwaitsDiffer
  <2>2. SuspensionPlaces(fstate) = Now
    BY <2>1 DEF SuspensionPlaces, Now
  <2>3. own[Temp] = "owned" => child = Temp
    BY <1>1 DEF LifeInv
  <2>4. \A q \in LeafPlaces : own[q] = "owned" /\ q # child => Mine[q] = "owned"
    BY <2>3 DEF Mine
  <2>5. \A q \in LeafPlaces : Mine[q] = "owned" => own[q] = "owned"
    BY DEF Mine
  <2>6. Tracked => AllNamed(Mine, Now)
    BY <1>1 DEF SuspensionInv
  <2>7. NothingDead => OwnedAsSaid(Mine, Now)
    BY <1>1 DEF SuspensionInv
  <2>8. Now \in PlaceStates /\ Tidy(func, Now)
    BY <1>1, AtFacts
  <2> QED
    BY <1>1, <2>2, <2>4, <2>5, <2>6, <2>7, <2>8 DEF AllNamed, OwnedAsSaid
<1> QED
  BY <1>1, <1>2, <1>3 DEF Pending

LEMMA MissesNothing == LifeInv /\ SuspensionInv /\ Tracked => DropSetMissesNothing
<1> SUFFICES ASSUME LifeInv, SuspensionInv, Tracked, life = "suspended", NEW q \in DOMAIN own, own[q] = "owned", q # child
             PROVE  \E p \in DropSet(fstate) : q \in Leaves(p)
  BY DEF DropSetMissesNothing
<1>1. q \in LeafPlaces /\ Named(q, SuspensionPlaces(fstate)) /\ SuspensionPlaces(fstate) \in PlaceStates
  BY AtSuspension DEF Fates
<1> QED
  BY <1>1, TopmostIsTaken DEF DropSet

(***************************************************************************)
(* Whatever a suspended future owns, the drop set of its state names it,   *)
(* or it is the future being awaited: for every function whose stores into *)
(* fields are noticed by the structs around them, and on every path that   *)
(* may have led to the await.                                              *)
(***************************************************************************)
THEOREM DropSetIsComplete ==
  ASSUME MoveEngine
  PROVE  AsyncSpec => [](Tracked => DropSetMissesNothing)
<1>1. LifeInv /\ SuspensionInv => (Tracked => DropSetMissesNothing)
  BY MissesNothing
<1> QED
  BY <1>1, SuspensionAlways, PTL

\* Below an entry that is taken, what is not there has moved on some path.
LEMMA BelowTaken ==
  ASSUME NEW f \in Functions, NEW P \in PlaceStates, Tidy(f, P), RootDrops(f),
         NEW p \in DOMAIN P, P[p] \in Kept, NEW q \in LeafPlaces, IsAncestorOf(p, q)
  PROVE  \/ Here(q, P) /\ \E a \in Declared(f) : IsAncestorOf(a, q)
         \/ GetPlaceState(q, P) \in {"Moved", "ConditionallyMoved"}
<1>1. p \in Places /\ q \in Places /\ Len(p) \in Nat /\ Len(p) > 0
  BY StateFacts, PlaceFacts DEF LeafPlaces
<1>2. PICK k : Deepest(k, q, P)
  BY <1>1, DeepestExists
<1>3. /\ k \in DOMAIN P /\ k \in Places /\ IsAncestorOf(k, q) /\ Len(p) <= Len(k)
      /\ Inherited(q, P) = P[k] /\ P[k] \in MoveState
  BY <1>1, <1>2, InheritsFrom, StateFacts DEF Deepest
<1>4. CASE P[k] \in Sure
  <2>1. PICK a \in Declared(f) : IsAncestorOf(a, k)
    BY <1>3, <1>4 DEF Tidy
  <2>2. IsAncestorOf(a, q)
    BY <1>1, <1>3, <2>1, DeclaredFacts, Ancestry
  <2> QED
    BY <1>3, <1>4, <2>2 DEF Here
<1>5. CASE P[k] \in {"Uninitialized", "Dropped"}
  <2>1. Len(k) = 1
    <3>1. P[k] = "Uninitialized" => k \in Declared(f)
      BY <1>3 DEF Tidy, Declared
    <3>2. P[k] = "Dropped" => Len(k) = 1
      BY <1>3 DEF Tidy
    <3> QED
      BY <1>5, <3>1, <3>2, DeclaredFacts
  <2>2. Len(p) = Len(k)
    <3> DEFINE m == Len(p)
               n == Len(k)
    <3>1. m \in Nat /\ m > 0 /\ m <= n /\ n = 1
      BY <1>1, <1>3, <2>1
    <3> HIDE DEF m, n
    <3>2. m = n
      BY <3>1
    <3> QED
      BY <3>2 DEF m, n
  <2>3. p = k
    BY <1>1, <1>3, <2>2, Ancestry
  <2> QED
    BY <1>5, <2>3 DEF Kept
<1>6. CASE P[k] \in {"Moved", "ConditionallyMoved"}
  <2>1. Inherited(q, P) \notin Sure
    BY <1>3, <1>6 DEF Sure
  <2>2. GetPlaceState(q, P) = Inherited(q, P)
    BY <1>1, <2>1, PlaceStateIs
  <2> QED
    BY <1>3, <1>6, <2>2
<1> QED
  BY <1>3, <1>4, <1>5, <1>6 DEF MoveState, Sure

LEMMA OnlyOwned ==
  LifeInv /\ SuspensionInv /\ WholeInits(func) /\ RootDrops(func) /\ NothingDead => DropSetOnlyOwned
<1> SUFFICES ASSUME LifeInv, SuspensionInv, WholeInits(func), RootDrops(func), NothingDead, life = "suspended",
                    NEW p \in DropSet(fstate), NEW q \in Leaves(p)
             PROVE  \/ own[q] = "owned"
                    \/ GetPlaceState(q, SuspensionPlaces(fstate)) \in {"Moved", "ConditionallyMoved"}
  BY DEF DropSetOnlyOwned
<1> DEFINE P == SuspensionPlaces(fstate)
<1>1. func \in Functions /\ P \in PlaceStates /\ Tidy(func, P) /\ OwnedAsSaid(own, P)
  BY AtSuspension
<1>2. p \in DOMAIN P /\ P[p] \in Kept
  BY DEF DropSet, LivePlaces, Kept
<1>3. q \in LeafPlaces /\ IsAncestorOf(p, q)
  BY DEF Leaves, LeafPlaces
<1> HIDE DEF P
<1>4. CASE GetPlaceState(q, P) \in {"Moved", "ConditionallyMoved"}
  BY <1>4 DEF P
<1>5. CASE Here(q, P) /\ \E a \in Declared(func) : IsAncestorOf(a, q)
  <2>1. PICK a \in Declared(func) : IsAncestorOf(a, q)
    BY <1>5
  <2>2. WholeInit(func, a)
    BY DEF WholeInits, WholeInit
  <2> QED
    BY <1>1, <1>3, <1>5, <2>1, <2>2 DEF OwnedAsSaid
<1> QED
  BY <1>1, <1>2, <1>3, <1>4, <1>5, BelowTaken

(***************************************************************************)
(* The drop set of a suspended future names nothing that is surely not     *)
(* there: a leaf below one of its places is owned, unless the analysis has *)
(* that leaf moved on some path.  For every function whose locals get      *)
(* their values as a whole, and where the second analysis finds no drop    *)
(* dead that the first one has left.                                       *)
(***************************************************************************)
THEOREM DropSetIsOwned ==
  ASSUME MoveEngine
  PROVE  AsyncSpec => [](WholeInits(func) /\ RootDrops(func) /\ NothingDead => DropSetOnlyOwned)
<1>1. LifeInv /\ SuspensionInv => (WholeInits(func) /\ RootDrops(func) /\ NothingDead => DropSetOnlyOwned)
  BY OnlyOwned
<1> QED
  BY <1>1, SuspensionAlways, PTL

-----------------------------------------------------------------------------
(* Nothing but futures is lost on the way.                                 *)

\* The second analysis finds dead what the first one removed.
DeadStays ==
  \A b \in Blocks : \A i \in DOMAIN func.code[b] :
    func.code[b][i].op = "nop" => GetPlaceState(func.code[b][i].place, PlacesBefore(b, i)) \in Vanished

MineIsDeclared == \A q \in LeafPlaces : Mine[q] = "owned" => \E a \in Declared(func) : IsAncestorOf(a, q)

HoldNothing(S) ==
  \A q \in LeafPlaces, a \in Declared(func) :
    <<a, at[1], at[2]>> \in S /\ IsAncestorOf(a, q) => Mine[q] # "owned"

CompletionInv ==
  Begun => /\ MineIsDeclared
           /\ StoresNoticed => Vouched(Mine, Now, Places)
           /\ StoresNoticed /\ DeadStays => \A S : Clears(func, S) => HoldNothing(S)

LEMMA NoticedStays ==
  ASSUME UNCHANGED <<func, state>>
  PROVE  ((StoresNoticed)' <=> StoresNoticed) /\ ((DeadStays)' <=> DeadStays)
BY DEF StoresNoticed, StoreNoticed, DeadStays, PlacesBefore, Blocks

LEMMA KickoffClears == LifeInv /\ Kickoff => CompletionInv'
<1> SUFFICES ASSUME LifeInv, Kickoff PROVE CompletionInv'
  OBVIOUS
<1>1. /\ at'[1] = 1 /\ at'[2] = 1 /\ func' = func /\ func \in Functions /\ 1 \in DOMAIN func.code
      /\ Now' = MoveEntryState(func).places
  BY KickoffFacts
<1>2. \A q \in LeafPlaces : Mine'[q] = "owned" <=> \E p \in Allocas(func, "param") : IsAncestorOf(p, q)
  BY KickoffFacts
<1>3. MineIsDeclared'
  BY <1>1, <1>2, FateTypes DEF MineIsDeclared, Declared
<1>4. Vouched(Mine', Now', Places)
  BY <1>1, <1>2, AllWatched, EntryNames
<1>5. ASSUME NEW S, Clears(func, S), NEW q \in LeafPlaces, NEW a \in Declared(func), <<a, 1, 1>> \in S, IsAncestorOf(a, q)
      PROVE  Mine'[q] # "owned"
  <2> SUFFICES ASSUME NEW p \in Allocas(func, "param"), IsAncestorOf(p, q) PROVE FALSE
    BY <1>2
  <2>1. /\ a \in Places /\ Len(a) = 1 /\ p \in Places /\ Len(p) = 1 /\ q \in Places
    BY <1>1, DeclaredFacts DEF Declared, LeafPlaces
  <2>2. p = a
    BY <1>5, <2>1, Ancestry
  <2> QED
    BY <1>1, <1>5, <2>2 DEF Clears
<1>6. ASSUME NEW S, Clears(func, S) PROVE (HoldNothing(S))'
  BY <1>1, <1>5, <1>6, FateTypes DEF HoldNothing, Declared
<1> QED
  BY <1>1, <1>3, <1>4, <1>6 DEF CompletionInv, Vouched, LeafPlaces, Places

LEMMA MineStaysDeclared ==
  ASSUME LifeInv, ArgumentsOwned, Advance, MineIsDeclared
  PROVE  MineIsDeclared'
<1> DEFINE inst == func.code[at[1]][at[2]]
           p == inst.place
<1>1. /\ at[1] \in DOMAIN func.code /\ at[2] \in DOMAIN func.code[at[1]] /\ func' = func /\ func \in Functions
  BY AdvanceGoes, AtFacts DEF engineVars
<1>2. Runs(inst, Mine, Mine')
  BY RunsAlways
<1>3. /\ p \in Places
      /\ inst.op = "param" => p \in Declared(func)
      /\ inst.op = "init" => \E a \in Declared(func) : IsAncestorOf(a, p)
  BY <1>1, InstFacts DEF WellPlaced, Declared
<1> SUFFICES ASSUME NEW q \in LeafPlaces, Mine'[q] = "owned" PROVE \E a \in Declared(func) : IsAncestorOf(a, q)
  BY <1>1, FateTypes DEF MineIsDeclared, Declared
<1>4. q \in Places
  BY DEF LeafPlaces
<1>5. Mine[q] = "owned" \/ (inst.op \in {"param", "init"} /\ IsAncestorOf(p, q))
  BY <1>2 DEF Runs
<1>6. CASE Mine[q] = "owned"
  BY <1>6 DEF MineIsDeclared
<1>7. CASE inst.op \in {"param", "init"} /\ IsAncestorOf(p, q)
  <2> HIDE DEF p, inst
  <2>1. PICK a \in Declared(func) : IsAncestorOf(a, p)
    BY <1>3, <1>7, Self
  <2>2. a \in Places
    BY <1>1, DeclaredFacts
  <2> QED
    BY <1>3, <1>4, <1>7, <2>1, <2>2, Ancestry
<1> QED
  BY <1>5, <1>6, <1>7

LEMMA HoldNothingAlong ==
  ASSUME LifeInv, ArgumentsOwned, Advance, Vouched(Mine, Now, Places), DeadStays,
         NEW S, Clears(func, S), HoldNothing(S)
  PROVE  (HoldNothing(S))'
<1> DEFINE b == at[1]
           i == at[2]
           inst == func.code[b][i]
           p == inst.place
<1>1. /\ b \in DOMAIN func.code /\ i \in DOMAIN func.code[b] /\ at' = <<b, i + 1>> /\ func' = func
      /\ at'[1] = b /\ at'[2] = i + 1 /\ func \in Functions /\ b \in Blocks /\ Now \in PlaceStates
  BY AdvanceGoes, AtFacts DEF engineVars
<1>2. Runs(inst, Mine, Mine')
  BY RunsAlways
<1>3. p \in Places
  BY <1>1, InstFacts
<1> SUFFICES ASSUME NEW q \in LeafPlaces, NEW a \in Declared(func), <<a, b, i + 1>> \in S, IsAncestorOf(a, q)
             PROVE  Mine'[q] # "owned"
  BY <1>1, FateTypes DEF HoldNothing, Declared
<1>4. q \in Places /\ a \in Places /\ Len(a) = 1
  BY <1>1, DeclaredFacts DEF LeafPlaces
<1>5. \/ inst.op \in {"move", "await", "drop", "free", "alloca", "nop"} /\ p = a
      \/ <<a, b, i>> \in S /\ ~(inst.op \in {"init", "param"} /\ IsAncestorOf(a, p))
  BY <1>1 DEF Clears
<1>6. CASE inst.op \in {"move", "await", "drop", "free", "alloca"} /\ p = a
  BY <1>2, <1>6 DEF Runs
<1>7. CASE inst.op = "nop" /\ p = a
  <2>1. Inherited(a, Now) \in Vanished
    <3>1. GetPlaceState(p, Now) \in Vanished
      BY <1>1, <1>7 DEF DeadStays, Now
    <3> QED
      BY <1>1, <1>4, <1>7, <3>1, VanishedIs
  <2>2. Mine[q] # "owned"
    BY <1>4, <2>1 DEF Vouched
  <2> QED
    BY <1>2, <1>7, <2>2 DEF Runs
<1>8. CASE <<a, b, i>> \in S /\ ~(inst.op \in {"init", "param"} /\ IsAncestorOf(a, p))
  <2>1. Mine[q] # "owned"
    BY <1>8 DEF HoldNothing
  <2>2. ~(inst.op \in {"init", "param"} /\ IsAncestorOf(p, q))
    <3> SUFFICES ASSUME inst.op \in {"init", "param"}, IsAncestorOf(p, q) PROVE FALSE
      OBVIOUS
    <3> HIDE DEF p, inst
    <3>1. Len(p) \in Nat /\ Len(p) > 0
      BY <1>3, PlaceFacts
    <3>2. Len(a) <= Len(p)
      BY <1>4, <3>1
    <3>3. IsAncestorOf(a, p)
      BY <1>3, <1>4, <3>2, Ancestry
    <3> QED
      BY <1>8, <3>3
  <2> QED
    BY <1>2, <2>1, <2>2 DEF Runs
<1> QED
  BY <1>5, <1>6, <1>7, <1>8

LEMMA AdvanceClears == LifeInv /\ SuspensionInv /\ CompletionInv /\ Advance => CompletionInv'
<1> SUFFICES ASSUME LifeInv, SuspensionInv, CompletionInv, Advance PROVE CompletionInv'
  OBVIOUS
<1>1. /\ Begun /\ at[1] \in DOMAIN func.code /\ at[2] \in DOMAIN func.code[at[1]] /\ at[1] \in Blocks
      /\ UNCHANGED <<func, state>>
  BY AdvanceGoes, AtFacts DEF engineVars
<1>2. ArgumentsOwned
  BY <1>1 DEF SuspensionInv
<1>3. MineIsDeclared'
  BY <1>1, <1>2, MineStaysDeclared DEF CompletionInv
<1>4. ((StoresNoticed)' <=> StoresNoticed) /\ ((DeadStays)' <=> DeadStays)
  BY <1>1, NoticedStays
<1>5. ASSUME StoresNoticed PROVE Vouched(Mine', Now', Places)
  <2>1. Vouched(Mine, Now, Places)
    BY <1>1, <1>5 DEF CompletionInv
  <2>2. func.code[at[1]][at[2]].op = "init" =>
          \A a \in ProperAncestors(func.code[at[1]][at[2]].place) \cap Places :
            GetPlaceState(a, PlacesBefore(at[1], at[2] + 1)) \notin Vanished
    BY <1>1, <1>5 DEF StoresNoticed, StoreNoticed
  <2> QED
    BY <1>2, <2>1, <2>2, AllWatched, AdvanceVouches
<1>6. ASSUME StoresNoticed, DeadStays, NEW S, Clears(func, S) PROVE (HoldNothing(S))'
  <2>1. Vouched(Mine, Now, Places) /\ HoldNothing(S)
    BY <1>1, <1>6 DEF CompletionInv
  <2> QED
    BY <1>2, <1>6, <2>1, HoldNothingAlong
<1> QED
  BY <1>1, <1>3, <1>4, <1>5, <1>6 DEF CompletionInv, Vouched, LeafPlaces, Places

LEMMA JumpClears == LifeInv /\ CompletionInv /\ Jump => CompletionInv'
<1> SUFFICES ASSUME LifeInv, CompletionInv, Jump PROVE CompletionInv'
  OBVIOUS
<1> DEFINE b == at[1]
           c == at'[1]
<1>1. /\ at' = <<c, 1>> /\ at'[2] = 1 /\ Begun /\ UNCHANGED <<func, state, own>>
      /\ \A q \in Places : Weaker(q, Now', Now)
  BY JumpFlows DEF engineVars, Begun
<1>2. Mine' = Mine
  BY <1>1 DEF Mine, LeafPlaces
<1>3. MineIsDeclared'
  BY <1>1, <1>2, FateTypes DEF CompletionInv, MineIsDeclared, Declared
<1>4. ((StoresNoticed)' <=> StoresNoticed) /\ ((DeadStays)' <=> DeadStays)
  BY <1>1, NoticedStays
<1>5. ASSUME StoresNoticed PROVE Vouched(Mine', Now', Places)
  <2>1. Vouched(Mine, Now, Places)
    BY <1>1, <1>5 DEF CompletionInv
  <2> QED
    BY <1>1, <1>2, <2>1 DEF Vouched, Weaker
<1>6. c \in ToSet(func.succ[b]) /\ b \in DOMAIN func.code /\ at[2] = Len(func.code[b]) + 1
  <2>1. /\ func \in Functions /\ b \in DOMAIN func.code /\ b \in Blocks /\ Len(func.code[b]) \in Nat
        /\ at[2] \in 1 .. Len(func.code[b]) + 1
    BY <1>1, AtFacts DEF LifeInv
  <2>2. Succ(b) = func.succ[b]
    BY <2>1, FunctionShape DEF LifeInv, EngineInv, FixpointInv
  <2>3. PICK i \in DOMAIN Succ(b) : at' = <<Succ(b)[i], 1>>
    BY DEF Jump, Branch
  <2>4. at[2] > Len(func.code[b])
    BY DEF Jump, Branch
  <2>5. c = Succ(b)[i]
    BY <2>3
  <2>6. c \in ToSet(func.succ[b])
    BY <2>2, <2>5 DEF ToSet
  <2> QED
    BY <2>1, <2>4, <2>6
<1>7. ASSUME NEW S, Clears(func, S), HoldNothing(S) PROVE (HoldNothing(S))'
  <2>1. \A a \in Declared(func) : <<a, c, 1>> \in S => <<a, at[1], at[2]>> \in S
    BY <1>6, <1>7 DEF Clears
  <2> QED
    BY <1>1, <1>2, <1>7, <2>1, FateTypes DEF HoldNothing, Declared
<1> QED
  BY <1>1, <1>3, <1>4, <1>5, <1>7 DEF CompletionInv, Vouched, LeafPlaces, Places

LEMMA SameClears ==
  ASSUME CompletionInv, Begun, UNCHANGED <<func, state, at>>, Mine' = Mine
  PROVE  CompletionInv'
<1>1. Now' = Now
  BY DEF Now, PlacesBefore
<1>2. ((StoresNoticed)' <=> StoresNoticed) /\ ((DeadStays)' <=> DeadStays)
  BY NoticedStays
<1>3. \A S : (HoldNothing(S))' <=> HoldNothing(S)
  BY FateTypes DEF HoldNothing, Declared
<1>4. MineIsDeclared'
  BY FateTypes DEF CompletionInv, MineIsDeclared, Declared
<1> QED
  BY <1>1, <1>2, <1>3, <1>4 DEF CompletionInv, Vouched, LeafPlaces, Places

LEMMA CompletionStep == LifeInv /\ SuspensionInv /\ CompletionInv /\ [AsyncNext]_allVars => CompletionInv'
<1> SUFFICES ASSUME LifeInv, SuspensionInv, CompletionInv, [AsyncNext]_allVars PROVE CompletionInv'
  OBVIOUS
<1>1. ASSUME life' \notin {"suspended", "running"} PROVE CompletionInv'
  BY <1>1 DEF CompletionInv, Begun
<1>2. CASE Check
  BY <1>1, <1>2 DEF Check, asyncVars
<1>3. CASE Lower
  BY <1>1, <1>3 DEF Lower
<1>4. CASE FindSuspensions
  BY <1>1, <1>4 DEF FindSuspensions
<1>5. CASE Kickoff
  BY <1>5, KickoffClears
<1>6. CASE Poll /\ fstate = 0
  <2>1. UNCHANGED <<func, state, at>> /\ Mine' = Mine /\ Begun
    BY <1>6, FirstPollKeeps DEF Poll, engineVars, Mine, LeafPlaces, Begun
  <2> QED
    BY <2>1, SameClears
<1>7. CASE (Poll /\ fstate # 0) \/ Skip \/ Step
  BY <1>7, AdvanceClears DEF Advance
<1>8. CASE Suspend
  <2>1. UNCHANGED <<func, state, at>> /\ Mine' = Mine /\ Begun
    BY <1>8, SuspendKeeps DEF Suspend, engineVars, Begun
  <2> QED
    BY <2>1, SameClears
<1>9. CASE Jump
  BY <1>9, JumpClears
<1>10. CASE Complete \/ Destroy
  BY <1>1, <1>10 DEF Complete, Destroy
<1>11. CASE UNCHANGED allVars
  <2>1. UNCHANGED <<func, state, at, own, life>>
    BY <1>11 DEF allVars, asyncVars, vars, engineVars, checkVars, runVars
  <2>2. Mine' = Mine
    BY <2>1 DEF Mine, LeafPlaces
  <2>3. Begun' <=> Begun
    BY <2>1 DEF Begun
  <2> QED
    BY <2>1, <2>2, <2>3, SameClears DEF CompletionInv
<1> QED
  BY <1>2, <1>3, <1>4, <1>5, <1>6, <1>7, <1>8, <1>9, <1>10, <1>11 DEF AsyncNext

LEMMA CompletionAlways == ASSUME MoveEngine PROVE AsyncSpec => []CompletionInv
<1>1. AsyncInit => CompletionInv
  BY DEF AsyncInit, CompletionInv, Begun
<1> QED
  BY <1>1, CompletionStep, SuspensionAlways, PTL DEF AsyncSpec

\* While it runs, the future owns only what is its own.
LEMMA RunningOwns ==
  ASSUME LifeInv, life = "running", NEW q \in LeafPlaces, own[q] = "owned"
  PROVE  Mine[q] = "owned"
<1>1. own[Temp] # "owned"
  BY TempIsApart DEF LifeInv, Begun
<1> QED
  BY <1>1 DEF Mine

\* What is declared again holds nothing.
LEMMA SkipLosesNothing ==
  ASSUME LifeInv, Skip, NEW S, Clears(func, S), HoldNothing(S),
         NEW p, <<"leak", p>> \in fault', <<"leak", p>> \notin fault
  PROVE  p \in Futures
<1> DEFINE inst == func.code[at[1]][at[2]]
<1>1. /\ life = "running" /\ Current = inst /\ func \in Functions
      /\ at[1] \in DOMAIN func.code /\ at[2] \in DOMAIN func.code[at[1]]
  BY AdvanceGoes, AtFacts DEF Skip, Current, Advance
<1>2. \/ inst.op = "alloca" /\ Abandon(inst.place, "uninit")
      \/ inst.op = "drop" /\ inst.place \in Futures /\ Abandon(inst.place, "gone")
  BY <1>1 DEF Skip
<1>3. p = inst.place /\ Holds(p, "owned")
  BY <1>2 DEF Abandon, Commit
<1>4. inst.op # "alloca"
  <2> SUFFICES ASSUME inst.op = "alloca" PROVE FALSE
    OBVIOUS
  <2>1. PICK q \in Leaves(p) : own[q] = "owned"
    BY <1>3 DEF Holds
  <2>2. q \in LeafPlaces /\ IsAncestorOf(p, q)
    BY DEF Leaves, LeafPlaces
  <2>3. Mine[q] = "owned"
    BY <1>1, <2>1, <2>2, RunningOwns
  <2>4. p \in Declared(func)
    BY <1>1, <1>3, InstFacts DEF Declared
  <2>5. <<p, at[1], at[2]>> \in S
    BY <1>1, <1>3, <2>4 DEF Clears
  <2> QED
    BY <2>2, <2>3, <2>4, <2>5 DEF HoldNothing
<1> QED
  BY <1>2, <1>3, <1>4

\* Of the other instructions none gives up a value without dropping or moving it.
LEMMA StepLosesNothing ==
  ASSUME LifeInv, Step, NEW p, <<"leak", p>> \notin fault
  PROVE  <<"leak", p>> \notin fault'
<1> DEFINE inst == Cleaned(at[1], at[2])
<1>1. inst = Current
  BY AdvanceGoes, AtFacts DEF Step, Current, HasNext, Advance
<1>2. inst.op \notin {"alloca", "param"} /\ StepInst
  BY <1>1 DEF Step, Awaits
<1> HIDE DEF inst
<1>3. \/ fault' = fault
      \/ \E kind \in {"overwrite", "use", "drop"} : fault' = fault \cup {<<kind, inst.place>>}
  <2>1. CASE inst.op = "init"
    BY <1>2, <2>1 DEF StepInst, Commit, inst
  <2>2. CASE inst.op \in {"use", "extract"}
    BY <1>2, <2>2 DEF StepInst, Commit, inst
  <2>3. CASE inst.op \in {"move", "await"}
    BY <1>2, <2>3 DEF StepInst, Commit, inst
  <2>4. CASE inst.op = "drop"
    BY <1>2, <2>4 DEF StepInst, Commit, inst
  <2>5. CASE inst.op \notin {"init", "use", "extract", "move", "await", "drop"}
    BY <1>2, <2>5 DEF StepInst, inst
  <2> QED
    BY <2>1, <2>2, <2>3, <2>4, <2>5
<1> QED
  BY <1>3

\* At its end the future owns at most what it returns.
LEMMA CompleteLosesNothing ==
  ASSUME LifeInv, Complete, MineIsDeclared, NEW S, Clears(func, S), HoldNothing(S),
         NEW p, <<"leak", p>> \notin fault
  PROVE  <<"leak", p>> \notin fault'
<1> DEFINE b == at[1]
           ret == func.ret[b]
<1> SUFFICES ASSUME <<"leak", p>> \in fault' PROVE FALSE
  OBVIOUS
<1>1. Return /\ life = "running" /\ Begun
  BY DEF Complete, Begun
<1>2. p \in DOMAIN own /\ own[p] = "owned" /\ (ret # <<>> => p \notin Leaves(ret))
  BY <1>1 DEF Return
<1>3. p \in LeafPlaces /\ p \in Places /\ Owned[p] = {}
  BY <1>2 DEF LifeInv, Fates, LeafPlaces
<1>4. Mine[p] = "owned"
  BY <1>1, <1>2, <1>3, RunningOwns
<1>5. PICK a \in Declared(func) : IsAncestorOf(a, p)
  BY <1>3, <1>4 DEF MineIsDeclared
<1>6. /\ func \in Functions /\ b \in DOMAIN func.code /\ b \in Blocks /\ Len(func.code[b]) \in Nat
      /\ at[2] \in 1 .. Len(func.code[b]) + 1
  BY <1>1, AtFacts DEF LifeInv
<1>7. func.succ[b] = <<>> /\ at[2] = Len(func.code[b]) + 1
  <2>1. Succ(b) = func.succ[b]
    BY <1>6, FunctionShape DEF LifeInv, EngineInv, FixpointInv
  <2>2. Succ(b) = <<>> /\ at[2] > Len(func.code[b])
    BY <1>1 DEF Return
  <2> QED
    BY <1>6, <2>1, <2>2
<1>8. CASE ret = a
  <2>1. a # <<>>
    <3>1. a \in Places /\ Len(a) = 1
      BY <1>6, DeclaredFacts
    <3> QED
      BY <3>1
  <2>2. ret # <<>>
    BY <1>8, <2>1
  <2>3. p \in Leaves(ret)
    BY <1>3, <1>5, <1>8 DEF Leaves
  <2> QED
    BY <1>2, <2>2, <2>3
<1>9. CASE ret # a
  <2>1. <<a, b, at[2]>> \in S
    BY <1>6, <1>7, <1>9 DEF Clears
  <2> QED
    BY <1>3, <1>4, <1>5, <2>1 DEF HoldNothing
<1> QED
  BY <1>8, <1>9

LEMMA LosesOnlyFutures ==
  ASSUME LifeInv, CompletionInv, StoresNoticed, DeadStays, ClearsItsLocals(func), Begun, [AsyncNext]_allVars,
         NEW p, <<"leak", p>> \in fault', <<"leak", p>> \notin fault
  PROVE  p \in Futures
<1>1. PICK S : Clears(func, S)
  BY DEF ClearsItsLocals
<1>2. MineIsDeclared /\ HoldNothing(S)
  BY <1>1 DEF CompletionInv
<1>3. CASE Skip
  BY <1>1, <1>2, <1>3, SkipLosesNothing
<1>4. CASE Step
  BY <1>4, StepLosesNothing
<1>5. CASE Complete
  BY <1>1, <1>2, <1>5, CompleteLosesNothing
<1>6. CASE Suspend
  BY <1>6 DEF Suspend, Commit
<1>7. CASE Poll \/ Jump \/ Destroy \/ UNCHANGED allVars
  BY <1>7 DEF Poll, Jump, Branch, Destroy, vars, runVars, allVars
<1>8. CASE Check \/ Lower \/ FindSuspensions \/ Kickoff
  BY <1>8 DEF Check, Lower, FindSuspensions, Kickoff, Begun
<1> QED
  BY <1>3, <1>4, <1>5, <1>6, <1>7, <1>8 DEF AsyncNext

\* Faults are committed between the polls and at the end.
NoFaultYet == life \in {"source", "lowering", "lowered"} => fault = {}

(***************************************************************************)
(* A future that is polled to its end loses nothing but the futures in its *)
(* locals that it never awaited: for every async function that drops its   *)
(* locals or moves them, whose stores into fields are noticed by the       *)
(* structs around them, and in which the analysis for the awaits finds     *)
(* dead the drops that the borrow checker removed.                         *)
(***************************************************************************)
THEOREM OnlyFuturesAreLost ==
  ASSUME MoveEngine
  PROVE  AsyncSpec => [](StoresNoticed /\ DeadStays /\ ClearsItsLocals(func) => CompletionLosesOnlyFutures)
<1> DEFINE Inv == StoresNoticed /\ DeadStays /\ ClearsItsLocals(func) => CompletionLosesOnlyFutures
<1>1. AsyncInit => NoFaultYet /\ Inv
  BY DEF AsyncInit, Init, NoFaultYet, CompletionLosesOnlyFutures, Committed
<1>2. NoFaultYet /\ [AsyncNext]_allVars => NoFaultYet'
  <2> SUFFICES ASSUME NoFaultYet, [AsyncNext]_allVars, life' \in {"source", "lowering", "lowered"} PROVE fault' = {}
    BY DEF NoFaultYet
  <2>1. CASE Check
    BY <2>1 DEF Check, Analyse, EmitBlock, FinishCheck, runVars, NoFaultYet
  <2>2. CASE Lower \/ FindSuspensions \/ UNCHANGED allVars
    BY <2>2 DEF Lower, FindSuspensions, runVars, allVars, vars, asyncVars, NoFaultYet
  <2>3. CASE Kickoff \/ Poll \/ Suspend \/ Complete \/ Destroy
    BY <2>3 DEF Kickoff, Poll, Suspend, Complete, Destroy
  <2>4. CASE Skip \/ Step \/ Jump
    BY <2>4 DEF Skip, Step, Jump, asyncVars
  <2> QED
    BY <2>1, <2>2, <2>3, <2>4 DEF AsyncNext
<1>3. LifeInv /\ CompletionInv /\ NoFaultYet /\ Inv /\ [AsyncNext]_allVars => Inv'
  <2> SUFFICES ASSUME LifeInv, CompletionInv, NoFaultYet, Inv, [AsyncNext]_allVars,
                      StoresNoticed', DeadStays', ClearsItsLocals(func'), NEW p \in Places, <<"leak", p>> \in fault'
               PROVE  p \in Futures
    BY DEF CompletionLosesOnlyFutures, Committed, Places
  <2>1. life' \notin {"source", "lowering", "lowered"}
    BY <1>2 DEF NoFaultYet
  <2>2. CASE <<"leak", p>> \in fault
    <3>1. life \notin {"source", "lowering", "lowered"}
      BY <2>2 DEF NoFaultYet
    <3>2. UNCHANGED <<func, state>>
      BY <3>1 DEF AsyncNext, Check, Lower, FindSuspensions, Kickoff, Poll, Suspend, Skip, Step, StepInst, Jump, Branch,
                  Complete, Return, Destroy, allVars, vars, engineVars
    <3> QED
      BY <2>2, <3>2, NoticedStays DEF CompletionLosesOnlyFutures, Committed
  <2>3. CASE <<"leak", p>> \notin fault
    <3>1. Begun
      <4>1. CASE Check \/ Lower \/ FindSuspensions
        BY <2>1, <4>1 DEF Check, Lower, FindSuspensions, asyncVars
      <4>2. CASE Kickoff \/ Destroy \/ UNCHANGED allVars
        BY <2>3, <4>2 DEF Kickoff, Destroy, allVars, vars, runVars
      <4>3. CASE Poll \/ Suspend \/ Skip \/ Step \/ Jump \/ Complete
        BY <4>3 DEF Poll, Suspend, Skip, Step, Jump, Complete, Begun
      <4> QED
        BY <4>1, <4>2, <4>3 DEF AsyncNext
    <3>2. UNCHANGED <<func, state>>
      BY <3>1 DEF Begun, AsyncNext, Check, Lower, FindSuspensions, Kickoff, Poll, Suspend, Skip, Step, StepInst, Jump,
                  Branch, Complete, Return, Destroy, allVars, vars, engineVars
    <3>3. StoresNoticed /\ DeadStays /\ ClearsItsLocals(func)
      BY <3>2, NoticedStays
    <3> QED
      BY <2>3, <3>1, <3>3, LosesOnlyFutures
  <2> QED
    BY <2>2, <2>3
<1> HIDE DEF Inv
<1>4. AsyncSpec => []Inv
  BY <1>1, <1>2, <1>3, CompletionAlways, LifeInvariant, PTL DEF AsyncSpec
<1> QED
  BY <1>4 DEF Inv
=============================================================================
