------------------------ MODULE ForwardDataflowProofs ------------------------
(***************************************************************************)
(* Proofs about the dataflow engine for every function, every analysis and *)
(* every (even nondeterministic) merge: the shape of its state, that it    *)
(* visits only what branches reach, and that it stops only at a fixpoint.  *)
(*                                                                         *)
(* The fixpoint is not inductive: a pass that has changed nothing so far   *)
(* must already have found the edges it went over stable.                  *)
(***************************************************************************)
EXTENDS ForwardDataflow, TLAPS

\* The edges the current pass has already propagated.
Passed(b, i) == b < cursor \/ (b = cursor /\ i < edge)

QuietPass ==
  ~changed => \A b \in reachable : \A i \in 1 .. Len(Succ(b)) : Passed(b, i) => EdgeStable(b, i)

StopsQuiet == finished => ~changed /\ cursor = NumBlocks(func) + 1

FuncOK == func \in Functions

FixpointInv == FuncOK /\ EngineTypeOK /\ QuietPass /\ StopsQuiet

-----------------------------------------------------------------------------
\* The terminator of a block branches to blocks of the same function.
LEMMA Shape ==
  ASSUME FuncOK
  PROVE  /\ NumBlocks(func) \in Nat \ {0}
         /\ \A b \in Blocks : /\ Succ(b) \in Seq(Blocks)
                              /\ Len(Succ(b)) \in Nat
                              /\ \A i \in 1 .. Len(Succ(b)) : Succ(b)[i] \in Blocks
  BY ShapeAssumption DEF FuncOK, Blocks, Succ

LEMMA InitInv == EngineInit => FixpointInv
<1> SUFFICES ASSUME EngineInit PROVE FixpointInv
  OBVIOUS
<1>1. FuncOK
  BY DEF EngineInit, FuncOK
<1>2. EngineTypeOK
  <2>1. NumBlocks(func) \in Nat /\ 1 \in Blocks
    BY <1>1, Shape DEF Blocks
  <2>2. changed \in BOOLEAN /\ finished \in BOOLEAN
    BY DEF EngineInit
  <2>3. edge = 0 /\ cursor = 1 /\ reachable = {1} /\ DOMAIN state = Blocks
    BY DEF EngineInit
  <2>4. cursor \in 1 .. NumBlocks(func) + 1 /\ edge \in Nat /\ ~(edge > 0)
    BY <2>1, <2>3
  <2> QED
    BY <2>1, <2>2, <2>3, <2>4 DEF EngineTypeOK
<1>3. QuietPass
  BY <1>1, Shape DEF EngineInit, QuietPass, Passed
<1>4. StopsQuiet
  BY DEF EngineInit, StopsQuiet
<1> QED
  BY <1>1, <1>2, <1>3, <1>4 DEF FixpointInv

\* A propagation that changes nothing leaves every state as it was and has found its edge stable.
LEMMA QuietPropagate ==
  ASSUME FixpointInv, PropagateEdge, ~changed'
  PROVE  /\ reachable' = reachable
         /\ \A b \in Blocks : state'[b] = state[b]
         /\ EdgeStable(cursor, edge)
<1>1. /\ cursor \in reachable /\ edge \in 1 .. Len(Succ(cursor))
      /\ ~changed
      /\ out = Transfer(func, cursor, state[cursor])
  BY DEF FixpointInv, EngineTypeOK, PropagateEdge
<1> DEFINE succ == Succ(cursor)[edge]
<1>2. succ \in Blocks
  BY <1>1, Shape DEF FixpointInv, EngineTypeOK
<1>3. PICK merged \in MergeResults(state[succ], TransferEdge(func, cursor, succ, out)) :
        /\ state' = [state EXCEPT ![succ] = merged]
        /\ reachable' = reachable \cup {succ}
        /\ changed' = (changed \/ succ \notin reachable \/ merged # state[succ])
  BY DEF PropagateEdge
<1>4. succ \in reachable /\ merged = state[succ]
  BY <1>3
<1>5. reachable' = reachable
  BY <1>3, <1>4
<1>6. \A b \in Blocks : state'[b] = state[b]
  BY <1>2, <1>3, <1>4 DEF FixpointInv, EngineTypeOK
<1>7. EdgeStable(cursor, edge)
  BY <1>1, <1>3, <1>4 DEF EdgeStable
<1> QED
  BY <1>5, <1>6, <1>7

LEMMA FuncStep == FuncOK /\ [EngineNext]_engineVars => FuncOK'
  BY DEF FuncOK, EngineNext, engineVars, SkipUnreachable, TransferBlock, PropagateEdge,
         LeaveBlock, EndPass

LEMMA TypeStep == FixpointInv /\ [EngineNext]_engineVars => EngineTypeOK'
<1> SUFFICES ASSUME FixpointInv, [EngineNext]_engineVars PROVE EngineTypeOK'
  OBVIOUS
<1> USE Shape DEF FixpointInv
<1>1. CASE SkipUnreachable
  BY <1>1 DEF SkipUnreachable, EngineTypeOK, Blocks, Succ
<1>2. CASE TransferBlock
  BY <1>2 DEF TransferBlock, EngineTypeOK, Blocks, Succ
<1>3. CASE PropagateEdge
  <2>1. cursor \in reachable /\ edge \in 1 .. Len(Succ(cursor)) /\ func' = func /\ cursor' = cursor
    BY <1>3 DEF PropagateEdge, EngineTypeOK
  <2>2. Succ(cursor)[edge] \in Blocks
    BY <2>1 DEF EngineTypeOK
  <2>3. reachable' \in SUBSET Blocks /\ 1 \in reachable' /\ cursor \in reachable'
    BY <1>3, <2>1, <2>2 DEF PropagateEdge, EngineTypeOK
  <2>4. DOMAIN state' = Blocks /\ changed' \in BOOLEAN /\ finished' = finished
    BY <1>3 DEF PropagateEdge, EngineTypeOK
  <2>5. edge' \in Nat /\ edge' <= Len(Succ(cursor)) + 1
    BY <1>3, <2>1 DEF PropagateEdge, EngineTypeOK
  <2>6. changed' \/ out' = Transfer(func, cursor, state'[cursor])
    <3>1. CASE changed'
      BY <3>1
    <3>2. CASE ~changed'
      <4>1. cursor \in Blocks /\ ~changed /\ out' = out
        BY <1>3, <3>2 DEF PropagateEdge
      <4>2. state'[cursor] = state[cursor]
        BY <1>3, <3>2, <4>1, QuietPropagate
      <4> QED
        BY <2>1, <4>1, <4>2 DEF EngineTypeOK
    <3> QED
      BY <3>1, <3>2
  <2> QED
    BY <2>1, <2>3, <2>4, <2>5, <2>6 DEF EngineTypeOK, Blocks, Succ
<1>4. CASE LeaveBlock
  BY <1>4 DEF LeaveBlock, EngineTypeOK, Blocks, Succ
<1>5. CASE EndPass
  <2>1. NumBlocks(func) \in Nat \ {0}
    BY Shape
  <2>2. edge = 0
    BY <1>5, <2>1 DEF EndPass, EngineTypeOK, Blocks
  <2>3. changed' \in BOOLEAN /\ finished' \in BOOLEAN
    BY <1>5 DEF EndPass, EngineTypeOK
  <2>4. /\ func' = func /\ state' = state /\ reachable' = reachable
        /\ edge' = 0 /\ cursor' \in {1, NumBlocks(func) + 1}
    BY <1>5, <2>2 DEF EndPass
  <2> QED
    BY <2>1, <2>3, <2>4 DEF EngineTypeOK, Blocks
<1>6. CASE UNCHANGED engineVars
  BY <1>6 DEF engineVars, EngineTypeOK, Blocks, Succ
<1> QED
  BY <1>1, <1>2, <1>3, <1>4, <1>5, <1>6 DEF EngineNext

LEMMA QuietStep == FixpointInv /\ [EngineNext]_engineVars => QuietPass'
<1> SUFFICES ASSUME FixpointInv, [EngineNext]_engineVars, ~changed',
                    NEW b \in reachable', NEW i \in 1 .. Len(Succ(b)'), Passed(b, i)'
             PROVE  EdgeStable(b, i)'
  BY DEF QuietPass, Succ
<1> USE DEF FixpointInv
<1>1. CASE SkipUnreachable
  BY <1>1 DEF SkipUnreachable, EngineTypeOK, Blocks, QuietPass, Passed, EdgeStable, Succ
<1>2. CASE TransferBlock
  BY <1>2 DEF TransferBlock, EngineTypeOK, Blocks, QuietPass, Passed, EdgeStable, Succ
<1>3. CASE PropagateEdge
  <2>1. /\ func' = func /\ cursor' = cursor /\ edge' = edge + 1 /\ ~changed
        /\ edge \in Nat /\ cursor \in Nat
        /\ reachable' = reachable
    <3>1. reachable' = reachable
      BY <1>3, QuietPropagate
    <3>2. NumBlocks(func) \in Nat /\ cursor \in Nat /\ edge \in Nat
      BY Shape DEF EngineTypeOK
    <3> QED
      BY <1>3, <3>1, <3>2 DEF PropagateEdge
  <2>2. EdgeStable(b, i)
    <3>1. b \in reachable /\ b \in Nat /\ i \in 1 .. Len(Succ(b)) /\ i \in Nat
      BY <2>1 DEF EngineTypeOK, Blocks, Succ
    <3>2. Passed(b, i) \/ (b = cursor /\ i = edge)
      BY <2>1, <3>1 DEF Passed
    <3> QED
      BY <1>3, <2>1, <3>1, <3>2, QuietPropagate DEF QuietPass
  <2>3. b \in Blocks /\ Succ(b)[i] \in Blocks
    BY <2>1, <2>2, Shape DEF EngineTypeOK, EdgeStable
  <2>4. state'[b] = state[b] /\ state'[Succ(b)[i]] = state[Succ(b)[i]]
    BY <1>3, <2>3, QuietPropagate
  <2> QED
    BY <2>1, <2>2, <2>4 DEF EdgeStable, Succ
<1>4. CASE LeaveBlock
  <2>1. b \in Nat /\ b \in reachable /\ i \in 1 .. Len(Succ(b)) /\ cursor \in Nat /\ func' = func
    BY <1>4 DEF LeaveBlock, EngineTypeOK, Blocks, Succ
  <2>2. Passed(b, i)
    <3>1. b < cursor + 1
      BY <1>4, <2>1 DEF LeaveBlock, Passed
    <3>2. b = cursor => i < edge
      BY <1>4, <2>1, Shape DEF LeaveBlock, EngineTypeOK
    <3> QED
      BY <2>1, <3>1, <3>2 DEF Passed
  <2> QED
    BY <1>4, <2>1, <2>2 DEF LeaveBlock, QuietPass, EdgeStable, Succ
<1>5. CASE EndPass
  <2>1. b \in Nat \ {0} /\ b \in reachable /\ func' = func /\ edge = 0 /\ edge' = 0
    BY <1>5, Shape DEF EndPass, EngineTypeOK, Blocks
  <2>2. CASE changed
    BY <1>5, <2>1, <2>2 DEF EndPass, Passed, Blocks
  <2>3. CASE ~changed
    BY <1>5, <2>1, <2>3 DEF EndPass, QuietPass, Passed, EdgeStable, Succ
  <2> QED
    BY <2>2, <2>3
<1>6. CASE UNCHANGED engineVars
  BY <1>6 DEF engineVars, QuietPass, Passed, EdgeStable, Succ
<1> QED
  BY <1>1, <1>2, <1>3, <1>4, <1>5, <1>6 DEF EngineNext

LEMMA StopsStep == FixpointInv /\ [EngineNext]_engineVars => StopsQuiet'
<1> SUFFICES ASSUME FixpointInv, [EngineNext]_engineVars PROVE StopsQuiet'
  OBVIOUS
<1>1. NumBlocks(func) \in Nat \ {0} /\ reachable \subseteq Blocks
  BY Shape DEF FixpointInv, EngineTypeOK
<1>2. CASE finished
  <2>1. ~changed /\ cursor = NumBlocks(func) + 1 /\ cursor \notin Blocks /\ cursor \notin reachable
    BY <1>1, <1>2 DEF FixpointInv, StopsQuiet, Blocks
  <2>2. UNCHANGED engineVars
    BY <1>2, <2>1 DEF EngineNext, SkipUnreachable, TransferBlock, PropagateEdge, LeaveBlock, EndPass
  <2> QED
    BY <2>2 DEF FixpointInv, StopsQuiet, engineVars
<1>3. CASE ~finished /\ EndPass
  BY <1>3 DEF StopsQuiet, EndPass
<1>4. CASE ~finished /\ ~EndPass
  <2>1. finished' = finished
    BY <1>4 DEF EngineNext, engineVars, SkipUnreachable, TransferBlock, PropagateEdge, LeaveBlock
  <2> QED
    BY <1>4, <2>1 DEF StopsQuiet
<1> QED
  BY <1>2, <1>3, <1>4

LEMMA FixpointStep == FixpointInv /\ [EngineNext]_engineVars => FixpointInv'
BY FuncStep, TypeStep, QuietStep, StopsStep DEF FixpointInv

LEMMA FixpointHolds == FixpointInv => Fixpoint
<1> SUFFICES ASSUME FixpointInv, finished, NEW b \in reachable, NEW i \in 1 .. Len(Succ(b))
             PROVE  EdgeStable(b, i)
  BY DEF Fixpoint
<1>1. Passed(b, i)
  BY Shape DEF FixpointInv, StopsQuiet, EngineTypeOK, Passed, Blocks
<1> QED
  BY <1>1 DEF FixpointInv, QuietPass, StopsQuiet

-----------------------------------------------------------------------------
\* The inductive invariant of the engine.
THEOREM EngineInvariant == EngineSpec => []FixpointInv
BY InitInv, FixpointStep, PTL DEF EngineSpec

\* The state of the engine keeps its shape, for every function and analysis.
THEOREM EngineTypeCorrect == EngineSpec => []EngineTypeOK
<1>1. FixpointInv => EngineTypeOK
  BY DEF FixpointInv
<1> QED
  BY <1>1, EngineInvariant, PTL

(***************************************************************************)
(* When `while changed` falls through, the block states are a fixpoint of  *)
(* the analysis and the reached blocks are closed under branching.         *)
(***************************************************************************)
THEOREM StopsAtFixpoint == EngineSpec => []Fixpoint
BY FixpointHolds, EngineInvariant, PTL

(***************************************************************************)
(* The engine reaches no block outside a set that is closed under          *)
(* branching: dead code never contributes to a merged state.               *)
(***************************************************************************)
THEOREM ReachesOnlyReachable == EngineSpec => []OnlyReachable
<1>1. EngineInit => OnlyReachable
  BY DEF EngineInit, OnlyReachable, Closed
<1>2. FixpointInv /\ OnlyReachable /\ [EngineNext]_engineVars => OnlyReachable'
  <2> SUFFICES ASSUME FixpointInv, OnlyReachable, [EngineNext]_engineVars,
                      NEW S \in SUBSET Blocks', Closed(S)'
               PROVE  reachable' \subseteq S
    BY DEF OnlyReachable
  <2>1. func' = func /\ S \in SUBSET Blocks /\ Closed(S)
    BY DEF EngineNext, engineVars, SkipUnreachable, TransferBlock, PropagateEdge, LeaveBlock,
           EndPass, Closed, Blocks, Succ
  <2>2. reachable \subseteq S
    BY <2>1 DEF OnlyReachable
  <2>3. CASE PropagateEdge
    <3>1. cursor \in S /\ edge \in 1 .. Len(Succ(cursor))
      BY <2>2, <2>3 DEF PropagateEdge, FixpointInv, EngineTypeOK
    <3>2. reachable' = reachable \cup {Succ(cursor)[edge]}
      BY <2>3 DEF PropagateEdge
    <3> QED
      BY <2>1, <2>2, <3>1, <3>2 DEF Closed
  <2>4. CASE ~PropagateEdge
    BY <2>2, <2>4 DEF EngineNext, engineVars, SkipUnreachable, TransferBlock, LeaveBlock, EndPass
  <2> QED
    BY <2>3, <2>4
<1> QED
  BY <1>1, <1>2, EngineInvariant, PTL DEF EngineSpec
=============================================================================
