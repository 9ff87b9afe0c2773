---------------------------- MODULE ForwardDataflow ----------------------------
(***************************************************************************)
(* DataflowEngine::run_forward (crates/luna-borrowck/src/dataflow.rs): the *)
(* round-robin worklist that the move and the borrow analysis of the       *)
(* Mellis borrow checker share.                                            *)
(*                                                                         *)
(* Blocks are visited in the order of the function's block list, again and *)
(* again, until one whole pass changes nothing.  A block is only visited   *)
(* once some visited block branches to it.  The analysis is a parameter:   *)
(* MergeResults is a set because one analysis merges hash sets in the      *)
(* order of the hash function.                                             *)
(***************************************************************************)
EXTENDS Naturals, Sequences

CONSTANTS
  Functions,           \* the functions that may be analysed
  NumBlocks(_),        \* the length of func.blocks; block 1 is the entry
  Successors(_, _),    \* the targets of a block's terminator, a sequence
  EntryState(_),       \* what init_entry_state makes of the default state
  DefaultState,        \* State::default()
  Transfer(_, _, _),   \* the instructions and the terminator of a block
  TransferEdge(_, _, _, _),
  MergeResults(_, _)   \* the states that merge(dest, src) can leave in dest

ASSUME ShapeAssumption ==
  \A f \in Functions :
    /\ NumBlocks(f) \in Nat \ {0}
    /\ \A b \in 1 .. NumBlocks(f) : Successors(f, b) \in Seq(1 .. NumBlocks(f))

VARIABLES
  func,        \* the function under analysis
  state,       \* block_states
  reachable,   \* the blocks that some visited block branches to
  changed,     \* did this pass change a state or reach a block
  cursor,      \* the block the pass is at, NumBlocks + 1 at its end
  edge,        \* the successor being propagated to, 0 before the block is transferred
  out,         \* current_state after the block's instructions
  finished

engineVars == <<func, state, reachable, changed, cursor, edge, out, finished>>

Blocks == 1 .. NumBlocks(func)
Succ(b) == Successors(func, b)

EngineInit ==
  /\ func \in Functions
  /\ state = [b \in Blocks |-> IF b = 1 THEN EntryState(func) ELSE DefaultState]
  /\ reachable = {1}
  /\ changed = FALSE
  /\ cursor = 1
  /\ edge = 0
  /\ out = DefaultState
  /\ finished = FALSE

SkipUnreachable ==
  /\ cursor \in Blocks
  /\ cursor \notin reachable
  /\ cursor' = cursor + 1
  /\ UNCHANGED <<func, state, reachable, changed, edge, out, finished>>

\* Mistake: the reachability test is missing.
TransferAnyBlock ==
  /\ cursor \in Blocks
  /\ edge = 0
  /\ out' = Transfer(func, cursor, state[cursor])
  /\ edge' = 1
  /\ UNCHANGED <<func, state, reachable, changed, cursor, finished>>

TransferBlock ==
  /\ cursor \in reachable
  /\ edge = 0
  /\ out' = Transfer(func, cursor, state[cursor])
  /\ edge' = 1
  /\ UNCHANGED <<func, state, reachable, changed, cursor, finished>>

PropagateEdge ==
  /\ cursor \in Blocks
  /\ edge \in 1 .. Len(Succ(cursor))
  /\ LET succ == Succ(cursor)[edge]
     IN  \E merged \in MergeResults(state[succ], TransferEdge(func, cursor, succ, out)) :
           /\ state' = [state EXCEPT ![succ] = merged]
           /\ reachable' = reachable \cup {succ}
           /\ changed' = (changed \/ succ \notin reachable \/ merged # state[succ])
  /\ edge' = edge + 1
  /\ UNCHANGED <<func, cursor, out, finished>>

LeaveBlock ==
  /\ cursor \in Blocks
  /\ edge = Len(Succ(cursor)) + 1
  /\ cursor' = cursor + 1
  /\ edge' = 0
  /\ UNCHANGED <<func, state, reachable, changed, out, finished>>

\* Mistakes: one pass is taken for enough; `changed` is not reset for the next pass.
EndPassAtOnce ==
  /\ cursor = NumBlocks(func) + 1
  /\ ~finished
  /\ finished' = TRUE
  /\ UNCHANGED <<func, state, reachable, changed, cursor, edge, out>>

EndPassStillChanged ==
  /\ cursor = NumBlocks(func) + 1
  /\ ~finished
  /\ \/ changed /\ cursor' = 1 /\ UNCHANGED finished
     \/ ~changed /\ finished' = TRUE /\ UNCHANGED cursor
  /\ UNCHANGED <<func, state, reachable, changed, edge, out>>

\* `while changed`: another pass, or the engine is done.
EndPass ==
  /\ cursor = NumBlocks(func) + 1
  /\ ~finished
  /\ \/ /\ changed
        /\ changed' = FALSE
        /\ cursor' = 1
        /\ UNCHANGED finished
     \/ /\ ~changed
        /\ finished' = TRUE
        /\ UNCHANGED <<changed, cursor>>
  /\ UNCHANGED <<func, state, reachable, edge, out>>

EngineNext ==
  \/ SkipUnreachable
  \/ TransferBlock
  \/ PropagateEdge
  \/ LeaveBlock
  \/ EndPass

EngineSpec == EngineInit /\ [][EngineNext]_engineVars /\ WF_engineVars(EngineNext)

-----------------------------------------------------------------------------
\* The engine keeps a cursor inside the function and never loses the entry block.
EngineTypeOK ==
  /\ reachable \in SUBSET Blocks
  /\ 1 \in reachable
  /\ DOMAIN state = Blocks
  /\ changed \in BOOLEAN
  /\ finished \in BOOLEAN
  /\ cursor \in 1 .. NumBlocks(func) + 1
  /\ edge \in Nat
  /\ edge > 0 => /\ cursor \in reachable
                 /\ edge <= Len(Succ(cursor)) + 1
                 /\ changed \/ out = Transfer(func, cursor, state[cursor])

\* Merging the edge from b to its i-th successor once more would change nothing.
EdgeStable(b, i) ==
  LET succ == Succ(b)[i]
  IN  /\ succ \in reachable
      /\ state[succ] \in MergeResults(state[succ],
                           TransferEdge(func, b, succ, Transfer(func, b, state[b])))

(***************************************************************************)
(* When the engine stops, the states are a fixpoint: re-merging any edge   *)
(* out of any reached block leaves its target as it is, and every          *)
(* successor of a reached block has been reached.                          *)
(***************************************************************************)
Fixpoint ==
  finished => \A b \in reachable : \A i \in 1 .. Len(Succ(b)) : EdgeStable(b, i)

(***************************************************************************)
(* The engine never visits a block that no path from the entry leads to:   *)
(* the reached blocks lie in every set that contains the entry and is      *)
(* closed under branching.                                                 *)
(***************************************************************************)
Closed(S) == 1 \in S /\ \A b \in S : \A i \in 1 .. Len(Succ(b)) : Succ(b)[i] \in S

OnlyReachable == \A S \in SUBSET Blocks : Closed(S) => reachable \subseteq S

\* The analysis of every function terminates.
Terminates == <>finished
=============================================================================
