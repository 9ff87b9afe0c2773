SPECIFICATION RecompileSpec
CONSTANTS
  Owned <- Fields
  DropImpl <- UserDrop
  Functions <- CompiledFunctions
  NumBlocks <- MoveNumBlocks
  Successors <- MoveSuccessors
  EntryState <- MoveEntryState
  DefaultState <- MoveDefaultState
  Transfer <- MoveTransfer
  TransferEdge <- MoveTransferEdge
  MergeResults <- MoveMergeResults
INVARIANTS AcceptedNeverUsesGone OnlyPartsDropTwice OnlyUnnoticedStoresLeak Fixpoint VerdictDeterministic
CHECK_DEADLOCK FALSE
