SPECIFICATION AsyncSpec
CONSTANTS
  Owned <- Fields
  DropImpl = {}
  Futures <- StoredFutures
  Temp <- Call
  Functions <- AsyncFunctions
  NumBlocks <- MoveNumBlocks
  Successors <- MoveSuccessors
  EntryState <- MoveEntryState
  DefaultState <- MoveDefaultState
  Transfer <- MoveTransfer
  TransferEdge <- MoveTransferEdge
  MergeResults <- MoveMergeResults
INVARIANTS DropSetMissesNothing DropSetOnlyOwned CompletionLosesOnlyFutures
PROPERTY ResumesWhereSuspended
CHECK_DEADLOCK FALSE
