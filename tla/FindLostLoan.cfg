SPECIFICATION Spec
CONSTANTS
  Functions <- PassingFunctions
  NumBlocks <- BorrowNumBlocks
  Successors <- BorrowSuccessors
  EntryState <- BorrowEntryState
  DefaultState <- BorrowDefaultState
  Transfer <- BorrowTransfer
  TransferEdge <- BorrowTransferEdge
  MergeResults <- BorrowMergeResults
INVARIANT AcceptedNeverUsesStale
CHECK_DEADLOCK FALSE
