SPECIFICATION Spec
CONSTANTS
  Functions <- CheckedFunctions
  NumBlocks <- BorrowNumBlocks
  Successors <- BorrowSuccessors
  EntryState <- BorrowEntryState
  DefaultState <- BorrowDefaultState
  Transfer <- BorrowTransfer
  TransferEdge <- BorrowTransferEdge
  MergeResults <- BorrowMergeResults
INVARIANTS AcceptedNeverUsesStale AcceptedNeverUsesDead AcceptedNeverEscapes ProvenanceIsSound
PROPERTY BorrowCheckTerminates
CHECK_DEADLOCK FALSE
