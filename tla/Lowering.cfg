SPECIFICATION Spec
CONSTANTS
  Fields <- MCFields
  Payloads <- MCPayloads
  UserDrop <- MCUserDrop
  Pointee <- MCPointee
  VariantSymbols <- MCVariantSymbols
  Texts <- MCTexts
  Entries <- MCEntries
  Inputs = {0, 1, 2}
  Bits = 8
  MaxSteps = 120
  MaxDepth = 4
  Observed <- MCObserved
INVARIANTS NativeMatchesSource ComptimeMatchesSource NothingDroppedTwice NothingGoneIsRead
PROPERTY OnlyIdleLoopsGoOn
CHECK_DEADLOCK FALSE
