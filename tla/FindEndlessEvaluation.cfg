SPECIFICATION Spec
CONSTANTS
  Fields <- MCFields
  Payloads <- MCPayloads
  UserDrop <- MCUserDrop
  Pointee <- MCPointee
  VariantSymbols <- MCVariantSymbols
  Texts <- IdleTexts
  Entries <- IdleEntries
  Inputs = {0, 1, 2}
  Bits = 8
  MaxSteps = 120
  MaxDepth = 4
  Observed <- MCObserved
PROPERTY EvaluationEnds
CHECK_DEADLOCK FALSE
