SPECIFICATION SysrootSpec
CONSTANTS
  b1 = b1
  b2 = b2
  Builders = {b1, b2}
  Setups <- AllSetups
  MaxCrashes = 1
INVARIANTS OneBuilder StableOrder BuiltIsComplete
PROPERTY LockReleased
CHECK_DEADLOCK FALSE
