SPECIFICATION Spec
CONSTANTS
  k1 = k1
  k2 = k2
  k3 = k3
  k4 = k4
  k5 = k5
  k6 = k6
  k7 = k7
  k8 = k8
  k9 = k9
  v1 = v1
  v2 = v2
  Keys <- NineKeys
  Values <- TwoValues
  Pairs <- OfferedPairs
  HashFunctions <- HashChoices
  Capacities <- CapacityChoices
  Sizes <- SizeChoices
INVARIANTS TableTypeOK NothingLeaksOrDropsTwice RoomIsLeft EntriesAreReachable
PROPERTIES ImplementsMap InsertionEnds
