SPECIFICATION LoadingSpec
CONSTANTS
  app = app
  lib = lib
  base = base
  opt = opt
  hid = hid
  builder = builder
  user = user
  Names = {app, lib, base, opt, hid}
  Texts = {1, 2, 3}
  Listed = {opt, hid}
  Internal = {hid}
  Contracts <- TheContracts
  Imports <- Graph
  Interface <- Faces
  Placeholder = Placeholder
  Absent = Absent
  Torn = Torn
  SearchesUser = TRUE
  Processes = {builder, user}
  Jobs <- Tasks
  Delivered <- Starts
  FirstTexts <- Sources
  Edits <- Changes
  MaxStarts <- TwiceAndOnce
  MaxEdits = 1
  MaxDeaths = 1
INVARIANTS LoadingStackIsExact RegisteredIsClosed ClosureIsFresh
PROPERTY SessionEnds
CHECK_DEADLOCK FALSE
