SPECIFICATION Spec
CONSTANTS
  MaxPfn = 12
  MemoryMaps <- ManyPcs
  MaxBlocks = 3
  WrapPages = 100
  PgtPages = 1
  PgdPerPage = 16
  ImageStart = 5
  HeapStart = 5
  PgtBlock = 1
  Garbage = {"INVALID"}
  Blocks <- PowersOfTwo
  Requests = {1, 2, 3}
  NoPage = NoPage
INVARIANTS TypeOK RegionsOwned  AssertionsHold LoopIsFirstFit
CHECK_DEADLOCK FALSE
