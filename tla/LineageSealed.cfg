SPECIFICATION Spec
CONSTANTS
  na = na
  nb = nb
  nc = nc
  ja = ja
  jb = jb
  jc = jc
  NoId = NoId
  NotAString = NotAString
  NoBundle = NoBundle
  Names <- MCNames
  Paths <- MCPaths
  JsonOf <- MCJsonOf
  Bundles <- SealedBundles
  Storable <- SealedStorable
  MaxDepth = 4
  MaxWrites = 0
INVARIANTS CycleIsReported
CHECK_DEADLOCK FALSE
