SPECIFICATION FairSpec
CONSTANTS
  na = na
  nb = nb
  nc = nc
  ja = ja
  jb = jb
  jc = jc
  NoId = NoId
  NotAString = NotAString
  NoBundle = NoBundle
  Names <- MCNames
  Paths <- MCPaths
  JsonOf <- MCJsonOf
  Bundles <- HonestBundles
  Storable <- HonestStorable
  MaxDepth = 3
  MaxWrites = 1
INVARIANTS HonestChainValidates VerdictMatchesWalk
CHECK_DEADLOCK FALSE
