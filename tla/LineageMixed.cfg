SPECIFICATION FairSpec
CONSTANTS
  na = na
  nb = nb
  nc = nc
  ja = ja
  jb = jb
  jc = jc
  NoId = NoId
  NotAString = NotAString
  NoBundle = NoBundle
  Names <- MixedNames
  Paths <- MixedPaths
  JsonOf <- MixedJsonOf
  Bundles <- MixedBundles
  Storable <- MixedStorable
  MaxDepth = 4
  MaxWrites = 1
INVARIANTS TypeOK IdsDistinct BudgetKept
PROPERTIES TraceReturns TraceAdvances ImplementsAncestorPath
CHECK_DEADLOCK FALSE
