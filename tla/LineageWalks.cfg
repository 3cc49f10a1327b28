SPECIFICATION FairSpec
CONSTANTS
  NoId = "none"
  Junk = "junk"
  Bundles <- MCBundles
  Uncanonical = {"q0"}
  Algs = {"SHA-256", "SHA-512"}
  Unknown = "unknown"
  NoAlg = "no algorithm"
  AlgOf <- MCAlgOf
  Ids <- MCIds
  IdOf <- MCIdOf
  RefsOf <- MCRefsOf
  Claimed <- MCClaimed
  Age <- MCAge
  Filings <- MCFilings
  Walkers = {"ts", "py", "go", "rc"}
  MaxDepth = 2
  MaxWrites = 2
INVARIANTS TypeOK DepthBudget AgreedVerdict CycleIsReal
PROPERTIES ImplementsAncestry WalkReturns
CHECK_DEADLOCK FALSE
