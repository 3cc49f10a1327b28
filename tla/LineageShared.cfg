SPECIFICATION Spec
CONSTANTS
  NoId = "none"
  Junk = "junk"
  Bundles <- MCBundles
  Uncanonical = {"q0"}
  Algs = {"SHA-256", "SHA-512"}
  Unknown = "unknown"
  NoAlg = "no algorithm"
  AlgOf <- MCAlgOf
  Ids <- MCIds
  IdOf <- MCIdOf
  RefsOf <- MCRefsOf
  Claimed <- MCClaimed
  Age <- MCAge
  Filings <- MCFilings
  Walkers = {"go"}
  MaxDepth = 0
  MaxWrites = 0
INVARIANT GoCycleIsReal
CHECK_DEADLOCK FALSE
