SPECIFICATION FairSpec
CONSTANTS
  None = None
  Absent = Absent
  Unparsable = Unparsable
  Nodes <- MCNodes
  Atom <- MCAtom
  Nesting <- MCNesting
  Roots <- MCRoots
  FieldNames = {"ts", "num"}
  Contexts <- MCContexts
  TicksPerSecond = 2
  MaxTime = 5
INVARIANTS TypeOK StableIsExact OneReadingIsAtomic WindowsToTheTick AbsentFails
PROPERTY EvaluateReturns
CHECK_DEADLOCK FALSE
