SPECIFICATION Spec
CONSTANTS
  None = None
  Absent = Absent
  Unparsable = Unparsable
  Nodes <- MCNodes
  Atom <- MCAtom
  Nesting <- MCNesting
  Roots <- MCRoots
  FieldNames = {"ts", "num"}
  Contexts <- MCContexts
  TicksPerSecond = 2
  MaxTime = 5
INVARIANT NegationHolds
CHECK_DEADLOCK FALSE
