SPECIFICATION Spec
CONSTANTS
  Roots <- MCRoots
  Items <- MCItems
  Locals <- MCLocals
INVARIANTS
  PathsAreRight
  LeftOutBesideNested
  AskedInVainOnlyIfSplit
CHECK_DEADLOCK FALSE
