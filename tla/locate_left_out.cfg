SPECIFICATION Spec
CONSTANTS
  Roots <- MCRoots
  Items <- MCItems
  Locals <- MCLocals
INVARIANTS
  NothingLeftOut
CHECK_DEADLOCK FALSE
