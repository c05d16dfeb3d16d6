SPECIFICATION Spec
CONSTANTS
  N = 3
  Asks <- MCAsks
  Roots <- MCRoots
  Cap = 1
  Faults = 1
INVARIANTS TypeOK ReachIsDisjoint CapHolds BookmarksAreOwned
CHECK_DEADLOCK FALSE
