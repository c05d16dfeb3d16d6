SPECIFICATION Spec
CONSTANTS
  c1 = c1
  c2 = c2
  Request = {c1, c2}
  Mounts <- MCMounts
  Configured = {"r", "q"}
  Changes = 2
SYMMETRY Interchangeable
INVARIANTS TypeOK NoOrphanSurvives WorkspacesAreOwned
PROPERTIES ServersSurvive
CHECK_DEADLOCK FALSE
