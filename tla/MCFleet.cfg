CONSTANTS
  s1 = s1
  m1 = m1
  HOST = HOST
  N = 3
  Master <- MCMaster
  Sweep <- MCSweep
  Peers <- MCPeers
  Parents <- MCParents
SPECIFICATION Spec
CHECK_DEADLOCK FALSE
INVARIANTS TypeOK NobodyStranded
PROPERTIES TurnsAreSpared SweepEnds
