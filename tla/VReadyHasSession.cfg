CONSTANTS
  A = A
  B = B
  J1 = J1
  J2 = J2
  G1 = G1
  j1 = j1
  j2 = j2
  assets = assets
  web = web
  a = a
  b = b
  trunk = trunk
  blank = blank
  Misnamed = Misnamed
  N = 4
  Path = {J1, J2, G1}
  Git = {G1}
  Rev = {A, B}
  Blank = blank
  Trunk <- MCTrunk
  Expand <- MCExpand
  BaseName <- MCBaseName
  Existing <- MCExisting
  Pin <- MCPin
  Configs <- MCConfigs
  Requests <- MCRequests
SPECIFICATION Spec
INVARIANTS ReadyHasSession
