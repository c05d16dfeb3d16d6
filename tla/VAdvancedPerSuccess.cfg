SPECIFICATION Spec
CONSTANTS
  Runs = 1
  Faults = 1
  Attached = {}
  a = a
  b = b
  c = c
  d = d
  x = x
  y = y
  Step = {a, b, c, d}
  Docs <- MCDocs
  Anchors <- MCAnchors
PROPERTY AdvancedPerSuccess
CHECK_DEADLOCK FALSE
