SPECIFICATION Spec
CONSTANTS
  Runs = 2
  Faults = 1
  Attached = {2}
  a = a
  b = b
  c = c
  d = d
  x = x
  y = y
  Step = {a, b, c, d}
  Docs <- MCDocs
  Anchors <- MCAnchors
INVARIANTS TypeOK OneRunner SuccessDescends WaitedIsGone BriefIsWhole WorkIsKept
CONSTRAINT OneTrouble
SYMMETRY Interchangeable
CHECK_DEADLOCK FALSE
