SPECIFICATION Spec
CONSTANTS
  outer = outer  inner = inner  deep = deep  near = near  top = top
  Items = {outer, inner, deep, near}
  Dirs = {outer, inner}
  Parent <- Nested
  Top = top
  MaxScans = 2
  MaxFaults = 1
INVARIANTS
  ModifiedExact
CHECK_DEADLOCK FALSE
