SPECIFICATION Spec
CONSTANTS
  outer = outer  inner = inner  deep = deep  near = near  top = top
  Items = {outer, inner, deep, near}
  Dirs = {outer, inner}
  Parent <- Nested
  Top = top
  MaxScans = 3
  MaxFaults = 2
INVARIANTS
  TotalsAlive
  CountsExact
CHECK_DEADLOCK FALSE
