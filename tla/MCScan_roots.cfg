\* Two roots: a file that changes, and a path that cannot be read.
SPECIFICATION Spec
CONSTANTS
  d = d  f = f  u = u
  r1 = r1  r2 = r2
  m1 = m1  m2 = m2  none = none
  h1 = h1  h2 = h2
  Roots = {r1, r2}
  Items = {f, u}
  Dirs = {}
  Files = {f}
  HasValidator = {f}
  RootOf <- TwoRootOf
  Above <- TwoAbove
  Metas = {m1, m2}
  NoMeta = none
  Hashes = {h1, h2}
  AnalysisSpecs <- Everything
  MaxScans = 3
  MaxFaults = 2
INVARIANTS
  NoTraceOfDiscarded
  UndoAccountsForUpdates
PROPERTIES
  AtomicScans
CHECK_DEADLOCK FALSE
SYMMETRY Interchangeable
