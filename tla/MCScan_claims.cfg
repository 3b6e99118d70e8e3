\* Refuted: what documents and comments say of validations and hashes.  TLC stops at
\* the first violation: keep the line of the property of interest.
SPECIFICATION FairSpec
CONSTANTS
  d = d  f = f  u = u
  r1 = r1  r2 = r2
  m1 = m1  m2 = m2  none = none
  h1 = h1  h2 = h2
  Roots = {r1}
  Items = {f}
  Dirs = {}
  Files = {f}
  HasValidator = {f}
  RootOf <- OneRootOf
  Above <- OneAbove
  Metas = {m1}
  NoMeta = none
  Hashes = {h1, h2}
  AnalysisSpecs <- Everything
  MaxScans = 3
  MaxFaults = 1
INVARIANTS
  HashOnCurrentVersion
PROPERTIES
  ValidationPermanent
  IntegrityStateFixed
CHECK_DEADLOCK FALSE
