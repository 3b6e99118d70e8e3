\* A database of every version, killed twice or failing on the way to the
\* current one, and a browser tab that waits for it.
SPECIFICATION Spec
CONSTANTS
  Scans <- TwoScans
  Folders <- TwoFolders
  Items <- TwoItems
  Starts <- EveryVersion
  Pages = {p1}
  MaxMishaps = 2
INVARIANTS
  ChainUnbroken
  NothingPassedOver
  AppOnCurrentSchema
PROPERTIES
  UpgradeEnds
  EveryPageLearns
CHECK_DEADLOCK FALSE
