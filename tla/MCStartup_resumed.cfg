\* A task whose scan the upgrade to 28 rolled back.
SPECIFICATION Spec
CONSTANTS
  Scans <- TwoScans
  Folders <- TwoFolders
  Items <- TwoItems
  Starts <- Resumable
  Pages = {p1}
  MaxMishaps = 2
INVARIANT ResumedTaskFinishesScan
CHECK_DEADLOCK FALSE
