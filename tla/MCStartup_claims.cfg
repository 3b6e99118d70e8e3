\* A kill between the last recount of 27 and the merge, and a signal while
\* the last step of an upgrade runs.
SPECIFICATION Spec
CONSTANTS
  Scans <- TwoScans
  Folders <- TwoFolders
  Items <- TwoItems
  Starts <- Resumable
  Pages = {p1}
  MaxMishaps = 2
INVARIANT MergeNotLost
PROPERTY QuietAfterSignal
CHECK_DEADLOCK FALSE
