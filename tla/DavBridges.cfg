SPECIFICATION BridgesSpec
CONSTANTS
  ua = ua  ub = ub  uc = uc  da = da
  None = None
  Upload = {ua, ub}
  Delete = {da}
  Path <- MCPhotoPath
  Target <- MCPhotoOnly
  Size <- MCSize
  MaxSize = 2
  Checked = {ua}
  MaxTries = 2
  BufCap = 1
  NoReplace = TRUE
  DirSyncMayFail = FALSE
  Killable = {ua}
  Ageable = {}
  MaxCuts = 1
INVARIANT TypeOK
INVARIANT PartIsOwned
INVARIANT AckedFileStays
INVARIANT PublishedIsVerified
PROPERTY NoOverwrite
PROPERTY ImplementsStore
PROPERTY StaleAnswered
CHECK_DEADLOCK FALSE
