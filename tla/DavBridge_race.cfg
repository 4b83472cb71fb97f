SPECIFICATION Spec
CONSTANTS
  ua = ua  ub = ub  uc = uc  da = da
  None = None
  Upload = {ua, ub, uc}
  Delete = {}
  Path <- MCPhotoPath
  Target <- MCPhotoOnly
  Size <- MCOneChunk
  MaxSize = 2
  Checked = {ua, ub, uc}
  MaxTries = 2
  BufCap = 1
  NoReplace = TRUE
  DirSyncMayFail = FALSE
  Killable = {uc}
  Ageable = {uc}
  MaxCuts = 0
INVARIANT AckedFileStays
CHECK_DEADLOCK FALSE
