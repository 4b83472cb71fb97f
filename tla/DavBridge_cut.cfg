SPECIFICATION Spec
CONSTANTS
  ua = ua  ub = ub  uc = uc  da = da
  None = None
  Upload = {ua}
  Delete = {}
  Path <- MCPhotoPath
  Target <- MCPhotoOnly
  Size <- MCSize
  MaxSize = 2
  Checked = {ua}
  MaxTries = 2
  BufCap = 1
  NoReplace = TRUE
  DirSyncMayFail = FALSE
  Killable = {}
  Ageable = {}
  MaxCuts = 1
INVARIANT NoTruncatedFile
CHECK_DEADLOCK FALSE
