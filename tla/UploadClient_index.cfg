SPECIFICATION ClientFairSpec
CONSTANTS
  p1 = p1  p2 = p2
  None = None
  Upload <- MCUpload
  Path = {p1, p2}
  Names <- MCNames
  Photos = 3
  Video = {2, 3}
  TooLarge = {3}
  Outer = 1
  Inner = 1
  MaxSent = 2
  MaxPresses = 3
INVARIANT OneAnswerPerFile
CHECK_DEADLOCK FALSE
