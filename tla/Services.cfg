SPECIFICATION ServicesSpec
CONSTANTS
  \* the phone
  p1 = p1  p2 = p2
  None = None
  Upload <- MCUpload
  Path = {p1, p2}
  Names <- MCNames
  Photos = 2
  Video = {1, 2}
  TooLarge = {2}
  Outer = 2
  Inner = 2
  MaxSent = 2
  MaxPresses = 2
  \* the command server
  Absent = absent
  Files <- MCFiles
  Requests <- MCRequests
  Values = {"x", "y"}
  MaxEntries = 2
  MaxTokens = 2
  MaxAddrs = 2
  MaxCmdArgv = 2
  MaxArgs = 2
  DefaultArgs = 2
  ByteBits = 2
  AddrBytes = 2
  MaxOut = 3
  Room = 7
  Widths = {2, 6}
  Timeout = 2
  MaxServed = 2
  MaxWritten = 4
INVARIANT ServiceTypes
INVARIANT AckedIsKept
INVARIANT PhoneAndStoreAgree
INVARIANT RequestsAreChecked
INVARIANT RunsAreTold
PROPERTY ServicesAnswer
CHECK_DEADLOCK FALSE
