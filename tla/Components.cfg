SPECIFICATION ComponentsSpec
CONSTANTS
  \* fragments
  d1 = d1  d2 = d2  d3 = d3  k1 = k1  k2 = k2
  None = None
  Datagram = {d1, d2, d3}
  Key = {k1, k2}
  KeyOf <- MCKeyOf
  Length <- MCLength
  MaxSlots = 2
  MaxLen = 3
  MaxFrag = 2
  Timeout = 1
  AgeEvery = 2
  MaxTime = 4
  \* names
  f1 = f1  f2 = f2  board = board  site = site  n1 = n1  n2 = n2
  Flow = {f1, f2}
  SrcOf <- MCSrc
  DstOf <- MCDst
  Ip = {board, site}
  Name = {n1, n2}
  Literal = {n2}
  App = {"SSH"}
  MapFiles <- MCMapFiles
  Interfaces <- MCInterfaces
  MaxLocal = 1
  Service <- MCService
  HostMax = 1
  HostTimeout = 1
  DnsTimeout = 1
  SweepEvery = 2
  MaxTold = 3
  MaxClock = 2
  Torn = torn
  Mapped = {"A", "B", "C", "LuCI"}
  NoName = noname
  \* visits
  Device = {"phone", "laptop"}
  SessionGap = 1
  Interval = 1
  EventMax = 1
  Retention = 3
  PruneEvery = 2
  MaxHeard = 2
  LastTime = 4
  \* thumbnails
  t1 = t1  t2 = t2  t3 = t3
  Thumb = {t1, t2, t3}
  Bytes <- MCBytes
  MaxBytes = 3
  MaxFiles = 2
  MaxCalls = 3
  NoFileHere = nofile
  \* accounts and directories
  r1 = r1  r2 = r2  mk1 = mk1  mk2 = mk2  user = user
  Register = {r1, r2}
  UserOf <- MCUserOf
  Mkdir = {mk1, mk2}
  DirOf <- MCDirOf
  Nobody = nobody
  MaxFull = 1
  MaxOff = 1
  \* the Wake-on-LAN relay
  s1 = s1  s2 = s2  m1 = m1  router = router  lan = lan
  elsewhere = elsewhere  override1 = override1
  Source = {s1, s2}
  Mac = {m1}
  NoMac = nomac
  Router = router
  Lan = lan
  Subnet = {}
  Elsewhere = elsewhere
  Override = override1
  Allowed = {{s1, s2, router}, {s1}}
  DupMax = 2
  DupWindow = 2
  MaxPackets = 3
  MaxInbox = 1
  LastSecond = 3
  \* the recorder
  Levels = {0, 2, 9}
  Fixed = {0, 5}
  FrameMs = 2
  SkipMs = 1
  CalibrateMs = 3
  LeadInMs = 5
  SilenceMs = 3
  MinSpeechMs = 4
  MaxSpeechMs = 12
  Floor = 1
  StartFactor = 3
  EndTenths = 15
  StartCap = 8
  EndCap = 5
  NoiseCap = 4
  MaxFrames = 9
  \* the odd bridge
  ua = ua  ub = ub  da = da  noInode = noinode
  \* the IPv6 walk
  tcp = tcp  hop = hop  auth = auth  frag = frag  icmp = icmp
  Protocol = {tcp, hop, auth, frag, icmp}
  Transport = {tcp}
  Options = {hop}
  AuthHeader = auth
  FragHeader = frag
  MaxExtra = 1
  MaxPayload = 6
  Captures <- MCCaptures
  WalkMax = 3
  NoResult = noresult
INVARIANT ComponentTypes
INVARIANT DeliveredIsWhole
INVARIANT InOrderIsDelivered
INVARIANT NoHalfForever
INVARIANT RowsAreNamedRight
INVARIANT VisitsFitTheFrames
INVARIANT CacheIsSound
INVARIANT AnswersAreTrue
INVARIANT RelayedOnce
 
INVARIANT OddPublishedIsVerified
INVARIANT WalkIsRight
PROPERTY LoginStays
CHECK_DEADLOCK FALSE
