SPECIFICATION FlowsSpec
CONSTANTS
  f1 = f1  f2 = f2  rx = rx  tx = tx
  None = None
  Flow = {f1}
  Noise = {}
  Dir = {rx}
  FlowTimeout = 2
  CommitEvery = 3
  Retention = 1
  MaxMissed = 1
  Reuse = TRUE
  StoreMayFail = TRUE
  MaxSent = 3
  MaxBucket = 2
  MaxRestarts = 0
  MaxCuts = 1
  \* the capture of apptraffic
  c1 = c1  c2 = c2  h1 = h1  s1 = s1
  tls = tls  http = http  ssh = ssh
  Conn = {c1, c2, h1, s1}
  Tuple = {tls, http, ssh}
  TupleOf <- MCTupleOf
  Kind <- MCKind
  Isn <- MCIsn
  SeqSpace = 16
  Length <- MCLength
  Need <- MCNeed
  Hello = {c1, h1, s1}
  Padded = {}
  MaxSeg = 2
  MaxLen = 3
  StreamMax = 2
  StreamIdle = 0
  MaxTime = 1
  Pad = Pad  Nil = Nil
INVARIANT TypeOK
INVARIANT ReasmTypeOK
INVARIANT NeverOvercounts
INVARIANT RowsAddUp
INVARIANT ShownIsCounted
INVARIANT PrefixIsStream
INVARIANT RecordIsFound
INVARIANT FullIsReleased
PROPERTY LiveEventuallyStored
CHECK_DEADLOCK FALSE
