SPECIFICATION ReasmSpec
CONSTANTS
  c1 = c1  c2 = c2  h1 = h1  s1 = s1
  tls = tls  http = http  ssh = ssh
  Pad = Pad  Nil = Nil
  Conn = {c1, c2, h1, s1}
  Tuple = {tls, http, ssh}
  TupleOf <- MCTupleOf
  Kind <- MCKind
  Isn <- MCIsn
  SeqSpace = 16
  Length <- MCLength
  Need <- MCNeed
  Hello = {c1, h1, s1}
  Padded = {c1}
  MaxSeg = 2
  MaxLen = 3
  StreamMax = 2
  StreamIdle = 0
  MaxTime = 1
INVARIANT RecordIsFound
CHECK_DEADLOCK FALSE
