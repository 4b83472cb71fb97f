SPECIFICATION Spec
CONSTANTS
  f1 = f1  f2 = f2  rx = rx  tx = tx
  None = None
  Flow = {f1}
  Noise = {}
  Dir = {rx}
  FlowTimeout = 1
  CommitEvery = 3
  Retention = 1
  MaxMissed = 0
  Reuse = FALSE
  StoreMayFail = FALSE
  MaxSent = 2
  MaxBucket = 0
  MaxRestarts = 0
  MaxCuts = 0
INVARIANT ShownIsCounted
CHECK_DEADLOCK FALSE
