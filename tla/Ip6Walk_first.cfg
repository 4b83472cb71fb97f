SPECIFICATION WalkSpec
CONSTANTS
  tcp = tcp  hop = hop  auth = auth  frag = frag  icmp = icmp
  Protocol = {tcp, hop, auth, frag, icmp}
  Transport = {tcp}
  Options = {hop}
  AuthHeader = auth
  FragHeader = frag
  MaxExtra = 1
  MaxPayload = 6
  Captures <- MCCaptures
  WalkMax = 3
  NoResult = noresult
INVARIANT TransportIsFound
CHECK_DEADLOCK FALSE
