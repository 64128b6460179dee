CONSTANTS
  p1 = p1
  p2 = p2
  a = a
  b = b
  Procs = {p1, p2}
  Topics = {a, b}
  Interests <- MCInterests
  Nesting <- MCNesting
  Nobody = Nobody
  MaxMsgs = 3
  InCap = 1
  ChCap = 1
SPECIFICATION FairSpec
INVARIANT NoSendOnClosed
PROPERTY ImplementsBroadcast
PROPERTY Dispatched
CHECK_DEADLOCK FALSE
