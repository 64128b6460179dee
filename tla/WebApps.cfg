CONSTANTS
  Conns = {c1, c2}
  Chains = {k1, k2}
  Addresses = {a1, a2}
  None = None
  MaxRequests = 2
  MaxChanges = 1
SPECIFICATION WebSpec
SYMMETRY Symmetry
INVARIANT ListedOnce
INVARIANT SubscribersUpToDate
CHECK_DEADLOCK FALSE
