CONSTANTS
  Ids = {t1, t2}
  NoTimer = NoTimer
  Grants <- MCGrants
  MaxWait = 2
  MaxLate = 1
  MaxChain = 1
SPECIFICATION FairTimers
INVARIANT Punctual
INVARIANT NeverRevived
INVARIANT HardDeadline
PROPERTY Settles
