SPECIFICATION AskSpec
CONSTANTS
  Kinds = {"send-tx", "sign"}
  Fees = {f1, f2}
  Clicks = {c1, c2}
  MaxMoves = 1
  MaxEdits = 2
  Typed <- MCTyped
  Decimals = {0, 6, 9, 18}
  MaxPower = 78
  MaxTyped = 4
INVARIANT SentOnce
INVARIANT OkIsTrue
INVARIANT NeverMoreThanTyped
PROPERTY NoneGivenAfterDone
CHECK_DEADLOCK FALSE
