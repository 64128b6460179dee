SPECIFICATION Spec
CONSTANTS
  p1 = p1
  p2 = p2
  Workers = {p1, p2}
  Changes = {a, b}
  a = a
  b = b
  Passwords = {x, y}
  x = x
  y = y
  NoOne = NoOne
  MaxWallets = 2
  MaxFails = 1
SYMMETRY Symmetry
INVARIANT WrittenStays
INVARIANT PasswordIsAsTold
INVARIANT CurrentHasAll
CHECK_DEADLOCK FALSE
