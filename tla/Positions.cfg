SPECIFICATION Spec
CONSTANTS
  pr = pr
  o1 = o1
  o2 = o2
  s1 = s1
  k1 = k1
  k2 = k2
  k3 = k3
  v1 = v1
  v2 = v2
  u1 = u1
  u2 = u2
  Plain = Plain
  Vaults = {v1, v2}
  Providers = {pr}
  Keys = {k1, k2, k3}
  Owners <- MCOwners
  Strangers = {s1}
  Worlds <- MCWorlds
  Updaters = {u1, u2}
  SharedPairs = FALSE
  MaxObjs = 4
  MaxEvents = 1
  Word = 8
  Unit = 2
  Scale = 4
  TickWord = 4
  FlagWord = 2
  Growths = {0, 7}
  Gains = {0, 1, 2}
  Liquidities = {1, 3}
  Prices = {1, 2, 3, 4, 5, 6}
INVARIANT StoreSound
INVARIANT ShownAsIs
PROPERTY DeletesOnlyEmpty
PROPERTY DiscoveryComplete
PROPERTY PaneSettles
CHECK_DEADLOCK FALSE
