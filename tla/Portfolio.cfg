SPECIFICATION PortfolioSpec
CONSTANTS
  n = n
  w = w
  e = e
  m = m
  a1 = a1
  a2 = a2
  s1 = s1
  s2 = s2
  p2 = p2
  p3 = p3
  q3 = q3
  p4 = p4
  d1 = d1
  d2 = d2
  d3 = d3
  c1 = c1
  u1 = u1
  u2 = u2
  NoToken = NoToken
  NoFeed = NoFeed
  Tokens = {n, w, e, m}
  Chains <- MCChains
  ChainOf <- MCChainOf
  NativeOf <- MCNativeOf
  WrappedOf <- MCWrappedOf
  chain_names = {1, 2}
  Pairs <- MCPairs
  Slugs <- MCSlugs
  CMC_API_KEY = TRUE
  Quotes = {0, 1, 2}
  MaxNews = 1
  Addresses = {a1, a2}
  Multicall = {1}
  Staked <- MCStaked
  Pools <- MCPools
  MinTokenValue = 1
  Passes = {u1, u2}
  Worlds <- MCWorlds
PROPERTY PricedByItsFeed
PROPERTY UpdateReachesAll
PROPERTY ListIsTrue
CHECK_DEADLOCK FALSE
