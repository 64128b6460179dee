SPECIFICATION DevicesSpec
CONSTANTS
  l1 = l1
  t1 = t1
  p1 = p1
  p2 = p2
  Ledgers = {l1}
  Trezors = {t1}
  Tasks = {p1, p2}
  Loop = Loop
  Nobody = Nobody
  NoDev = NoDev
  MaxTries = 1
  NoName = NoName
  Worlds <- MCWorlds
  Packet = 12
  ByteRange = 40
  TxChunk = 5
  Lengths <- MCLengths
  Counts = 40
  Messages <- MCMessages
INVARIANT SentIntact
PROPERTY NoSpuriousDisconnect
PROPERTY TasksEnd
PROPERTY PluggedIsListed
CHECK_DEADLOCK FALSE
