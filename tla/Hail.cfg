CONSTANTS
  h1 = h1
  h2 = h2
  Hails = {h1, h2}
  None = None
  Priorized = {h2}
  Blockable = {h1}
  Popup = {1, 2, 3}
  Twice = {1}
  FollowCrossed = FALSE
  Names = {1, 2}
  a1 = a1
  a2 = a2
  Addresses = {a1, a2}
  NoName = NoName
  DialogueWorlds <- MCDialogueWorlds
SPECIFICATION AskSpec
INVARIANT AnsweredOnce
INVARIANT HeadIsShown
INVARIANT AddressesSound
INVARIANT PopupsAreServed
CHECK_DEADLOCK FALSE
