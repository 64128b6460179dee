CONSTANTS
  a1 = a1
  a2 = a2
  ChainIds = {1, 2}
  Currencies <- MCCurrencies
  Symbols <- MCSymbols
  Addresses = {a1, a2}
  Zero = Zero
  MaxTokens = 3
SPECIFICATION TokensSpec
SYMMETRY MCSymmetry
INVARIANT TokensSound
