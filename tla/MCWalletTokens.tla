--------------------------- MODULE MCWalletTokens ---------------------------
(* Blockchains with one currency; the user adds tokens that share its symbol *)
(* and tokens that do not.                                                   *)
EXTENDS WalletTokens

CONSTANTS a1, a2

MCCurrencies == {<<"E">>}
MCSymbols == {<<"E">>, <<"U">>}
MCSymmetry == Permutations({a1, a2})
=============================================================================
