---------------------------- MODULE MCWalletFile ----------------------------
EXTENDS WalletFile, TLC

CONSTANTS p1, p2, a, b, x, y

Symmetry == Permutations({p1, p2}) \cup Permutations({a, b})
=============================================================================
