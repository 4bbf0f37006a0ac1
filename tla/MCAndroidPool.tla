--------------------------- MODULE MCAndroidPool ---------------------------
EXTENDS AndroidPool, TLC

TokenSymmetry == Permutations(Tokens)
=============================================================================
