--------------------------- MODULE MCSeqlockCharDrv ---------------------------
EXTENDS SeqlockCharDrv, TLC

Symmetry == Permutations(Proc)
===============================================================================
