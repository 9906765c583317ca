------------------------------ MODULE MCRamDisk ------------------------------
EXTENDS RamDisk, TLC

Symmetry == Permutations(Proc)
==============================================================================
