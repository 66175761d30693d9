------------------------------- MODULE MCPool -------------------------------
EXTENDS Pool, TLC

Symmetry == Permutations(Threads) \cup Permutations(Bufs) \cup Permutations(Blks)
=============================================================================
