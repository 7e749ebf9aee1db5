-------------------------- MODULE MCConnectionPool --------------------------
EXTENDS ConnectionPool, TLC

Symmetry == Permutations(Workers)
=============================================================================
