------------------------------- MODULE MCCache -------------------------------
EXTENDS Cache, TLC
Users == Permutations(Thread) \union Permutations(Obj)
=============================================================================
