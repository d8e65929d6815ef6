------------------------------- MODULE MCPool -------------------------------
EXTENDS Pool, TLC
Symmetry == Permutations(Clients) \cup Permutations(Browsers)
=============================================================================
