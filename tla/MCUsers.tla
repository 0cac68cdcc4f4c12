------------------------------ MODULE MCUsers -------------------------------
\* Users for TLC: ids, names and requests of each kind are interchangeable.
EXTENDS Users, TLC

Symmetry == Permutations(Users) \cup Permutations(Names) \cup Permutations(Requests)
=============================================================================
