------------------------------ MODULE MCAccess ------------------------------
\* Access for TLC: an app that is open or for a group; requests are interchangeable.
EXTENDS Access, TLC

OpenOrGroup == {{Everyone}, {Group}}

Symmetry == Permutations(Requests)
=============================================================================
