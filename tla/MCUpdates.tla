----------------------------- MODULE MCUpdates ------------------------------
\* Updates for TLC: three releases, among which there is one of every kind.  A third
\* release may be on its way when the second is the final one of the first.
EXTENDS Updates

EveryKind == {<<"prerelease", "final", "upgrade">>, <<"update", "prerelease", "major">>}
=============================================================================
