----------------------------- MODULE MCAppNames -----------------------------
(* Locations, apps and commands for TLC. *)
EXTENDS AppNames, TLC

CONSTANTS a1, a2, r1, r2, blog, shop, naked

Titles == [a \in Apps |-> blog]

AllCommands == {PENDING_CONFIGURE, PENDING_UPDATE, PENDING_FORCE_UPDATE, PENDING_RESTORE,
                PENDING_UNINSTALL}

Symmetry == Permutations({a1, a2}) \cup Permutations({r1, r2})
=============================================================================
