--------------------------- MODULE MCAppLifecycle ---------------------------
(* AppLifecycle for TLC: the sets of commands its runs give. *)
EXTENDS AppLifecycle

AllCommands == InstallationCommands \cup RunCommands \cup {PENDING_INSTALL, PENDING_UNINSTALL}

InstallAndConfigure == {PENDING_INSTALL, PENDING_CONFIGURE}
=============================================================================
