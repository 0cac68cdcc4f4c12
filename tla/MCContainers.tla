---------------------------- MODULE MCContainers ----------------------------
\* Containers, addons and the scheduler for TLC.
EXTENDS Containers
=============================================================================
