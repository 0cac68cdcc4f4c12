----------------------------- MODULE MCPlatform -----------------------------
\* The start of the box and its containers for TLC.
EXTENDS Platform
=============================================================================
