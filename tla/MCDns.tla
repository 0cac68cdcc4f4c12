------------------------------- MODULE MCDns -------------------------------
\* The records of the domain for TLC: one app, and a location the user has a record at.
EXTENDS Dns
=============================================================================
