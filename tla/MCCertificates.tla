--------------------------- MODULE MCCertificates ---------------------------
\* Certificates for TLC: one app with a domain of the box and one of its own.
EXTENDS Certificates
=============================================================================
