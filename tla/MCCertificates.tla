--------------------------- MODULE MCCertificates ---------------------------
(* A loss below, at and above the coverage; a pool that has enough or not.  *)
EXTENDS Certificates
=============================================================================
