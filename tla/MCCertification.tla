--------------------------- MODULE MCCertification ---------------------------
(* Certification with small numbers of candles, builds and sessions.       *)
EXTENDS Certification
=============================================================================
