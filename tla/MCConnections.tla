--------------------------- MODULE MCConnections ---------------------------
(* One configured tracker and one that its bootstrap list names, a seeder    *)
(* that advertises.                                                          *)
EXTENDS Connections

CONSTANTS t1, t2, advertise, fetch

Configured == <<t1>>
Listed == <<t1, t2>>
=============================================================================
