---------------------------- MODULE MCSettlement ----------------------------
(* Small instances of Settlement for TLC. *)
EXTENDS Settlement
CONSTANT carol

\* One consumer submits every request.
OneConsumer == [r \in Requests |-> carol]
=============================================================================
