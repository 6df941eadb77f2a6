------------------------------ MODULE MCLedger ------------------------------
(* A small instance of Ledger for TLC. *)
EXTENDS Ledger
CONSTANTS alice, bob

\* The consumer and the seeder of every brokered request.
OneWay == {<<alice, bob>>}
=============================================================================
