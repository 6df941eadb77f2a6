------------------------------ MODULE MCSeeder ------------------------------
(* Two offers of one consumer, so that two serves can share a client folder;  *)
(* the consumer opens two tunnels with the first assignment, one with the     *)
(* second.                                                                    *)
EXTENDS Seeder, TLC

CONSTANTS r1, r2, c1

MCConsumer == r1 :> c1 @@ r2 :> c1
MCDials == r1 :> 2 @@ r2 :> 1
=============================================================================
