---------------------------- MODULE MCAdmission ----------------------------
(* A small instance of Admission for TLC: requests of different credit and   *)
(* one seeder, so that pressure passes through all three ranges; a queue     *)
(* that two requests fill.                                                   *)
EXTENDS Admission
CONSTANTS r1, r2, r3, s1

Scores ==
    [r \in Requests |-> CASE r = r1 -> 2 [] r = r2 -> 1 [] r = r3 -> 0]
Headrooms == [s \in Seeders |-> 2]
=============================================================================
