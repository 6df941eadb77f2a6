------------------------------ MODULE MCGossip ------------------------------
(* Three trackers that peer with each other, for TLC. *)
EXTENDS Gossip
CONSTANTS a, b, c, r1, r2, i, s

Triangle == {{a, b}, {b, c}, {a, c}}
Starts == [t \in Trackers |-> IF t = a THEN 0 ELSE 1]
=============================================================================
