----------------------------- MODULE MCPeering -----------------------------
(* Two trackers that dial each other; one of them is operated. *)
EXTENDS Peering

CONSTANTS a, b
=============================================================================
