----------------------------- MODULE Brokerage -----------------------------
(* What the modules of the brokerage path have in common: Admission decides  *)
(* about the requests that Settlement then matches with the seeders.         *)
CONSTANTS
    Requests,   \* broker_request calls; the id the tracker draws for one is its name
    Seeders
=============================================================================
