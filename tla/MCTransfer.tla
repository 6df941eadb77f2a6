----------------------------- MODULE MCTransfer -----------------------------
(* Small instances of Transfer for TLC.  A signed request is a pair of a     *)
(* nonce and an amount: a nonce signed again, with another timestamp and     *)
(* another amount, is another payload.                                       *)
EXTENDS Transfer
CONSTANTS x, y

TwoTransfers == {<<x, 1>>, <<x, 2>>, <<y, 2>>}
PairNonce == [r \in Signed |-> r[1]]
PairAmount == [r \in Signed |-> r[2]]
=============================================================================
