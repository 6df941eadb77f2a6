--------------------------- MODULE AtomicTransfer ---------------------------
(***************************************************************************)
(* What a cross-region credit transfer promises, without caches, messages  *)
(* or failures: the home region books one debit under a nonce, the         *)
(* destination region books one credit of the same amount under the same   *)
(* nonce, later or never, and neither booking is ever repeated or undone.  *)
(* federation/transfer.go implements it (module Transfer).                 *)
(***************************************************************************)
EXTENDS Naturals

CONSTANTS
    Nonces,   \* transfer nonces, the TransferRef of both ledger entries
    Amounts,  \* amounts a consumer signs for
    Credits   \* what the identity owns in its home region

VARIABLES
    source,  \* the identity's balance in the home region
    dest,    \* the identity's balance in the destination region
    debit,   \* nonce -> amount of the TRANSFER_OUT entry, 0 when there is none
    credit   \* nonce -> amount of the TRANSFER_IN entry, 0 when there is none

books == <<source, dest, debit, credit>>

Init ==
    /\ source = Credits
    /\ dest = 0
    /\ debit = [n \in Nonces |-> 0]
    /\ credit = [n \in Nonces |-> 0]

\* The home region takes the amount, if the identity has it.
BookDebit(n, a) ==
    /\ debit[n] = 0
    /\ a <= source
    /\ source' = source - a
    /\ debit' = [debit EXCEPT ![n] = a]
    /\ UNCHANGED <<dest, credit>>

\* The destination gives exactly what the home region took.
BookCredit(n) ==
    /\ debit[n] # 0
    /\ credit[n] = 0
    /\ dest' = dest + debit[n]
    /\ credit' = [credit EXCEPT ![n] = debit[n]]
    /\ UNCHANGED <<source, debit>>

Next == \E n \in Nonces : BookCredit(n) \/ \E a \in Amounts : BookDebit(n, a)

Spec == Init /\ [][Next]_books
=============================================================================
