------------------------- MODULE RevocationContract -------------------------
(***************************************************************************)
(* What the agent promises of the allowances of a wallet, whatever runs,   *)
(* retries and failures it takes: only a dangerous one is ever cleared,    *)
(* and one that is reported as revoked was cleared.                        *)
(***************************************************************************)
CONSTANT Dangerous

VARIABLES cleared,  \* the allowances a confirmed transaction has cleared
          claimed   \* those the delivered findings call revoked

vars == <<cleared, claimed>>

Init == cleared = {} /\ claimed = {}

\* A transaction is confirmed.
Clear == /\ \E a \in Dangerous : cleared' = cleared \cup {a}
         /\ UNCHANGED claimed

\* Findings are delivered; they replace the earlier ones.
Claim == /\ claimed' \in SUBSET cleared
         /\ UNCHANGED cleared

Next == Clear \/ Claim

Spec == Init /\ [][Next]_vars
=============================================================================
