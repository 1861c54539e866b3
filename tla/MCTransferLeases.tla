-------------------------- MODULE MCTransferLeases --------------------------
(* Instances of TransferLeases for TLC. *)
EXTENDS TransferLeases

CONSTANTS r1, r2

\* Two downloads of one account, of which one is allowed at a time.
OneAccount == [r \in Requests |-> {"global", "account"}]
Limits == [k \in Keys |-> IF k = "global" THEN 2 ELSE 1]
=============================================================================
