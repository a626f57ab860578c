--------------------------- MODULE MCWithdrawals ---------------------------
(* Small instances of Withdrawals: requests, webhooks and crashes. *)
EXTENDS Withdrawals, TLC

=============================================================================
