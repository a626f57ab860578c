------------------------------ MODULE MCWallet ------------------------------
(* Small instances of Wallet: a withdrawal, a deposit and who asks about them. *)
EXTENDS Wallet, TLC

=============================================================================
