-------------------------- MODULE MCWalletCreation --------------------------
(* Small instances of WalletCreation: racing calls of one or two users,     *)
(* while two callers ask for banks that the gateway does not list alike.    *)
EXTENDS WalletCreation, TLC

CONSTANTS wema, gtb

TwoLists == {{gtb}, {gtb, wema}}
=============================================================================
