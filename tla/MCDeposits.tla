----------------------------- MODULE MCDeposits -----------------------------
(* Small instances of Deposits: payments, callers and crashes. *)
EXTENDS Deposits, TLC

Symmetry == Permutations(Payments) \cup Permutations(Callers)
=============================================================================
