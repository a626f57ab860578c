--------------------------- MODULE MCWalletLedger ---------------------------
(* Small instances of WalletLedger: two wallets, three concurrent calls. *)
EXTENDS WalletLedger, TLC

CONSTANTS w1, w2, p1, p2

Transfer(a, b, n) ==
  [kind |-> "transfer", from |-> a, to |-> b, amount |-> n, of |-> Nobody]
Withdrawal(a, n) ==
  [kind |-> "withdrawal", from |-> a, to |-> Nobody, amount |-> n, of |-> Nobody]

(* Every branch: opposite transfers, a transfer to oneself, to an unknown   *)
(* user, of more than the balance and of a negative amount; withdrawals of  *)
(* less and more than the balance and of nothing.                           *)
AllCalls ==
  {Transfer(w1, w2, 1), Transfer(w2, w1, 1), Transfer(w1, w1, 1),
   Transfer(w1, Nobody, 1), Transfer(w1, w2, 3), Transfer(w2, w1, -1),
   Withdrawal(w1, 1), Withdrawal(w1, 3), Withdrawal(w1, 0)}

(* Debits of one wallet alone, each of all it holds.                        *)
SameDebit == {Transfer(w2, w1, 1)}

(* A deposit that fits the column a second time, and one that does not.     *)
OneAndTwo ==
  (p1 :> [wallet |-> w1, amount |-> 1]) @@ (p2 :> [wallet |-> w2, amount |-> 2])

NoPayments == [p \in {} |-> Nobody]

TwoAndOne == (w1 :> 2) @@ (w2 :> 1)

=============================================================================
