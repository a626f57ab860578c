------------------------------- MODULE Ledger -------------------------------
(***************************************************************************)
(* What the wallet service promises about balances and history, with no    *)
(* handlers, reads or locks in sight.  A committed call is one entry: it   *)
(* moves the history of the wallets it names by its amount, and it moves   *)
(* their balances by the same amount, save for wallets that have been      *)
(* tainted.  A wallet is tainted by an entry computed from a stale read,   *)
(* which may leave any balance the column admits, or by a deposit credited *)
(* once more, which adds money and no entry.  WalletLedger and Wallet      *)
(* implement this.                                                         *)
(***************************************************************************)
EXTENDS Integers

CONSTANTS Wallets, Opening, MaxBalance

VARIABLES bal, hist, tainted

entry == <<bal, hist, tainted>>

Init ==
  /\ bal = Opening
  /\ hist = Opening
  /\ tainted = [w \in Wallets |-> FALSE]

(* Post an entry that adds delta[w] to every wallet w. *)
Post(delta) ==
  /\ hist' = [w \in Wallets |-> hist[w] + delta[w]]
  /\ bal' \in [Wallets -> 0..MaxBalance]
  /\ tainted' \in [Wallets -> BOOLEAN]
  /\ \A w \in Wallets :
       /\ tainted[w] => tainted'[w]
       /\ ~tainted'[w] => bal'[w] = bal[w] + delta[w]
       /\ delta[w] = 0 => tainted'[w] = tainted[w] /\ bal'[w] = bal[w]

Debit(w, n)  == Post([v \in Wallets |-> IF v = w THEN -n ELSE 0])
Credit(w, n) == Post([v \in Wallets |-> IF v = w THEN n ELSE 0])
Move(w, u, n) ==
  /\ w # u
  /\ Post([v \in Wallets |-> IF v = w THEN -n ELSE IF v = u THEN n ELSE 0])

(* A deposit whose row is already COMPLETED is credited again.              *)
Repeat(w, n) ==
  /\ bal[w] + n <= MaxBalance
  /\ bal' = [bal EXCEPT ![w] = @ + n]
  /\ tainted' = [tainted EXCEPT ![w] = TRUE]
  /\ UNCHANGED hist

Next ==
  \E n \in 1..MaxBalance, w \in Wallets :
    \/ Debit(w, n)
    \/ Credit(w, n)
    \/ Repeat(w, n)
    \/ \E u \in Wallets : Move(w, u, n)

Spec == Init /\ [][Next]_entry
=============================================================================
