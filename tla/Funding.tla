------------------------------ MODULE Funding ------------------------------
(***************************************************************************)
(* What the deposit code is meant to promise: a DEPOSIT row is settled     *)
(* once, as the checkout at the gateway was, and the wallet is credited    *)
(* once, when the row is settled as COMPLETED.                             *)
(***************************************************************************)
EXTENDS Naturals

CONSTANT Payments

VARIABLES checkout, row, credits

book == <<checkout, row, credits>>

Init ==
  /\ checkout = [p \in Payments |-> "none"]
  /\ row = [p \in Payments |-> "none"]
  /\ credits = [p \in Payments |-> 0]

Checkout(p) ==
  /\ \/ checkout[p] = "none" /\ checkout' = [checkout EXCEPT ![p] = "open"]
     \/ /\ checkout[p] = "open" /\ row[p] # "none"
        /\ \E o \in {"paid", "mismatch", "failed"} :
             checkout' = [checkout EXCEPT ![p] = o]
  /\ UNCHANGED <<row, credits>>

Record(p) ==
  /\ checkout[p] = "open"
  /\ row[p] = "none"
  /\ row' = [row EXCEPT ![p] = "PENDING"]
  /\ UNCHANGED <<checkout, credits>>

Settle(p) ==
  /\ row[p] = "PENDING"
  /\ \/ /\ checkout[p] = "paid"
        /\ row' = [row EXCEPT ![p] = "COMPLETED"]
        /\ credits' = [credits EXCEPT ![p] = 1]
     \/ /\ checkout[p] = "failed"
        /\ row' = [row EXCEPT ![p] = "FAILED"]
        /\ UNCHANGED credits
  /\ UNCHANGED checkout

Next == \E p \in Payments : Checkout(p) \/ Record(p) \/ Settle(p)

Spec == Init /\ [][Next]_book
=============================================================================
