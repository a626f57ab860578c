----------------------------- MODULE Settlement -----------------------------
(***************************************************************************)
(* What the withdrawal code promises about a payout, whatever requests,    *)
(* jobs, webhooks and crashes come between: a WITHDRAWAL row is written    *)
(* only for a payout that was ordered; it is settled once, as the bank     *)
(* settled the payout; and the money comes back exactly when it is settled *)
(* as FAILED.                                                              *)
(***************************************************************************)
EXTENDS Naturals

CONSTANTS Requests, Outcomes

VARIABLES payout, row, refunds

book == <<payout, row, refunds>>

Init ==
  /\ payout = [r \in Requests |-> "none"]
  /\ row = [r \in Requests |-> "none"]
  /\ refunds = [r \in Requests |-> 0]

Order(r) ==
  /\ payout[r] = "none"
  /\ payout' = [payout EXCEPT ![r] = "NEW"]
  /\ UNCHANGED <<row, refunds>>

Decide(r) ==
  /\ payout[r] = "NEW"
  /\ \E o \in Outcomes : payout' = [payout EXCEPT ![r] = o]
  /\ UNCHANGED <<row, refunds>>

Record(r) ==
  /\ payout[r] # "none"
  /\ row[r] = "none"
  /\ row' = [row EXCEPT ![r] = "PENDING"]
  /\ UNCHANGED <<payout, refunds>>

Complete(r) ==
  /\ payout[r] = "SUCCESSFUL"
  /\ row[r] = "PENDING"
  /\ row' = [row EXCEPT ![r] = "COMPLETED"]
  /\ UNCHANGED <<payout, refunds>>

Reverse(r) ==
  /\ payout[r] = "FAILED"
  /\ row[r] = "PENDING"
  /\ row' = [row EXCEPT ![r] = "FAILED"]
  /\ refunds' = [refunds EXCEPT ![r] = 1]
  /\ UNCHANGED payout

Next ==
  \E r \in Requests :
    Order(r) \/ Decide(r) \/ Record(r) \/ Complete(r) \/ Reverse(r)

Spec == Init /\ [][Next]_book
=============================================================================
