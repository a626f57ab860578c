------------------------- MODULE WalletLedgerProofs -------------------------
(***************************************************************************)
(* WalletLedger, for every set of wallets, of concurrent calls and of      *)
(* arguments: its types, the freshness of the balances that credits use,   *)
(* the agreement of balance and history, the single reversal, and the      *)
(* refinement of Ledger.                                                   *)
(***************************************************************************)
EXTENDS WalletLedger, TLAPS

SomeCall == {NoCall} \cup AnyCall

(* What the kind of a call says of its fields. *)
LEMMA CallFacts ==
  ASSUME NEW c \in SomeCall
  PROVE  /\ c.kind \in {"none", "transfer", "withdrawal", "deposit", "reversal"}
         /\ c.kind = "transfer" =>
              c.from \in Wallets /\ c.to \in Wallets \cup {Nobody} /\ c.amount \in Int
         /\ c.kind = "withdrawal" =>
              c.from \in Wallets /\ c.to = Nobody /\ c.amount \in Int
         /\ c.kind = "deposit" =>
              /\ c.from = Nobody /\ c.to \in Wallets
              /\ c.amount \in Nat \ {0} /\ c.of \in Payments
              /\ c.to = Funding[c.of].wallet
         /\ c.kind = "reversal" =>
              /\ c.from = Nobody /\ c.to \in Wallets
              /\ c.amount \in Nat \ {0} /\ c.of \in Handlers
  <1>1. CASE c = NoCall
    BY <1>1 DEF NoCall
  <1>2. CASE c \in CallType
    BY <1>2 DEF CallType
  <1>3. CASE c \in ReversalType
    BY <1>3 DEF ReversalType
  <1>4. ASSUME NEW p \in Payments, c = DepositOf(p)
        PROVE  /\ c.kind = "deposit" /\ c.from = Nobody /\ c.to \in Wallets
               /\ c.amount \in Nat \ {0} /\ c.of \in Payments
               /\ c.to = Funding[c.of].wallet
    BY <1>4, LedgerAssumption DEF DepositOf
  <1> QED
    BY <1>1, <1>2, <1>3, <1>4 DEF SomeCall, AnyCall

-----------------------------------------------------------------------------
(* Types *)

(* Where a handler is tells which call it serves and what it has checked. *)
PlaceOK ==
  \A h \in Handlers :
    /\ pc[h] \in {"readTo", "lockFrom", "lockTo"} => call[h].kind = "transfer"
    /\ pc[h] \in {"payout", "insert", "debit"} => call[h].kind = "withdrawal"
    /\ pc[h] = "lockRow" => call[h].kind = "reversal"
    /\ pc[h] = "lockWallet" => call[h].kind \in {"deposit", "reversal"}
    /\ pc[h] = "write" => call[h].kind \in {"transfer", "deposit", "reversal"}
    /\ pc[h] \in {"lockFrom", "lockTo", "write"} => call[h].to \in Wallets
    /\ pc[h] = "debit" => call[h].amount > 0

(* A WITHDRAWAL row belongs to a withdrawal that has committed, and a       *)
(* reversal is about such a row.                                            *)
RowsOK ==
  \A g \in Handlers :
    /\ rows[g] # "none" =>
         pc[g] = "done" /\ call[g].kind = "withdrawal" /\ call[g].amount > 0
    /\ call[g].kind = "reversal" => rows[call[g].of] # "none"

TypeInv == TypeOK /\ PlaceOK /\ RowsOK

(* The lock variables keep their type when a transaction ends. *)
LEMMA ReleaseType ==
  ASSUME TypeOK, NEW h \in Handlers, Release(h)
  PROVE  /\ xlock' \in [Wallets -> Handlers \cup {Nobody}]
         /\ slock' \in [Wallets -> SUBSET Handlers]
         /\ scan'  \in Handlers \cup {Nobody}
  BY DEF TypeOK, Release

(* A rolled back call is over, and changed nothing but its locks. *)
LEMMA RollbackType ==
  ASSUME TypeInv, NEW h \in Handlers, Rollback(h), pc[h] # "done"
  PROVE  TypeInv'
  <1>1. TypeOK'
    BY ReleaseType DEF TypeInv, TypeOK, Rollback, GoTo, db, Points, Ended
  <1>2. PlaceOK'
    BY DEF TypeInv, TypeOK, PlaceOK, Rollback, GoTo, db
  <1>3. RowsOK'
    BY DEF TypeInv, TypeOK, RowsOK, Rollback, GoTo, db
  <1> QED
    BY <1>1, <1>2, <1>3 DEF TypeInv

LEMMA ThrowType ==
  ASSUME TypeInv, NEW h \in Handlers, Throw(h), pc[h] # "done"
  PROVE  TypeInv'
  <1>1. TypeOK'
    BY DEF TypeInv, TypeOK, Throw, GoTo, db, locks, Points, Ended
  <1>2. PlaceOK'
    BY DEF TypeInv, TypeOK, PlaceOK, Throw, GoTo, db
  <1>3. RowsOK'
    BY DEF TypeInv, TypeOK, RowsOK, Throw, GoTo, db
  <1> QED
    BY <1>1, <1>2, <1>3 DEF TypeInv

(* A commit keeps balances in the column, given that the debit was covered  *)
(* and the credit fits.                                                     *)
LEMMA CommitType ==
  ASSUME TypeInv, NEW h \in Handlers, Commit(h),
         pc[h] \in {"write", "debit"},
         call[h].amount \in Nat,
         call[h].from \in Wallets => call[h].amount <= seenFrom[h],
         call[h].to \in Wallets => seenTo[h] + call[h].amount <= MaxBalance,
         rows' \in [Handlers -> {"none", "PENDING", "FAILED"}],
         deposits' \in [Payments -> {"PENDING", "COMPLETED"}],
         \A g \in Handlers : rows[g] # "none" => rows'[g] # "none",
         \A g \in Handlers :
           rows'[g] # "none" => \/ rows[g] # "none"
                                \/ /\ g = h /\ call[h].kind = "withdrawal"
                                   /\ call[h].amount > 0
  PROVE  TypeInv'
  <1>1. balance' \in [Wallets -> 0..MaxBalance]
    BY LedgerAssumption DEF TypeInv, TypeOK, Commit, NewBalance
  <1>2. audit' \in [Wallets -> Int]
    BY DEF TypeInv, TypeOK, Commit, NewAudit
  <1>3. /\ lost' \in [Wallets -> BOOLEAN]
        /\ fresh' \in [Handlers -> SUBSET Wallets]
    BY DEF TypeInv, TypeOK, Commit
  <1>4. /\ pc' = [pc EXCEPT ![h] = "done"]
        /\ UNCHANGED <<call, seenFrom, seenTo>>
    BY DEF Commit, GoTo
  <1>5. TypeOK'
    BY <1>1, <1>2, <1>3, <1>4, ReleaseType
       DEF TypeInv, TypeOK, Commit, Points, Ended
  <1>6. PlaceOK'
    BY <1>4 DEF TypeInv, TypeOK, PlaceOK
  <1>7. RowsOK'
    <2>1. \A g \in Handlers : call[g].kind = "reversal" => call[g].of \in Handlers
      BY CallFacts DEF TypeInv, TypeOK, SomeCall, AnyCall
    <2> QED
      BY <1>4, <2>1 DEF TypeInv, TypeOK, RowsOK
  <1> QED
    BY <1>5, <1>6, <1>7 DEF TypeInv

(* Every step keeps the types, and the place a handler is at. *)
LEMMA TypeStep == TypeInv /\ [Next]_vars => TypeInv'
<1> SUFFICES ASSUME TypeInv, [Next]_vars PROVE TypeInv'
  OBVIOUS
<1> USE DEF Points, InTrx, Ended, GoTo, db, locks, seen
<1>a. \A h \in Handlers : call[h] \in SomeCall
  BY DEF TypeInv, TypeOK, SomeCall, AnyCall
<1>1. ASSUME NEW h \in Handlers, CallTransfer(h) PROVE TypeInv'
  <2>1. PICK c \in Calls : /\ c.kind = "transfer"
                           /\ call' = [call EXCEPT ![h] = c]
                           /\ seenFrom' = [seenFrom EXCEPT ![h] = balance[c.from]]
                           /\ fresh' = [fresh EXCEPT ![h] = {c.from}]
    BY <1>1 DEF CallTransfer
  <2>2. c \in AnyCall /\ c \in SomeCall
    BY LedgerAssumption DEF SomeCall, AnyCall
  <2>3. c.from \in Wallets
    BY <2>1, <2>2, CallFacts
  <2>4. TypeOK'
    BY <1>1, <2>1, <2>2, <2>3 DEF TypeInv, TypeOK, CallTransfer
  <2>5. PlaceOK' /\ RowsOK'
    BY <1>1, <2>1 DEF TypeInv, TypeOK, PlaceOK, RowsOK, CallTransfer
  <2> QED
    BY <2>4, <2>5 DEF TypeInv
<1>2. ASSUME NEW h \in Handlers, CallWithdrawal(h) PROVE TypeInv'
  <2>1. PICK c \in Calls : /\ c.kind = "withdrawal"
                           /\ call' = [call EXCEPT ![h] = c]
                           /\ seenFrom' = [seenFrom EXCEPT ![h] = balance[c.from]]
                           /\ fresh' = [fresh EXCEPT ![h] = {c.from}]
    BY <1>2 DEF CallWithdrawal
  <2>2. c \in AnyCall /\ c \in SomeCall
    BY LedgerAssumption DEF SomeCall, AnyCall
  <2>3. c.from \in Wallets
    BY <2>1, <2>2, CallFacts
  <2>4. TypeOK'
    BY <1>2, <2>1, <2>2, <2>3 DEF TypeInv, TypeOK, CallWithdrawal
  <2>5. PlaceOK' /\ RowsOK'
    BY <1>2, <2>1 DEF TypeInv, TypeOK, PlaceOK, RowsOK, CallWithdrawal
  <2> QED
    BY <2>4, <2>5 DEF TypeInv
<1>3. ASSUME NEW h \in Handlers, CallDeposit(h) PROVE TypeInv'
  <2>1. PICK p \in Payments :
          /\ call' = [call EXCEPT ![h] = DepositOf(p)]
          /\ pc' = [pc EXCEPT ![h] = IF deposits[p] = "PENDING"
                                     THEN "lockWallet" ELSE "skipped"]
    BY <1>3 DEF CallDeposit
  <2>2. DepositOf(p) \in AnyCall /\ DepositOf(p).kind = "deposit"
    BY DEF AnyCall, DepositOf
  <2>3. TypeOK'
    BY <1>3, <2>1, <2>2 DEF TypeInv, TypeOK, CallDeposit
  <2>4. PlaceOK' /\ RowsOK'
    BY <1>3, <2>1, <2>2 DEF TypeInv, TypeOK, PlaceOK, RowsOK, CallDeposit
  <2> QED
    BY <2>3, <2>4 DEF TypeInv
<1>4. ASSUME NEW h \in Handlers, CallReversal(h) PROVE TypeInv'
  <2>1. PICK g \in Handlers :
          /\ rows[g] = "PENDING"
          /\ call' = [call EXCEPT ![h] =
               [kind |-> "reversal", from |-> Nobody, to |-> call[g].from,
                amount |-> call[g].amount, of |-> g]]
    BY <1>4 DEF CallReversal
  <2>2. call[g].from \in Wallets /\ call[g].amount \in Nat \ {0}
    BY <1>a, <2>1, CallFacts DEF TypeInv, RowsOK
  <2>3. [kind |-> "reversal", from |-> Nobody, to |-> call[g].from,
         amount |-> call[g].amount, of |-> g] \in AnyCall
    BY <2>2 DEF ReversalType, AnyCall
  <2>4. TypeOK'
    BY <1>4, <2>1, <2>3 DEF TypeInv, TypeOK, CallReversal
  <2>5. PlaceOK' /\ RowsOK'
    BY <1>4, <2>1 DEF TypeInv, TypeOK, PlaceOK, RowsOK, CallReversal
  <2> QED
    BY <2>4, <2>5 DEF TypeInv
<1>5. ASSUME NEW h \in Handlers, ReadTo(h) PROVE TypeInv'
  <2>1. TypeOK'
    BY <1>5 DEF TypeInv, TypeOK, ReadTo
  <2>2. PlaceOK' /\ RowsOK'
    BY <1>5 DEF TypeInv, TypeOK, PlaceOK, RowsOK, ReadTo
  <2> QED
    BY <2>1, <2>2 DEF TypeInv
<1>6. ASSUME NEW h \in Handlers, LockFrom(h) \/ LockTo(h) PROVE TypeInv'
  <2>1. call[h].from \in Wallets /\ call[h].to \in Wallets
    BY <1>a, <1>6, CallFacts DEF TypeInv, PlaceOK, LockFrom, LockTo
  <2>2. TypeOK'
    BY <1>6, <2>1 DEF TypeInv, TypeOK, LockFrom, LockTo
  <2>3. PlaceOK' /\ RowsOK'
    BY <1>6, <2>1 DEF TypeInv, TypeOK, PlaceOK, RowsOK, LockFrom, LockTo
  <2> QED
    BY <2>2, <2>3 DEF TypeInv
<1>7. ASSUME NEW h \in Handlers, PayoutOrdered(h) PROVE TypeInv'
  <2>1. TypeOK'
    BY <1>7 DEF TypeInv, TypeOK, PayoutOrdered
  <2>2. PlaceOK' /\ RowsOK'
    BY <1>7 DEF TypeInv, TypeOK, PlaceOK, RowsOK, PayoutOrdered
  <2> QED
    BY <2>1, <2>2 DEF TypeInv
<1>8. ASSUME NEW h \in Handlers, InsertWithdrawal(h) PROVE TypeInv'
  <2>1. call[h].from \in Wallets
    BY <1>a, <1>8, CallFacts DEF TypeInv, PlaceOK, InsertWithdrawal
  <2>2. TypeOK'
    BY <1>8, <2>1 DEF TypeInv, TypeOK, InsertWithdrawal
  <2>3. PlaceOK' /\ RowsOK'
    BY <1>8 DEF TypeInv, TypeOK, PlaceOK, RowsOK, InsertWithdrawal
  <2> QED
    BY <2>2, <2>3 DEF TypeInv
<1>9. ASSUME NEW h \in Handlers, LockWallet(h) PROVE TypeInv'
  <2>1. call[h].to \in Wallets
    BY <1>a, <1>9, CallFacts DEF TypeInv, PlaceOK, LockWallet
  <2>2. TypeOK'
    BY <1>9, <2>1 DEF TypeInv, TypeOK, LockWallet
  <2>3. PlaceOK' /\ RowsOK'
    BY <1>9, <2>1 DEF TypeInv, TypeOK, PlaceOK, RowsOK, LockWallet
  <2> QED
    BY <2>2, <2>3 DEF TypeInv
<1>10. ASSUME NEW h \in Handlers, LockRow(h) \/ AlreadySettled(h) PROVE TypeInv'
  <2>1. TypeOK'
    BY <1>10 DEF TypeInv, TypeOK, LockRow, AlreadySettled
  <2>2. PlaceOK' /\ RowsOK'
    BY <1>10 DEF TypeInv, TypeOK, PlaceOK, RowsOK, LockRow, AlreadySettled
  <2> QED
    BY <2>1, <2>2 DEF TypeInv
<1>11. ASSUME NEW h \in Handlers, CommitTransfer(h) PROVE TypeInv'
  <2>1. /\ call[h].amount \in Nat
        /\ call[h].from \in Wallets => call[h].amount <= seenFrom[h]
        /\ seenTo[h] + call[h].amount <= MaxBalance
    BY <1>a, <1>11, CallFacts
       DEF TypeInv, TypeOK, CommitTransfer, TransferAllowed, FitsColumn
  <2> QED
    BY <1>11, <2>1, CommitType DEF TypeInv, TypeOK, CommitTransfer
<1>12. ASSUME NEW h \in Handlers, CommitWithdrawal(h) PROVE TypeInv'
  <2>1. /\ call[h].amount \in Nat /\ call[h].amount > 0
        /\ call[h].kind = "withdrawal"
        /\ call[h].amount <= seenFrom[h]
        /\ call[h].to \notin Wallets
    BY <1>a, <1>12, CallFacts, LedgerAssumption
       DEF TypeInv, TypeOK, PlaceOK, CommitWithdrawal
  <2> QED
    BY <1>12, <2>1, CommitType DEF TypeInv, TypeOK, CommitWithdrawal
<1>13. ASSUME NEW h \in Handlers, CommitDeposit(h) \/ CommitReversal(h)
       PROVE TypeInv'
  <2>1. /\ call[h].amount \in Nat
        /\ call[h].from \notin Wallets
        /\ seenTo[h] + call[h].amount <= MaxBalance
    BY <1>a, <1>13, CallFacts, LedgerAssumption
       DEF CommitDeposit, CommitReversal, FitsColumn
  <2>2. CASE CommitDeposit(h)
    BY <1>a, <2>1, <2>2, CallFacts, CommitType DEF TypeInv, TypeOK, CommitDeposit
  <2>3. CASE CommitReversal(h)
    <3>1. rows[call[h].of] # "none" /\ call[h].of \in Handlers
      BY <1>a, <2>3, CallFacts DEF TypeInv, RowsOK, CommitReversal
    <3> QED
      BY <2>1, <2>3, <3>1, CommitType DEF TypeInv, TypeOK, CommitReversal
  <2> QED
    BY <1>13, <2>2, <2>3
<1>14. ASSUME NEW h \in Handlers, RefuseTransfer(h) \/ PayoutRefused(h)
       PROVE TypeInv'
  BY <1>14, ThrowType DEF RefuseTransfer, PayoutRefused
<1>15. ASSUME NEW h \in Handlers,
              \/ AbortTransfer(h) \/ AbortWithdrawal(h) \/ AbortCredit(h)
              \/ StatementFails(h)
       PROVE TypeInv'
  BY <1>15, RollbackType
     DEF AbortTransfer, AbortWithdrawal, AbortCredit, StatementFails
<1>16. ASSUME NEW h \in Handlers, DeadlockVictim(h) PROVE TypeInv'
  <2>1. PICK g \in Handlers : WaitsFor(h, g)
    BY <1>16 DEF DeadlockVictim, Knot
  <2>2. pc[h] # "done"
    <3> SUFFICES ASSUME pc[h] = "done" PROVE FALSE
      OBVIOUS
    <3>1. Wanted(h) = Nobody
      BY DEF Wanted
    <3>2. ~WaitsForWallet(h, g)
      BY <3>1, LedgerAssumption DEF WaitsForWallet
    <3>3. ~WaitsForRows(h, g)
      BY DEF WaitsForRows
    <3> QED
      BY <2>1, <3>2, <3>3 DEF WaitsFor
  <2> QED
    BY <1>16, <2>2, RollbackType DEF DeadlockVictim
<1>17. CASE UNCHANGED vars
  <2>1. UNCHANGED <<balance, audit, rows, deposits, lost, xlock, slock, scan, call,
                    seenFrom, seenTo, fresh, pc>>
    BY <1>17 DEF vars
  <2>2. TypeOK' /\ PlaceOK'
    BY <2>1 DEF TypeInv, TypeOK, PlaceOK
  <2>3. RowsOK'
    BY <2>1 DEF TypeInv, RowsOK
  <2> QED
    BY <2>2, <2>3 DEF TypeInv
<1>18. ASSUME NEW h \in Handlers, Step(h) PROVE TypeInv'
  BY <1>18, <1>5, <1>6, <1>7, <1>8, <1>9, <1>10, <1>11, <1>12, <1>13, <1>14,
     <1>15 DEF Step
<1>19. ASSUME NEW h \in Handlers, Arrive(h) PROVE TypeInv'
  BY <1>19, <1>1, <1>2, <1>3, <1>4 DEF Arrive
<1> QED
  BY <1>15, <1>16, <1>17, <1>18, <1>19 DEF Next, Terminating

(* The variables keep their types in every reachable state; in particular a *)
(* committed balance never leaves the column, however stale the Wallet      *)
(* object it was computed from.                                             *)
THEOREM LedgerTypeCorrect == Spec => []TypeOK
<1>1. Init => TypeInv
  BY LedgerAssumption
     DEF Init, TypeInv, TypeOK, PlaceOK, RowsOK, NoCall, Points, InTrx, Ended
<1>2. TypeInv => TypeOK
  BY DEF TypeInv
<1> QED
  BY <1>1, <1>2, TypeStep, PTL DEF Spec

-----------------------------------------------------------------------------
(* Locks *)

(* What a handler has locked when it is about to write, and that the row of *)
(* a withdrawal being reversed stays PENDING while its scan is held.        *)
LockInv ==
  \A h \in Handlers :
    /\ pc[h] = "lockTo" => xlock[call[h].from] = h
    /\ pc[h] = "write" => xlock[call[h].to] = h
    /\ pc[h] = "write" /\ call[h].kind = "transfer" => xlock[call[h].from] = h
    /\ pc[h] \in {"lockWallet", "write"} /\ call[h].kind = "reversal" =>
         scan = h /\ rows[call[h].of] = "PENDING"

(* A handler that ends takes no lock of another with it. *)
LEMMA ReleaseLock ==
  ASSUME TypeInv, LockInv, NEW h \in Handlers, Release(h),
         NEW point \in Ended, pc' = [pc EXCEPT ![h] = point],
         UNCHANGED call,
         \A g \in Handlers \ {h} : call[g].kind = "reversal" /\ scan = g =>
            rows'[call[g].of] = rows[call[g].of]
  PROVE  LockInv'
<1> SUFFICES ASSUME NEW g \in Handlers
             PROVE  /\ pc'[g] = "lockTo" => xlock'[call'[g].from] = g
                    /\ pc'[g] = "write" => xlock'[call'[g].to] = g
                    /\ pc'[g] = "write" /\ call'[g].kind = "transfer" =>
                         xlock'[call'[g].from] = g
                    /\ pc'[g] \in {"lockWallet", "write"}
                       /\ call'[g].kind = "reversal" =>
                         scan' = g /\ rows'[call'[g].of] = "PENDING"
  BY DEF LockInv
<1>1. CASE g = h
  BY <1>1 DEF TypeInv, TypeOK, Ended
<1>2. CASE g # h
  <2>1. pc'[g] = pc[g] /\ call'[g] = call[g]
    BY <1>2 DEF TypeInv, TypeOK
  <2>2. \A w \in Wallets : xlock[w] = g => xlock'[w] = g
    BY <1>2 DEF Release
  <2>3. scan = g => scan' = g
    BY <1>2 DEF Release
  <2>4. /\ pc[g] \in {"lockTo", "write"} => call[g].to \in Wallets
        /\ call[g].kind = "transfer" => call[g].from \in Wallets
        /\ pc[g] = "lockTo" => call[g].kind = "transfer"
    BY CallFacts DEF TypeInv, TypeOK, PlaceOK, SomeCall, AnyCall
  <2> QED
    BY <1>2, <2>1, <2>2, <2>3, <2>4 DEF LockInv
<1> QED
  BY <1>1, <1>2

LEMMA RollbackLock ==
  ASSUME TypeInv, LockInv, NEW h \in Handlers, Rollback(h)
  PROVE  LockInv'
  BY ReleaseLock DEF Rollback, GoTo, Ended, db

(* Every step keeps the locks. *)
LEMMA LockStep == TypeInv /\ LockInv /\ [Next]_vars => LockInv'
<1> SUFFICES ASSUME TypeInv, LockInv, [Next]_vars PROVE LockInv'
  OBVIOUS
<1> USE DEF GoTo, db, locks, seen
<1>a. \A h \in Handlers : call[h] \in SomeCall
  BY DEF TypeInv, TypeOK, SomeCall, AnyCall
<1>b. \A h \in Handlers :
        /\ call[h].kind = "reversal" => call[h].of \in Handlers
        /\ pc[h] \in {"lockTo", "lockFrom", "write"} => call[h].to \in Wallets
        /\ pc[h] \in {"lockTo", "lockFrom"} => call[h].from \in Wallets
        /\ call[h].kind = "transfer" => call[h].from \in Wallets
        /\ pc[h] = "lockWallet" => call[h].to \in Wallets
  BY <1>a, CallFacts DEF TypeInv, PlaceOK
<1>1. ASSUME NEW h \in Handlers, Arrive(h) PROVE LockInv'
  <2>1. /\ \A g \in Handlers \ {h} : pc'[g] = pc[g] /\ call'[g] = call[g]
        /\ UNCHANGED <<xlock, scan, rows>>
    BY <1>1 DEF Arrive, CallTransfer, CallWithdrawal, CallDeposit, CallReversal,
                TypeInv, TypeOK
  <2>2. /\ pc'[h] \in {"readTo", "payout", "lockWallet", "lockRow", "skipped"}
        /\ pc'[h] = "lockWallet" => call'[h].kind = "deposit"
    BY <1>1 DEF Arrive, CallTransfer, CallWithdrawal, CallDeposit, CallReversal,
                DepositOf, TypeInv, TypeOK
  <2> QED
    BY <2>1, <2>2 DEF LockInv
<1>2. ASSUME NEW h \in Handlers,
             ReadTo(h) \/ PayoutOrdered(h) \/ InsertWithdrawal(h) \/ AlreadySettled(h)
      PROVE  LockInv'
  BY <1>2 DEF ReadTo, PayoutOrdered, InsertWithdrawal, AlreadySettled, LockInv,
              TypeInv, TypeOK
<1>3. ASSUME NEW h \in Handlers, LockFrom(h) \/ LockTo(h) \/ LockWallet(h)
      PROVE  LockInv'
  <2>1. PICK w \in Wallets : xlock' = [xlock EXCEPT ![w] = h] /\ CanLockX(h, w)
                             /\ w = (IF pc[h] = "lockFrom" THEN call[h].from
                                     ELSE call[h].to)
    BY <1>b, <1>3 DEF LockFrom, LockTo, LockWallet
  <2>2. \A v \in Wallets, g \in Handlers : xlock[v] = g => xlock'[v] = g
    BY <2>1, LedgerAssumption DEF CanLockX, TypeInv, TypeOK
  <2>3. xlock'[w] = h
    BY <2>1 DEF TypeInv, TypeOK
  <2>4. UNCHANGED <<call, scan, rows>>
    BY <1>3 DEF LockFrom, LockTo, LockWallet
  <2>5. /\ \A g \in Handlers \ {h} : pc'[g] = pc[g]
        /\ pc'[h] \in {"lockTo", "write"}
        /\ pc[h] = "lockFrom" => pc'[h] = "lockTo"
        /\ pc[h] # "lockFrom" => pc'[h] = "write"
        /\ pc[h] \in {"lockFrom", "lockTo", "lockWallet"}
    BY <1>3 DEF LockFrom, LockTo, LockWallet, TypeInv, TypeOK
  <2>6. /\ pc'[h] = "lockTo" => xlock'[call[h].from] = h
        /\ pc'[h] = "write" => xlock'[call[h].to] = h
        /\ pc'[h] = "write" /\ call[h].kind = "transfer" =>
             xlock'[call[h].from] = h
        /\ pc'[h] = "write" /\ call[h].kind = "reversal" =>
             scan = h /\ rows[call[h].of] = "PENDING"
    BY <1>b, <2>1, <2>2, <2>3, <2>5 DEF LockInv, TypeInv, PlaceOK
  <2>7. ASSUME NEW g \in Handlers \ {h}
        PROVE  /\ pc[g] = "lockTo" => xlock'[call[g].from] = g
               /\ pc[g] = "write" => xlock'[call[g].to] = g
               /\ pc[g] = "write" /\ call[g].kind = "transfer" =>
                    xlock'[call[g].from] = g
    BY <1>b, <2>2 DEF LockInv
  <2> QED
    BY <2>4, <2>5, <2>6, <2>7 DEF LockInv
<1>4. ASSUME NEW h \in Handlers, LockRow(h) PROVE LockInv'
  <2>1. /\ pc' = [pc EXCEPT ![h] = "lockWallet"] /\ scan' = h /\ scan = Nobody
        /\ rows[call[h].of] = "PENDING" /\ UNCHANGED <<call, xlock, rows>>
    BY <1>4 DEF LockRow, CanScan
  <2> QED
    BY <2>1, LedgerAssumption DEF LockInv, TypeInv, TypeOK
<1>5. ASSUME NEW h \in Handlers, CommitTransfer(h) \/ CommitDeposit(h)
      PROVE  LockInv'
  BY <1>5, ReleaseLock DEF CommitTransfer, CommitDeposit, Commit, Ended
<1>6. ASSUME NEW h \in Handlers, CommitWithdrawal(h) PROVE LockInv'
  <2>1. rows[h] = "none" /\ rows' = [rows EXCEPT ![h] = "PENDING"]
    BY <1>6 DEF CommitWithdrawal, TypeInv, RowsOK
  <2>2. \A g \in Handlers : call[g].kind = "reversal" => call[g].of # h
    BY <2>1 DEF TypeInv, RowsOK
  <2> QED
    BY <1>6, <1>b, <2>1, <2>2, ReleaseLock
       DEF CommitWithdrawal, Commit, Ended, TypeInv, TypeOK
<1>7. ASSUME NEW h \in Handlers, CommitReversal(h) PROVE LockInv'
  <2>1. scan = h
    BY <1>7 DEF CommitReversal, LockInv
  <2> QED
    BY <1>7, <2>1, ReleaseLock DEF CommitReversal, Commit, Ended
<1>8. ASSUME NEW h \in Handlers, RefuseTransfer(h) \/ PayoutRefused(h)
      PROVE  LockInv'
  BY <1>8 DEF RefuseTransfer, PayoutRefused, Throw, LockInv, TypeInv, TypeOK
<1>9. ASSUME NEW h \in Handlers,
             \/ AbortTransfer(h) \/ AbortWithdrawal(h) \/ AbortCredit(h)
             \/ StatementFails(h) \/ DeadlockVictim(h)
      PROVE  LockInv'
  BY <1>9, RollbackLock DEF AbortTransfer, AbortWithdrawal, AbortCredit,
                            StatementFails, DeadlockVictim
<1>10. CASE UNCHANGED vars
  BY <1>10 DEF vars, LockInv
<1>11. ASSUME NEW h \in Handlers, Step(h) PROVE LockInv'
  BY <1>11, <1>2, <1>3, <1>4, <1>5, <1>6, <1>7, <1>8, <1>9 DEF Step
<1> QED
  BY <1>1, <1>9, <1>10, <1>11 DEF Next, Terminating

-----------------------------------------------------------------------------
(* Reads *)

(* A balance read from a wallet nobody overwrote since is the balance of    *)
(* the wallet (a transfer to oneself reads one wallet twice, and never      *)
(* commits); what a credit is about to use was read under the lock.         *)
SeenInv ==
  \A h \in Handlers :
    /\ pc[h] \in {"readTo", "lockFrom", "lockTo", "write", "payout", "insert", "debit"}
       /\ call[h].from # call[h].to /\ call[h].from \in fresh[h] =>
         seenFrom[h] = balance[call[h].from]
    /\ pc[h] \in {"lockFrom", "lockTo", "write"} /\ call[h].to \in fresh[h] =>
         seenTo[h] = balance[call[h].to]
    /\ pc[h] = "write" /\ call[h].kind \in {"deposit", "reversal"} =>
         call[h].to \in fresh[h]

Commits(h) ==
  CommitTransfer(h) \/ CommitWithdrawal(h) \/ CommitDeposit(h) \/ CommitReversal(h)

(* The commit of a call: the amount it moves, and the wallets it excludes   *)
(* every other writing handler from.                                        *)
LEMMA CommitFacts ==
  ASSUME TypeInv, LockInv, NEW h \in Handlers, Commits(h)
  PROVE  /\ Commit(h)
         /\ pc[h] \in {"write", "debit"}
         /\ call[h].amount \in 1..MaxBalance
         /\ call[h].from \in Wallets => call[h].from # call[h].to
         /\ call[h].kind = "transfer" =>
              call[h].from \in Wallets /\ call[h].to \in Wallets
         /\ call[h].kind = "withdrawal" =>
              call[h].from \in Wallets /\ call[h].to \notin Wallets
         /\ call[h].kind \in {"deposit", "reversal"} =>
              call[h].from \notin Wallets /\ call[h].to \in Wallets
         /\ call[h].kind \in {"transfer", "withdrawal", "deposit", "reversal"}
         /\ pc[h] = "write" <=> call[h].kind # "withdrawal"
         /\ \A g \in Handlers \ {h} :
              pc[g] = "write" => call[g].to \notin Writes(h)
<1>a. call[h] \in SomeCall /\ \A g \in Handlers : pc[g] = "write" => call[g].to \in Wallets
  BY DEF TypeInv, TypeOK, PlaceOK, SomeCall, AnyCall
<1>1. CASE CommitTransfer(h)
  <2>1. /\ call[h].kind = "transfer" /\ call[h].amount > 0 /\ call[h].from # call[h].to
        /\ ~(seenFrom[h] < call[h].amount) /\ Commit(h) /\ pc[h] = "write"
    BY <1>1 DEF CommitTransfer, TransferAllowed
  <2>2. call[h].from \in Wallets /\ call[h].to \in Wallets /\ call[h].amount \in Int
    BY <1>a, <2>1, CallFacts
  <2>3. call[h].amount \in 1..MaxBalance
    BY <2>1, <2>2, LedgerAssumption DEF TypeInv, TypeOK
  <2>4. \A g \in Handlers \ {h} : pc[g] = "write" => call[g].to \notin Writes(h)
    BY <2>1, <2>2 DEF LockInv, Writes
  <2> QED
    BY <2>1, <2>2, <2>3, <2>4
<1>2. CASE CommitWithdrawal(h)
  <2>1. /\ call[h].kind = "withdrawal" /\ call[h].amount > 0 /\ Commit(h)
        /\ pc[h] = "debit" /\ ~(seenFrom[h] < call[h].amount)
        /\ CanLockX(h, call[h].from)
    BY <1>2 DEF CommitWithdrawal, TypeInv, PlaceOK
  <2>2. call[h].from \in Wallets /\ call[h].to = Nobody /\ call[h].amount \in Int
    BY <1>a, <2>1, CallFacts
  <2>3. call[h].amount \in 1..MaxBalance
    BY <2>1, <2>2, LedgerAssumption DEF TypeInv, TypeOK
  <2>4. \A g \in Handlers \ {h} : pc[g] = "write" => call[g].to \notin Writes(h)
    BY <1>a, <2>1, <2>2, LedgerAssumption DEF LockInv, Writes, CanLockX
  <2> QED
    BY <2>1, <2>2, <2>3, <2>4, LedgerAssumption
<1>3. CASE CommitDeposit(h) \/ CommitReversal(h)
  <2>1. /\ call[h].kind \in {"deposit", "reversal"} /\ Commit(h)
        /\ pc[h] = "write" /\ FitsColumn(h)
    BY <1>3 DEF CommitDeposit, CommitReversal
  <2>2. /\ call[h].from = Nobody /\ call[h].to \in Wallets
        /\ call[h].amount \in Nat \ {0}
    BY <1>a, <2>1, CallFacts
  <2>3. call[h].amount \in 1..MaxBalance
    BY <2>1, <2>2, LedgerAssumption DEF TypeInv, TypeOK, FitsColumn
  <2>4. \A g \in Handlers \ {h} : pc[g] = "write" => call[g].to \notin Writes(h)
    BY <2>1, <2>2, LedgerAssumption DEF LockInv, Writes
  <2> QED
    BY <2>1, <2>2, <2>3, <2>4, LedgerAssumption
<1> QED
  BY <1>1, <1>2, <1>3 DEF Commits

(* A step that leaves the balances alone and, of the reads, touches at most *)
(* those of a handler that ends, keeps SeenInv.                             *)
LEMMA EndSeen ==
  ASSUME TypeInv, SeenInv, NEW h \in Handlers, NEW point \in Ended,
         pc' = [pc EXCEPT ![h] = point],
         \A g \in Handlers \ {h} : fresh'[g] = fresh[g],
         UNCHANGED <<balance, call, seenFrom, seenTo>>
  PROVE  SeenInv'
  BY DEF SeenInv, TypeInv, TypeOK, Ended

LEMMA SeenStep == TypeInv /\ LockInv /\ SeenInv /\ [Next]_vars => SeenInv'
<1> SUFFICES ASSUME TypeInv, LockInv, SeenInv, [Next]_vars PROVE SeenInv'
  OBVIOUS
<1> USE DEF GoTo, db, locks, seen
<1>a. \A h \in Handlers : call[h] \in SomeCall
  BY DEF TypeInv, TypeOK, SomeCall, AnyCall
<1>1. ASSUME NEW h \in Handlers, CallTransfer(h) \/ CallWithdrawal(h)
      PROVE  SeenInv'
  <2>1. PICK c \in Calls : /\ call' = [call EXCEPT ![h] = c]
                           /\ seenFrom' = [seenFrom EXCEPT ![h] = balance[c.from]]
    BY <1>1 DEF CallTransfer, CallWithdrawal
  <2>2. /\ pc'[h] \in {"readTo", "payout"}
        /\ \A g \in Handlers \ {h} : pc'[g] = pc[g] /\ fresh'[g] = fresh[g]
        /\ UNCHANGED <<balance, seenTo>>
    BY <1>1 DEF CallTransfer, CallWithdrawal, TypeInv, TypeOK
  <2> QED
    BY <2>1, <2>2 DEF SeenInv, TypeInv, TypeOK
<1>2. ASSUME NEW h \in Handlers, CallDeposit(h) \/ CallReversal(h)
      PROVE  SeenInv'
  <2>1. /\ pc'[h] \in {"lockWallet", "lockRow", "skipped"}
        /\ \A g \in Handlers \ {h} : pc'[g] = pc[g] /\ call'[g] = call[g]
        /\ UNCHANGED <<balance, seenFrom, seenTo, fresh>>
    BY <1>2 DEF CallDeposit, CallReversal, TypeInv, TypeOK
  <2> QED
    BY <2>1 DEF SeenInv
<1>3. ASSUME NEW h \in Handlers, ReadTo(h) PROVE SeenInv'
  <2>1. call[h].from \in Wallets /\ call[h].to \in Wallets
    BY <1>a, <1>3, CallFacts DEF ReadTo, TypeInv, PlaceOK
  <2> QED
    BY <1>3, <2>1 DEF ReadTo, SeenInv, TypeInv, TypeOK
<1>4. ASSUME NEW h \in Handlers,
             \/ LockFrom(h) \/ LockTo(h) \/ PayoutOrdered(h)
             \/ InsertWithdrawal(h) \/ LockRow(h)
      PROVE  SeenInv'
  <2>1. /\ \A g \in Handlers \ {h} : pc'[g] = pc[g]
        /\ UNCHANGED <<balance, call, seenFrom, seenTo, fresh>>
    BY <1>4 DEF LockFrom, LockTo, PayoutOrdered, InsertWithdrawal, LockRow,
                TypeInv, TypeOK
  <2>2. /\ pc[h] \in {"lockFrom", "lockTo", "payout", "insert", "lockRow"}
        /\ pc'[h] \in {"lockTo", "write", "insert", "debit", "lockWallet"}
        /\ pc'[h] \in {"lockTo", "write"} => pc[h] \in {"lockFrom", "lockTo"}
        /\ pc[h] = "lockRow" <=> pc'[h] = "lockWallet"
    BY <1>4 DEF LockFrom, LockTo, PayoutOrdered, InsertWithdrawal, LockRow,
                TypeInv, TypeOK
  <2> QED
    BY <2>1, <2>2 DEF SeenInv, TypeInv, PlaceOK
<1>5. ASSUME NEW h \in Handlers, LockWallet(h) PROVE SeenInv'
  <2>1. call[h].from = Nobody /\ call[h].to \in Wallets
    BY <1>a, <1>5, CallFacts DEF LockWallet, TypeInv, PlaceOK
  <2> QED
    BY <1>5, <2>1, LedgerAssumption DEF LockWallet, SeenInv, TypeInv, TypeOK
<1>6. ASSUME NEW h \in Handlers, Commits(h) PROVE SeenInv'
  <2>1. /\ \A g \in Handlers \ {h} :
             fresh'[g] = fresh[g] \ Writes(h) /\ pc'[g] = pc[g]
        /\ pc'[h] = "done"
        /\ \A w \in Wallets : w \notin Writes(h) => balance'[w] = balance[w]
        /\ UNCHANGED <<call, seenFrom, seenTo>>
        /\ \A g \in Handlers \ {h} :
             pc[g] = "write" => call[g].to \notin Writes(h)
    BY <1>6, CommitFacts DEF Commit, NewBalance, Writes, TypeInv, TypeOK
  <2>2. \A g \in Handlers : fresh[g] \subseteq Wallets
    BY DEF TypeInv, TypeOK
  <2> QED
    BY <2>1, <2>2 DEF SeenInv
<1>7. ASSUME NEW h \in Handlers, AlreadySettled(h) PROVE SeenInv'
  BY <1>7, EndSeen DEF AlreadySettled, Ended
<1>8. ASSUME NEW h \in Handlers, Rollback(h) \/ Throw(h) PROVE SeenInv'
  <2>1. \A g \in Handlers \ {h} : fresh'[g] = fresh[g]
    BY <1>8 DEF Rollback, Throw, TypeInv, TypeOK
  <2> QED
    BY <1>8, <2>1, EndSeen DEF Rollback, Throw, Ended
<1>9. CASE UNCHANGED vars
  BY <1>9 DEF vars, SeenInv
<1>10. ASSUME NEW h \in Handlers, Step(h) PROVE SeenInv'
  BY <1>10, <1>3, <1>4, <1>5, <1>6, <1>7, <1>8
     DEF Step, Commits, RefuseTransfer, PayoutRefused, AbortTransfer,
         AbortWithdrawal, AbortCredit
<1>11. ASSUME NEW h \in Handlers, Arrive(h) PROVE SeenInv'
  BY <1>11, <1>1, <1>2 DEF Arrive
<1> QED
  BY <1>8, <1>9, <1>10, <1>11
     DEF Next, Terminating, StatementFails, DeadlockVictim

-----------------------------------------------------------------------------
(* Balance, history, and the wallets overwritten from a stale read *)

IInv == TypeInv /\ LockInv /\ SeenInv

LEMMA IInvHolds == Spec => []IInv
<1>1. Init => IInv
  BY LedgerAssumption
     DEF Init, IInv, TypeInv, TypeOK, PlaceOK, RowsOK, LockInv, SeenInv,
         NoCall, Points, InTrx, Ended
<1>2. IInv /\ [Next]_vars => IInv'
  BY TypeStep, LockStep, SeenStep DEF IInv
<1> QED
  BY <1>1, <1>2, PTL DEF Spec

(* Only a commit touches what the database holds of wallets and history. *)
LEMMA OnlyCommitsWrite ==
  ASSUME [Next]_vars, ~\E h \in Handlers : Commits(h)
  PROVE  UNCHANGED db
<1> USE DEF db
<1>1. ASSUME NEW h \in Handlers, Step(h) PROVE UNCHANGED db
  BY <1>1 DEF Step, Commits, ReadTo, RefuseTransfer, LockFrom, LockTo,
       AbortTransfer, PayoutOrdered, PayoutRefused, InsertWithdrawal,
       AbortWithdrawal, LockWallet, AbortCredit, LockRow, AlreadySettled,
       Rollback, Throw
<1>2. ASSUME NEW h \in Handlers, Arrive(h) PROVE UNCHANGED db
  BY <1>2 DEF Arrive, CallTransfer, CallWithdrawal, CallDeposit, CallReversal
<1>3. ASSUME NEW h \in Handlers, DeadlockVictim(h) \/ StatementFails(h)
      PROVE  UNCHANGED db
  BY <1>3 DEF DeadlockVictim, StatementFails, Rollback
<1>4. CASE UNCHANGED vars
  BY <1>4 DEF vars
<1> QED
  BY <1>1, <1>2, <1>3, <1>4 DEF Next, Terminating

(* A step moves one handler, which was not done; it is done afterwards only *)
(* by a commit, and only then does a row change its status.                 *)
LEMMA OneMoves ==
  ASSUME IInv, [Next]_vars
  PROVE  \/ UNCHANGED <<pc, call, rows, deposits>>
         \/ \E h \in Handlers :
              /\ pc[h] # "done"
              /\ \A g \in Handlers \ {h} : pc'[g] = pc[g] /\ call'[g] = call[g]
              /\ \/ Commits(h) /\ call'[h] = call[h] /\ pc'[h] = "done"
                 \/ pc'[h] # "done" /\ UNCHANGED <<rows, deposits>>
<1> DEFINE Moved(h) ==
      /\ pc[h] # "done"
      /\ \A g \in Handlers \ {h} : pc'[g] = pc[g] /\ call'[g] = call[g]
      /\ \/ Commits(h) /\ call'[h] = call[h] /\ pc'[h] = "done"
         \/ pc'[h] # "done" /\ UNCHANGED <<rows, deposits>>
<1> USE DEF GoTo, db, locks, seen
<1>a. /\ pc \in [Handlers -> Points]
      /\ DOMAIN call = Handlers
  BY DEF IInv, TypeInv, TypeOK
<1>1. ASSUME NEW h \in Handlers, Arrive(h) PROVE Moved(h)
  BY <1>a, <1>1 DEF Arrive, CallTransfer, CallWithdrawal, CallDeposit, CallReversal
<1>2. ASSUME NEW h \in Handlers, Commits(h) PROVE Moved(h)
  BY <1>a, <1>2, CommitFacts DEF Commit, IInv
<1>3. ASSUME NEW h \in Handlers, Rollback(h) \/ Throw(h), pc[h] # "done"
      PROVE  Moved(h)
  BY <1>a, <1>3 DEF Rollback, Throw
<1>4. ASSUME NEW h \in Handlers, DeadlockVictim(h) PROVE Moved(h)
  <2>1. PICK g \in Handlers : WaitsFor(h, g)
    BY <1>4 DEF DeadlockVictim, Knot
  <2>2. pc[h] # "done"
    <3> SUFFICES ASSUME pc[h] = "done" PROVE FALSE
      OBVIOUS
    <3>1. Wanted(h) = Nobody
      BY DEF Wanted
    <3> QED
      BY <2>1, <3>1, LedgerAssumption DEF WaitsFor, WaitsForWallet, WaitsForRows
  <2> QED
    BY <1>3, <1>4, <2>2 DEF DeadlockVictim
<1>5. ASSUME NEW h \in Handlers, Step(h) PROVE Moved(h)
  <2>1. CASE ReadTo(h) \/ LockFrom(h) \/ LockTo(h) \/ PayoutOrdered(h)
             \/ InsertWithdrawal(h) \/ LockWallet(h) \/ LockRow(h) \/ AlreadySettled(h)
    BY <1>a, <2>1 DEF ReadTo, LockFrom, LockTo, PayoutOrdered, InsertWithdrawal,
         LockWallet, LockRow, AlreadySettled
  <2>2. CASE RefuseTransfer(h) \/ PayoutRefused(h) \/ AbortTransfer(h)
             \/ AbortWithdrawal(h) \/ AbortCredit(h)
    BY <1>3, <2>2 DEF RefuseTransfer, PayoutRefused, AbortTransfer,
         AbortWithdrawal, AbortCredit
  <2> QED
    BY <1>2, <1>5, <2>1, <2>2 DEF Step, Commits
<1>6. ASSUME NEW h \in Handlers, StatementFails(h) PROVE Moved(h)
  BY <1>3, <1>6 DEF StatementFails, InTrx
<1>7. CASE UNCHANGED vars
  BY <1>7 DEF vars
<1> QED
  BY <1>1, <1>4, <1>5, <1>6, <1>7 DEF Next, Terminating

(* What a commit adds to the balance of a wallet, and what to its history.  *)
Signed(h, w) ==
  IF w = call[h].from THEN -call[h].amount
  ELSE IF w = call[h].to THEN call[h].amount ELSE 0

Entry(h, w) == IF Repeats(h) THEN 0 ELSE Signed(h, w)

(* What a commit does to one wallet: history moves by the signed amount,    *)
(* unless the call repeats a credit, and so does the balance, unless the    *)
(* wallet is marked lost.                                                   *)
LEMMA CommitEffect ==
  ASSUME IInv, NEW h \in Handlers, Commits(h), NEW w \in Wallets
  PROVE  /\ audit'[w] = audit[w] + Entry(h, w)
         /\ lost[w] => lost'[w]
         /\ ~lost'[w] => balance'[w] = balance[w] + Signed(h, w)
         /\ w \notin Writes(h) => lost'[w] = lost[w] /\ balance'[w] = balance[w]
         /\ w \in Writes(h) /\ w \in fresh[h] =>
              lost'[w] = lost[w] /\ balance'[w] = balance[w] + Signed(h, w)
         /\ Repeats(h) => call[h].to \in fresh[h] /\ Signed(h, w) >= 0
<1>1. Commit(h) /\ pc[h] \in {"write", "debit"} /\ call[h].amount \in 1..MaxBalance
      /\ (call[h].from \in Wallets => call[h].from # call[h].to)
      /\ (pc[h] = "write" <=> call[h].kind # "withdrawal")
      /\ (call[h].kind = "withdrawal" => call[h].to \notin Wallets)
      /\ (call[h].kind = "deposit" => call[h].from \notin Wallets)
  BY CommitFacts, LedgerAssumption DEF IInv
<1>2. audit'[w] = audit[w] + Entry(h, w)
  <2>1. audit'[w] = audit[w] - (IF w = call[h].from THEN call[h].amount ELSE 0)
                    + (IF w = call[h].to /\ ~Repeats(h) THEN call[h].amount ELSE 0)
    BY <1>1 DEF Commit, NewAudit
  <2>2. Repeats(h) => w # call[h].from
    BY <1>1 DEF Repeats
  <2> QED
    BY <1>1, <2>1, <2>2, LedgerAssumption
       DEF Entry, Signed, IInv, TypeInv, TypeOK
<1>3. /\ lost[w] => lost'[w]
      /\ w \notin Writes(h) => lost'[w] = lost[w] /\ balance'[w] = balance[w]
      /\ w \in Writes(h) /\ w \notin fresh[h] => lost'[w]
      /\ w \in Writes(h) /\ w \in fresh[h] => lost'[w] = lost[w]
  BY <1>1 DEF Commit, NewBalance, Writes, IInv, TypeInv, TypeOK
<1>4. ASSUME w \in Writes(h), w \in fresh[h]
      PROVE  balance'[w] = balance[w] + Signed(h, w)
  <2>1. CASE w = call[h].from
    <3>1. seenFrom[h] = balance[w]
      BY <1>1, <1>4, <2>1 DEF IInv, SeenInv
    <3> QED
      BY <1>1, <2>1, <3>1 DEF Commit, NewBalance, Signed, IInv, TypeInv, TypeOK
  <2>2. CASE w = call[h].to
    <3>1. seenTo[h] = balance[w]
      BY <1>1, <1>4, <2>2 DEF IInv, SeenInv
    <3> QED
      BY <1>1, <2>2, <3>1 DEF Commit, NewBalance, Signed, IInv, TypeInv, TypeOK
  <2> QED
    BY <1>4, <2>1, <2>2 DEF Writes
<1>5. w \notin Writes(h) => Signed(h, w) = 0
  BY DEF Writes, Signed
<1>6. Repeats(h) => call[h].to \in fresh[h] /\ Signed(h, w) >= 0
  BY <1>1 DEF Repeats, Signed, IInv, SeenInv
<1> QED
  BY <1>2, <1>3, <1>4, <1>5, <1>6 DEF IInv, TypeInv, TypeOK

(* A DEPOSIT row is COMPLETED exactly when a verification has credited it.  *)
BookInv ==
  \A p \in Payments : deposits[p] = "COMPLETED" <=> Creditors(p) # {}

(* The commit of a verification adds one creditor to its row, and no other  *)
(* commit adds any.                                                         *)
LEMMA CommitCreditors ==
  ASSUME IInv, NEW h \in Handlers, Commits(h), NEW p \in Payments
  PROVE  /\ h \notin Creditors(p)
         /\ IF call[h].kind = "deposit" /\ call[h].of = p
            THEN /\ Creditors(p)' = Creditors(p) \cup {h}
                 /\ deposits'[p] = "COMPLETED"
            ELSE Creditors(p)' = Creditors(p) /\ deposits'[p] = deposits[p]
<1>1. /\ pc' = [pc EXCEPT ![h] = "done"] /\ UNCHANGED call
      /\ pc[h] \in {"write", "debit"} /\ pc \in [Handlers -> Points]
      /\ deposits \in [Payments -> {"PENDING", "COMPLETED"}]
  BY CommitFacts DEF IInv, TypeInv, TypeOK, Commit, GoTo
<1>2. /\ h \notin Creditors(p)
      /\ Creditors(p)' = Creditors(p) \cup
           (IF call[h].kind = "deposit" /\ call[h].of = p THEN {h} ELSE {})
  BY <1>1 DEF Creditors
<1>3. deposits'[p] = IF call[h].kind = "deposit" /\ call[h].of = p
                     THEN "COMPLETED" ELSE deposits[p]
  <2>1. CASE CommitDeposit(h)
    BY <1>1, <2>1 DEF CommitDeposit
  <2>2. CASE CommitTransfer(h) \/ CommitReversal(h)
    BY <2>2 DEF CommitTransfer, CommitReversal
  <2>3. CASE CommitWithdrawal(h)
    BY <2>3 DEF CommitWithdrawal, IInv, TypeInv, PlaceOK
  <2> QED
    BY <2>1, <2>2, <2>3 DEF Commits
<1> QED
  BY <1>2, <1>3

(* No step but a commit adds a creditor.                                    *)
LEMMA OtherCreditors ==
  ASSUME IInv, [Next]_vars, ~\E h \in Handlers : Commits(h), NEW p \in Payments
  PROVE  Creditors(p)' = Creditors(p)
  BY OneMoves DEF Creditors

LEMMA BookStep == IInv /\ BookInv /\ [Next]_vars => BookInv'
<1> SUFFICES ASSUME IInv, BookInv, [Next]_vars PROVE BookInv'
  OBVIOUS
<1>1. CASE ~\E h \in Handlers : Commits(h)
  BY <1>1, OtherCreditors, OnlyCommitsWrite DEF BookInv, db
<1>2. ASSUME NEW h \in Handlers, Commits(h) PROVE BookInv'
  BY <1>2, CommitCreditors DEF BookInv
<1> QED
  BY <1>1, <1>2

(* A commit makes a wallet one credited twice only by repeating a credit,   *)
(* and then always.                                                         *)
LEMMA CommitTwice ==
  ASSUME IInv, BookInv, NEW h \in Handlers, Commits(h), NEW w \in Wallets
  PROVE  /\ CreditedTwice(w) => CreditedTwice(w)'
         /\ Repeats(h) /\ w = call[h].to => CreditedTwice(w)'
         /\ CreditedTwice(w)' => \/ CreditedTwice(w)
                                 \/ Repeats(h) /\ w = call[h].to
<1>a. call[h].kind = "deposit" =>
        call[h].of \in Payments /\ Funding[call[h].of].wallet = call[h].to
  BY CallFacts DEF IInv, TypeInv, TypeOK, SomeCall
<1>1. CreditedTwice(w) => CreditedTwice(w)'
  <2> SUFFICES ASSUME NEW p \in Payments, Funding[p].wallet = w,
                      NEW h1 \in Creditors(p), NEW h2 \in Creditors(p), h1 # h2
               PROVE  CreditedTwice(w)'
    BY DEF CreditedTwice
  <2>1. h1 \in Creditors(p)' /\ h2 \in Creditors(p)'
    BY CommitCreditors
  <2> QED
    BY <2>1 DEF CreditedTwice
<1>2. ASSUME Repeats(h), w = call[h].to PROVE CreditedTwice(w)'
  <2>1. PICK p \in Payments : /\ p = call[h].of /\ Funding[p].wallet = w
                              /\ deposits[p] = "COMPLETED"
    BY <1>a, <1>2 DEF Repeats
  <2>2. PICK g \in Creditors(p) : TRUE
    BY <2>1 DEF BookInv
  <2>3. g # h /\ g \in Creditors(p)' /\ h \in Creditors(p)'
    BY <1>2, <2>1, <2>2, CommitCreditors DEF Repeats
  <2> QED
    BY <2>1, <2>3 DEF CreditedTwice
<1>3. ASSUME CreditedTwice(w)', ~CreditedTwice(w)
      PROVE  Repeats(h) /\ w = call[h].to
  <2>1. PICK p \in Payments : /\ Funding[p].wallet = w
                              /\ \E h1, h2 \in Creditors(p)' : h1 # h2
    BY <1>3 DEF CreditedTwice
  <2>2. ~\E h1, h2 \in Creditors(p) : h1 # h2
    BY <1>3, <2>1 DEF CreditedTwice
  <2>3. /\ call[h].kind = "deposit" /\ call[h].of = p
        /\ Creditors(p)' = Creditors(p) \cup {h}
    BY <2>1, <2>2, CommitCreditors
  <2>4. Creditors(p) # {}
    BY <2>1, <2>3
  <2> QED
    BY <1>a, <2>1, <2>3, <2>4 DEF BookInv, Repeats
<1> QED
  BY <1>1, <1>2, <1>3

LEMMA OtherTwice ==
  ASSUME IInv, [Next]_vars, ~\E h \in Handlers : Commits(h), NEW w \in Wallets
  PROVE  CreditedTwice(w)' <=> CreditedTwice(w)
  BY OtherCreditors DEF CreditedTwice

LEMMA BookHolds == Spec => []BookInv
<1>1. Init => BookInv
  BY DEF Init, BookInv, Creditors
<1> QED
  BY <1>1, BookStep, IInvHolds, PTL DEF Spec

(* A wallet that no commit overwrote from a stale read holds at least the   *)
(* net of its rows, and exactly that unless one of its DEPOSIT rows was     *)
(* credited by two verifications.                                           *)
THEOREM BalanceAgreesWithHistory == Spec => []AuditUnlessLost
<1>1. Init => AuditUnlessLost
  BY LedgerAssumption DEF Init, AuditUnlessLost
<1>2. IInv /\ BookInv /\ AuditUnlessLost /\ [Next]_vars => AuditUnlessLost'
  <2> SUFFICES ASSUME IInv, BookInv, AuditUnlessLost, [Next]_vars
               PROVE  AuditUnlessLost'
    OBVIOUS
  <2>1. ASSUME NEW h \in Handlers, Commits(h), NEW w \in Wallets, ~lost'[w]
        PROVE  balance'[w] >= audit'[w]
               /\ (CreditedTwice(w)' \/ balance'[w] = audit'[w])
    <3>1. /\ audit'[w] = audit[w] + Entry(h, w) /\ ~lost[w]
          /\ balance'[w] = balance[w] + Signed(h, w)
          /\ Repeats(h) => Signed(h, w) >= 0
      BY <2>1, CommitEffect
    <3>2. /\ balance[w] \in Int /\ audit[w] \in Int /\ Signed(h, w) \in Int
          /\ balance[w] >= audit[w]
          /\ CreditedTwice(w) \/ balance[w] = audit[w]
      BY <2>1, <3>1, CommitFacts
         DEF AuditUnlessLost, Signed, IInv, TypeInv, TypeOK
    <3>3. CASE Repeats(h)
      <4>1. w # call[h].to => Signed(h, w) = 0
        BY <2>1, <3>3, CommitFacts DEF Repeats, Signed, IInv
      <4>2. w = call[h].to => CreditedTwice(w)'
        BY <2>1, <3>3, CommitTwice
      <4>3. CreditedTwice(w) => CreditedTwice(w)'
        BY <2>1, CommitTwice
      <4>4. Entry(h, w) = 0
        BY <3>3 DEF Entry
      <4>5. balance'[w] >= audit'[w]
        BY <3>1, <3>2, <3>3, <4>4
      <4>6. w # call[h].to /\ balance[w] = audit[w] => balance'[w] = audit'[w]
        BY <3>1, <3>2, <4>1, <4>4
      <4> QED
        BY <3>2, <4>2, <4>3, <4>5, <4>6
    <3>4. CASE ~Repeats(h)
      <4>1. CreditedTwice(w) => CreditedTwice(w)'
        BY <2>1, CommitTwice
      <4>2. /\ balance'[w] >= audit'[w]
            /\ balance[w] = audit[w] => balance'[w] = audit'[w]
        BY <3>1, <3>2, <3>4 DEF Entry
      <4> QED
        BY <3>2, <4>1, <4>2
    <3> QED
      BY <3>3, <3>4
  <2>2. CASE \E h \in Handlers : Commits(h)
    BY <2>1, <2>2 DEF AuditUnlessLost
  <2>3. CASE ~\E h \in Handlers : Commits(h)
    BY <2>3, OnlyCommitsWrite, OtherTwice DEF AuditUnlessLost, db
  <2> QED
    BY <2>2, <2>3
<1> QED
  BY <1>1, <1>2, IInvHolds, BookHolds, PTL DEF Spec

(* A deposit or a reversal about to commit uses the current balance of the  *)
(* wallet it locked.                                                        *)
THEOREM CreditsUseFreshReads == Spec => []CreditReadsAreFresh
<1>1. IInv => CreditReadsAreFresh
  BY DEF IInv, SeenInv, CreditReadsAreFresh
<1> QED
  BY <1>1, IInvHolds, PTL

-----------------------------------------------------------------------------
(* Reversals *)

(* A withdrawal is FAILED exactly when one call has put its money back.     *)
THEOREM ReversedAtMostOnce == Spec => []ReversedOnce
<1>1. Init => ReversedOnce
  BY DEF Init, ReversedOnce, Reversers
<1>2. IInv /\ ReversedOnce /\ [Next]_vars => ReversedOnce'
  <2> SUFFICES ASSUME IInv, ReversedOnce, [Next]_vars PROVE ReversedOnce'
    OBVIOUS
  <2>a. rows \in [Handlers -> {"none", "PENDING", "FAILED"}]
    BY DEF IInv, TypeInv, TypeOK
  <2>1. CASE UNCHANGED <<pc, call, rows, deposits>>
    BY <2>1 DEF ReversedOnce, Reversers
  <2>2. ASSUME NEW h \in Handlers, pc[h] # "done",
               \A g \in Handlers \ {h} : pc'[g] = pc[g] /\ call'[g] = call[g],
               pc'[h] # "done", UNCHANGED <<rows, deposits>>
        PROVE  ReversedOnce'
    <3>1. \A g \in Handlers : Reversers(g)' = Reversers(g)
      BY <2>2 DEF Reversers
    <3> QED
      BY <2>2, <3>1 DEF ReversedOnce
  <2>3. ASSUME NEW h \in Handlers, pc[h] # "done",
               \A g \in Handlers \ {h} : pc'[g] = pc[g] /\ call'[g] = call[g],
               Commits(h), call'[h] = call[h], pc'[h] = "done"
        PROVE  ReversedOnce'
    <3>1. CASE CommitReversal(h)
      <4>1. /\ call[h].kind = "reversal" /\ rows[call[h].of] = "PENDING"
            /\ rows' = [rows EXCEPT ![call[h].of] = "FAILED"]
        BY <3>1 DEF CommitReversal, IInv, LockInv
      <4>2. call[h].of \in Handlers
        BY <4>1, CallFacts DEF IInv, TypeInv, TypeOK, SomeCall, AnyCall
      <4>3. Reversers(call[h].of) = {} /\ Reversers(call[h].of)' = {h}
        BY <2>3, <4>1, <4>2 DEF ReversedOnce, Reversers
      <4>4. \A g \in Handlers : g # call[h].of =>
              Reversers(g)' = Reversers(g) /\ rows'[g] = rows[g]
        BY <2>3, <2>a, <4>1, <4>2 DEF Reversers
      <4> QED
        <5>1. rows'[call[h].of] = "FAILED"
          BY <2>a, <4>1, <4>2
        <5>2. ASSUME NEW g \in Handlers
              PROVE  /\ rows'[g] = "FAILED" <=> Reversers(g)' # {}
                     /\ \A h1, h2 \in Reversers(g)' : h1 = h2
          <6>1. CASE g = call[h].of
            BY <2>3, <4>3, <5>1, <6>1
          <6>2. CASE g # call[h].of
            BY <4>4, <6>2 DEF ReversedOnce
          <6> QED
            BY <6>1, <6>2
        <5> QED
          BY <5>2 DEF ReversedOnce
    <3>2. CASE ~CommitReversal(h)
      <4>1. call[h].kind # "reversal"
        BY <2>3, <3>2 DEF Commits, CommitTransfer, CommitDeposit,
             CommitWithdrawal, IInv, TypeInv, PlaceOK
      <4>2. \A g \in Handlers : Reversers(g)' = Reversers(g)
        BY <2>3, <4>1 DEF Reversers
      <4>3. \/ UNCHANGED rows
            \/ rows[h] = "none" /\ rows' = [rows EXCEPT ![h] = "PENDING"]
        BY <2>3, <3>2 DEF Commits, CommitTransfer, CommitDeposit,
             CommitWithdrawal, IInv, TypeInv, RowsOK
      <4>4. \A g \in Handlers : rows'[g] = "FAILED" <=> rows[g] = "FAILED"
        BY <2>a, <4>3
      <4> QED
        BY <4>2, <4>4 DEF ReversedOnce
    <3> QED
      BY <3>1, <3>2
  <2> QED
    BY <2>1, <2>2, <2>3, OneMoves
<1> QED
  BY <1>1, <1>2, IInvHolds, PTL DEF Spec

-----------------------------------------------------------------------------
(* Refinement *)

(* Every commit is one entry of the ledger, or repeats a credit; every      *)
(* other step is a stutter.                                                 *)
THEOREM LedgerRefinement == Spec => ImplementsLedger
<1>1. Init => Abstract!Init
  BY DEF Init, Abstract!Init, Tainted, CreditedTwice, Creditors
<1>2. IInv /\ IInv' /\ BookInv /\ [Next]_vars => [Abstract!Next]_(Abstract!entry)
  <2> SUFFICES ASSUME IInv, IInv', BookInv, [Next]_vars
               PROVE  [Abstract!Next]_(Abstract!entry)
    OBVIOUS
  <2>t. ASSUME NEW w \in Wallets
        PROVE  /\ Tainted[w] = (lost[w] \/ CreditedTwice(w))
               /\ Tainted'[w] = (lost'[w] \/ CreditedTwice(w)')
    BY DEF Tainted
  <2>1. CASE ~\E h \in Handlers : Commits(h)
    <3>1. UNCHANGED <<balance, audit, lost>>
      BY <2>1, OnlyCommitsWrite DEF db
    <3>2. Tainted' = Tainted
      BY <2>1, <3>1, OtherTwice DEF Tainted
    <3> QED
      BY <3>1, <3>2 DEF Abstract!entry
  <2>2. ASSUME NEW h \in Handlers, Commits(h) PROVE Abstract!Next
    <3>1. /\ call[h].amount \in 1..MaxBalance
          /\ call[h].kind = "transfer" =>
               /\ call[h].from \in Wallets /\ call[h].to \in Wallets
               /\ call[h].from # call[h].to
          /\ call[h].kind = "withdrawal" =>
               call[h].from \in Wallets /\ call[h].to \notin Wallets
          /\ call[h].kind \in {"deposit", "reversal"} =>
               call[h].from \notin Wallets /\ call[h].to \in Wallets
          /\ call[h].kind \in {"transfer", "withdrawal", "deposit", "reversal"}
      BY <2>2, CommitFacts DEF IInv
    <3>2. CASE Repeats(h)
      <4> DEFINE u == call[h].to
      <4>1. u \in Wallets /\ u \in fresh[h] /\ u \in Writes(h)
            /\ \A w \in Wallets \ {u} : w \notin Writes(h)
        BY <2>2, <3>1, <3>2, CommitEffect DEF Repeats, Writes
      <4>2. balance'[u] = balance[u] + call[h].amount
            /\ \A w \in Wallets \ {u} : balance'[w] = balance[w] /\ lost'[w] = lost[w]
        BY <2>2, <3>1, <3>2, <4>1, CommitEffect DEF Signed, Repeats
      <4>3. audit' = audit
        <5>1. \A w \in Wallets : audit'[w] = audit[w]
          BY <2>2, <3>2, CommitEffect DEF Entry, IInv, TypeInv, TypeOK
        <5> QED
          BY <5>1 DEF IInv, TypeInv, TypeOK
      <4>4. balance' = [balance EXCEPT ![u] = @ + call[h].amount]
            /\ balance[u] + call[h].amount <= MaxBalance
        BY <4>1, <4>2, LedgerAssumption DEF IInv, TypeInv, TypeOK
      <4>5. Tainted' = [Tainted EXCEPT ![u] = TRUE]
        <5>1. Tainted'[u] = TRUE
          BY <2>2, <2>t, <3>2, <4>1, CommitTwice
        <5>2. \A w \in Wallets \ {u} : Tainted'[w] = Tainted[w]
          BY <2>2, <2>t, <4>2, CommitTwice
        <5> QED
          BY <4>1, <5>1, <5>2 DEF Tainted
      <4> QED
        BY <3>1, <4>1, <4>3, <4>4, <4>5 DEF Abstract!Next, Abstract!Repeat
    <3>3. CASE ~Repeats(h)
      <4> DEFINE delta == [w \in Wallets |-> Signed(h, w)]
      <4>1. audit' = [w \in Wallets |-> audit[w] + delta[w]]
        BY <2>2, <3>3, CommitEffect DEF Entry, IInv, TypeInv, TypeOK
      <4>2. balance' \in [Wallets -> 0..MaxBalance]
            /\ Tainted' \in [Wallets -> BOOLEAN]
        BY DEF IInv, TypeInv, TypeOK, Tainted, CreditedTwice
      <4>3. ASSUME NEW w \in Wallets
            PROVE  /\ Tainted[w] => Tainted'[w]
                   /\ ~Tainted'[w] => balance'[w] = balance[w] + delta[w]
                   /\ delta[w] = 0 =>
                        Tainted'[w] = Tainted[w] /\ balance'[w] = balance[w]
        <5>1. delta[w] = 0 => w \notin Writes(h)
          BY <3>1, LedgerAssumption DEF Signed, Writes
        <5>2. CreditedTwice(w)' <=> CreditedTwice(w)
          BY <2>2, <3>3, CommitTwice
        <5>3. /\ lost[w] => lost'[w]
              /\ ~lost'[w] => balance'[w] = balance[w] + delta[w]
              /\ delta[w] = 0 => lost'[w] = lost[w] /\ balance'[w] = balance[w]
          BY <2>2, <5>1, CommitEffect
        <5>4. delta[w] = 0 => Tainted'[w] = Tainted[w]
          BY <2>t, <5>2, <5>3
        <5> QED
          BY <2>t, <5>2, <5>3, <5>4
      <4>4. Abstract!Post(delta)
        BY <4>1, <4>2, <4>3 DEF Abstract!Post
      <4>5. CASE call[h].kind = "transfer"
        <5>1. delta = [v \in Wallets |-> IF v = call[h].from THEN -call[h].amount
                         ELSE IF v = call[h].to THEN call[h].amount ELSE 0]
          BY DEF Signed
        <5> QED
          BY <3>1, <4>4, <4>5, <5>1 DEF Abstract!Next, Abstract!Move
      <4>6. CASE call[h].kind = "withdrawal"
        <5>1. delta = [v \in Wallets |->
                         IF v = call[h].from THEN -call[h].amount ELSE 0]
          BY <3>1, <4>6 DEF Signed
        <5> QED
          BY <3>1, <4>4, <4>6, <5>1 DEF Abstract!Next, Abstract!Debit
      <4>7. CASE call[h].kind \in {"deposit", "reversal"}
        <5>1. delta = [v \in Wallets |->
                         IF v = call[h].to THEN call[h].amount ELSE 0]
          BY <3>1, <4>7 DEF Signed
        <5> QED
          BY <3>1, <4>4, <4>7, <5>1 DEF Abstract!Next, Abstract!Credit
      <4> QED
        BY <3>1, <4>5, <4>6, <4>7
    <3> QED
      BY <3>2, <3>3
  <2> QED
    BY <2>1, <2>2
<1> QED
  BY <1>1, <1>2, IInvHolds, BookHolds, PTL DEF Spec, ImplementsLedger, Abstract!Spec
=============================================================================
