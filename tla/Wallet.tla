------------------------------- MODULE Wallet -------------------------------
(***************************************************************************)
(* One wallet with its withdrawals and its deposits at once: Withdrawals   *)
(* and Deposits share the row of the wallet, the transactions table, the   *)
(* worker of the "transactions" queue and the process that may crash.      *)
(* Their actions are theirs; this module adds the balance and what one     *)
(* component waits for in the other:                                       *)
(*                                                                         *)
(*   - the wallet row, locked exclusively by a credit from its read to its *)
(*     commit, by a debit and by a reversal, and shared by the foreign key *)
(*     check of a withdrawal or deposit row inserted;                      *)
(*   - the rows of transactions, all locked by verifyWithdrawal's scan;    *)
(*   - the worker, which runs one job at a time.                           *)
(*                                                                         *)
(* A credit holds the wallet and then wants its row of transactions, a     *)
(* reversal holds the rows and then wants the wallet: MySQL picks a victim. *)
(***************************************************************************)
EXTENDS Integers, FiniteSets, Jobs

CONSTANTS
  Requests, Hooks, Outcomes,  \* see Withdrawals
  Payments, Callers,          \* see Deposits
  MaxAttempts, MaxCrashes,
  Opening,                    \* the balance at the start
  Amount,                     \* of every withdrawal and deposit
  Nobody

(* What Withdrawals and Deposits assume; a request verifies no deposit.     *)
ASSUME WalletAssumption ==
  /\ Requests \cap Hooks = {} /\ Payments \cap Callers = {}
  /\ Requests \cap (Payments \cup Callers) = {}
  /\ IsFiniteSet(Requests) /\ IsFiniteSet(Payments) /\ IsFiniteSet(Callers)
  /\ Outcomes \subseteq {"SUCCESSFUL", "FAILED", "OTHER"}
  /\ MaxAttempts \in Nat \ {0} /\ MaxCrashes \in Nat
  /\ Opening \in Nat /\ Amount \in Nat \ {0}
  /\ Nobody \notin Nat \cup Requests \cup Hooks \cup Payments \cup Callers

VARIABLES
  payout, wrow, refunds, rpc, wjob, wabout, wvpc, answer, scan,  \* Withdrawals
  checkout, drow, credits, fpc, djob, dabout, dvpc, wlock,       \* Deposits
  crashes,
  balance,  \* wallets.balance, as committed
  seen,     \* the balance of the Wallet object a debit or credit has read
  lost      \* (history) a debit has overwritten a balance it had not read

W == INSTANCE Withdrawals WITH
       row <- wrow, job <- wjob, about <- wabout, vpc <- wvpc
D == INSTANCE Deposits WITH
       row <- drow, job <- djob, about <- dabout, vpc <- dvpc

withdrawal == <<payout, wrow, refunds, rpc, wjob, wabout, wvpc, answer, scan>>
deposit    == <<checkout, drow, credits, fpc, djob, dabout, dvpc, wlock>>
wallet     == <<balance, seen, lost>>
vars       == <<withdrawal, deposit, crashes, wallet>>

TypeOK ==
  /\ W!TypeOK /\ D!TypeOK
  /\ balance \in Nat
  /\ seen \in [Requests \cup D!Verifications -> Nat \cup {Nobody}]
  /\ lost \in BOOLEAN

Init ==
  /\ W!Init /\ D!Init
  /\ balance = Opening
  /\ seen = [x \in Requests \cup D!Verifications |-> Nobody]
  /\ lost = FALSE

-----------------------------------------------------------------------------
(* What the components wait for in each other *)

(* Withdrawals whose row is inserted: the foreign key's shared lock.        *)
Sharing == {r \in Requests : rpc[r] = "debit"}

CanShare == wlock = Nobody

CanLock(r) == wlock = Nobody /\ Sharing \subseteq {r}

CanWriteRows == scan = Nobody

WorkerFree ==
  /\ \A r \in Requests : wjob[r].state # "active"
  /\ \A p \in Payments : djob[p].state # "active"

-----------------------------------------------------------------------------
(* walletWithdrawal *)

(* findByUserId, before the gateway is asked for anything. *)
ReadWallet(r) ==
  /\ rpc[r] = "order" /\ seen[r] = Nobody
  /\ seen' = [seen EXCEPT ![r] = balance]
  /\ UNCHANGED <<withdrawal, deposit, crashes, balance, lost>>

Order(r) ==
  /\ seen[r] # Nobody
  /\ W!PayoutRefused(r) \/ W!PayoutAccepted(r) \/ W!AnswerLost(r)
  /\ UNCHANGED <<deposit, wallet>>

InsertWithdrawal(r) ==
  CanShare /\ W!InsertRow(r) /\ UNCHANGED <<deposit, wallet>>

(* withdrawFromWallet: the check and the new value are on what was read     *)
(* before the payout.                                                       *)
Debit(r) ==
  /\ CanLock(r)
  /\ W!Debit(r)
  /\ seen[r] >= Amount
  /\ balance' = seen[r] - Amount
  /\ lost' = (lost \/ seen[r] # balance)
  /\ seen' = [seen EXCEPT ![r] = Nobody]
  /\ UNCHANGED deposit

Answer(r) ==
  /\ W!DebitRefused(r) \/ W!Enqueue(r) \/ W!EnqueueFails(r)
  /\ UNCHANGED <<deposit, wallet>>

-----------------------------------------------------------------------------
(* verifyWithdrawal *)

StartWithdrawalJob(v) ==
  WorkerFree /\ W!StartJob(v) /\ UNCHANGED <<deposit, wallet>>

VerifyWithdrawal(v) ==
  /\ \/ W!Fetch(v) \/ W!LockRow(v) \/ W!NotFound(v) \/ W!AlreadySettled(v)
     \/ W!Complete(v) \/ W!StillPending(v) \/ W!Ignored(v) \/ W!Report(v)
  /\ UNCHANGED <<deposit, wallet>>

(* handleWalletReversal locks the wallet, reads it and writes it; nobody    *)
(* sees anything in between.                                                *)
Reverse(v) ==
  /\ CanLock(Nobody)
  /\ W!Reverse(v)
  /\ balance' = balance + Amount
  /\ UNCHANGED <<deposit, seen, lost>>

-----------------------------------------------------------------------------
(* fundWallet and verifyFundingPayment *)

Fund(p) ==
  /\ \/ D!InitiatePayment(p) \/ D!Enqueue(p)
     \/ CanShare /\ CanWriteRows /\ D!InsertRow(p)
  /\ UNCHANGED <<withdrawal, wallet>>

StartDepositJob(v) ==
  WorkerFree /\ D!StartJob(v) /\ UNCHANGED <<withdrawal, wallet>>

VerifyDeposit(v) ==
  /\ \/ D!ReadPending(v) \/ D!ReadSettled(v) \/ D!ReadNothing(v)
     \/ D!FetchFinal(v) \/ D!CouldNotVerify(v) \/ D!Report(v)
     \/ CanWriteRows /\ D!MarkFailed(v)
  /\ UNCHANGED <<withdrawal, wallet>>

(* Mutant of LockWallet: the read without forUpdate. *)
ReadWalletUnlocked(v) ==
  /\ dvpc[v] = "lock"
  /\ dvpc' = [dvpc EXCEPT ![v] = "credit"]
  /\ seen' = [seen EXCEPT ![v] = balance]
  /\ UNCHANGED <<withdrawal, checkout, drow, credits, fpc, djob, dabout, wlock,
                 crashes, balance, lost>>

LockWallet(v) ==
  /\ CanLock(Nobody)
  /\ D!LockWallet(v)
  /\ seen' = [seen EXCEPT ![v] = balance]
  /\ UNCHANGED <<withdrawal, balance, lost>>

Credit(v) ==
  /\ CanWriteRows
  /\ D!Credit(v)
  /\ balance' = seen[v] + Amount
  /\ seen' = [seen EXCEPT ![v] = Nobody]
  /\ UNCHANGED <<withdrawal, lost>>

-----------------------------------------------------------------------------
(* The world *)

Outside ==
  \/ /\ \/ \E r \in Requests : W!Decide(r)
        \/ \E v \in Hooks : W!DeliverHook(v)
        \/ \E v \in W!Verifications : W!CallFails(v)
     /\ UNCHANGED <<deposit, wallet>>
  \/ /\ \/ \E p \in Payments : D!FundFails(p) \/ D!Pay(p)
        \/ \E v \in Callers : D!Ask(v)
        \/ \E v \in D!Verifications : D!CallFails(v)
     /\ UNCHANGED <<withdrawal, wallet>>

(* The credit u and the reversal v wait for each other's locks; one of them *)
(* is rolled back.                                                          *)
DeadlockVictim ==
  \E u \in D!Verifications, v \in W!Verifications :
    /\ dvpc[u] = "credit" /\ wlock = u
    /\ wvpc[v] = "settle" /\ scan = v /\ answer[v] = "FAILED"
    /\ \/ D!CallFails(u) /\ UNCHANGED <<withdrawal, wallet>>
       \/ W!CallFails(v) /\ UNCHANGED <<deposit, wallet>>

(* A request that has not ordered its payout is a new one afterwards.       *)
Crash ==
  /\ W!Crash /\ D!Crash
  /\ seen' = [x \in DOMAIN seen |-> Nobody]
  /\ UNCHANGED <<balance, lost>>

RequestStep(r) ==
  ReadWallet(r) \/ Order(r) \/ InsertWithdrawal(r) \/ Debit(r) \/ Answer(r)

WithdrawalStep(v) == StartWithdrawalJob(v) \/ VerifyWithdrawal(v) \/ Reverse(v)

DepositStep(v) ==
  StartDepositJob(v) \/ VerifyDeposit(v) \/ LockWallet(v) \/ Credit(v)

Quiet == W!Quiet /\ D!Quiet /\ UNCHANGED wallet

Next ==
  \/ \E r \in Requests : RequestStep(r)
  \/ \E v \in W!Verifications : WithdrawalStep(v)
  \/ \E p \in Payments : Fund(p)
  \/ \E v \in D!Verifications : DepositStep(v)
  \/ Outside
  \/ DeadlockVictim
  \/ Crash
  \/ Quiet

Spec == Init /\ [][Next]_vars

(* As in the components; moreover the deadlock detector runs.               *)
Fairness ==
  /\ \A r \in Requests : WF_vars(RequestStep(r))
  /\ \A v \in W!Verifications : WF_vars(WithdrawalStep(v))
  /\ \A p \in Payments : WF_vars(Fund(p))
  /\ \A v \in D!Verifications : WF_vars(DepositStep(v))
  /\ WF_vars(DeadlockVictim)

FairSpec == Spec /\ Fairness

-----------------------------------------------------------------------------
(* Properties *)

(* What the rows of the transactions table say the wallet holds: a DEPOSIT  *)
(* row counts once it is COMPLETED, a WITHDRAWAL row unless it is FAILED.   *)
Funded   == {p \in Payments : drow[p] = "COMPLETED"}
Standing == {r \in Requests : wrow[r] \notin {"none", "FAILED"}}

OnTheBooks == Opening + Amount * (Cardinality(Funded) - Cardinality(Standing))

CreditedTwice == \E p \in Payments : credits[p] > 1

(* Deposits, withdrawals and refunds of one wallet, however they overlap,   *)
(* are entries of the Ledger: posted one at a time, balance and rows        *)
(* together, unless a debit has lost an update or a DEPOSIT row has been    *)
(* credited twice; a credit never loses an update.                          *)
Row == {"wallet"}

(* One refund for a withdrawal, one credit for a payment and who asks.      *)
MostCredits == Cardinality(Requests) + Cardinality(Payments) * (1 + Cardinality(Callers))

Books == INSTANCE Ledger WITH
  Wallets <- Row,
  Opening <- [w \in Row |-> Opening],
  MaxBalance <- Opening + Amount * MostCredits,
  bal <- [w \in Row |-> balance],
  hist <- [w \in Row |-> OnTheBooks],
  tainted <- [w \in Row |-> lost \/ CreditedTwice]

ImplementsLedger == Books!Spec

(* Though the verifications of withdrawals and of deposits wait for each    *)
(* other's locks and take turns at one worker, every one of them returns    *)
(* and every job comes to its end.                                          *)
EverythingEnds ==
  /\ \A v \in Hooks : wvpc[v] # "idle" ~> wvpc[v] = "end"
  /\ \A v \in Callers : dvpc[v] # "idle" ~> dvpc[v] = "end"
  /\ \A r \in Requests : wjob[r].state = "waiting" ~> Over(wjob[r])
  /\ \A p \in Payments : djob[p].state = "waiting" ~> Over(djob[p])
=============================================================================
