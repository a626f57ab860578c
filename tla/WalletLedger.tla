---------------------------- MODULE WalletLedger ----------------------------
(***************************************************************************)
(* The rows of the wallets table under the four calls that write them:     *)
(* WalletService.walletTransfer, walletWithdrawal and verifyFundingPayment *)
(* (src/src/wallet/wallet.service.ts) and                                  *)
(* TransactionsService.handleWalletReversal                                *)
(* (src/src/transactions/transactions.service.ts).                         *)
(*                                                                         *)
(* A handler is one such call.  It is an async function, so the handlers   *)
(* interleave at every await; an action is what happens between two awaits *)
(* that matter.  Statements of one database transaction that follow each   *)
(* other with every lock they need already held are one action with the    *)
(* commit: nobody sees them before it.                                     *)
(*                                                                         *)
(* MySQL is external.  Of it the model keeps the exclusive lock of SELECT  *)
(* ... FOR UPDATE and UPDATE, the shared lock a foreign key check takes on *)
(* the parent row, plain reads of committed rows, the CHECK constraints of *)
(* the migration, rollback and the deadlock detector.  A locking read with *)
(* no index to use (transactions.external_reference has none) locks every  *)
(* row it scans, so it excludes every other writer of that table.          *)
(***************************************************************************)
EXTENDS Integers

CONSTANTS
  Wallets,     \* primary keys of the wallets table, one per user
  Handlers,    \* calls of the services, each run once
  Calls,       \* the arguments a transfer or a withdrawal may carry
  Payments,    \* DEPOSIT rows that are PENDING at the start
  Funding,     \* the wallet and the amount of each of them
  Opening,     \* the balances, and the net of the history, at the start
  MaxBalance,  \* the largest value of a DECIMAL(15,2) column
  Nobody       \* absent wallet, absent lock holder, absent target

(* The amount of a transfer or a withdrawal is whatever the DTO let         *)
(* through, zero and negative included.                                     *)
CallType ==
  [kind: {"transfer"}, from: Wallets, to: Wallets \cup {Nobody},
   amount: Int, of: {Nobody}]
  \cup [kind: {"withdrawal"}, from: Wallets, to: {Nobody},
        amount: Int, of: {Nobody}]

(* A deposit is about a DEPOSIT row, which exists only with amount > 0.     *)
DepositOf(p) == [kind |-> "deposit", from |-> Nobody, to |-> Funding[p].wallet,
                 amount |-> Funding[p].amount, of |-> p]

(* A reversal is about the WITHDRAWAL row that call "of" committed. *)
ReversalType ==
  [kind: {"reversal"}, from: {Nobody}, to: Wallets,
   amount: Nat \ {0}, of: Handlers]

AnyCall == CallType \cup ReversalType \cup {DepositOf(p) : p \in Payments}

NoCall == [kind |-> "none", from |-> Nobody, to |-> Nobody,
           amount |-> 0, of |-> Nobody]

ASSUME LedgerAssumption ==
  /\ Nobody \notin Wallets
  /\ Nobody \notin Handlers
  /\ MaxBalance \in Nat
  /\ Opening \in [Wallets -> 0..MaxBalance]
  /\ \A c \in Calls : c \in CallType
  /\ Funding \in [Payments -> [wallet: Wallets, amount: Nat \ {0}]]

VARIABLES
  balance,   \* wallets.balance, as committed
  audit,     \* net of the wallet's rows in the transactions table, as committed
  rows,      \* status of the WITHDRAWAL row a withdrawal handler committed
  deposits,  \* status of the DEPOSIT rows
  lost,      \* (history) wallets a commit overwrote from a stale read
  xlock,     \* holder of the exclusive lock on a wallet row
  slock,     \* holders of a shared lock on a wallet row
  scan,      \* holder of the locks of verifyWithdrawal's scan of transactions
  call,      \* arguments of the handler's call
  seenFrom,  \* balance of the Wallet object the handler debits
  seenTo,    \* balance of the Wallet object the handler credits
  fresh,     \* (history) wallets the handler read and nobody overwrote since
  pc         \* the await the handler is at

db    == <<balance, audit, rows, deposits, lost>>
locks == <<xlock, slock, scan>>
seen  == <<seenFrom, seenTo, fresh>>
vars  == <<db, locks, call, seen, pc>>

Ended  == {"done", "skipped", "failed"}
InTrx  == {"lockFrom", "lockTo", "write", "insert", "debit",
           "lockRow", "lockWallet"}
Points == {"idle", "readTo", "payout"} \cup InTrx \cup Ended

TypeOK ==
  /\ balance  \in [Wallets -> 0..MaxBalance]
  /\ audit    \in [Wallets -> Int]
  /\ rows     \in [Handlers -> {"none", "PENDING", "FAILED"}]
  /\ deposits \in [Payments -> {"PENDING", "COMPLETED"}]
  /\ lost     \in [Wallets -> BOOLEAN]
  /\ xlock    \in [Wallets -> Handlers \cup {Nobody}]
  /\ slock    \in [Wallets -> SUBSET Handlers]
  /\ scan     \in Handlers \cup {Nobody}
  /\ call     \in [Handlers -> {NoCall} \cup AnyCall]
  /\ seenFrom \in [Handlers -> 0..MaxBalance]
  /\ seenTo   \in [Handlers -> 0..MaxBalance]
  /\ fresh    \in [Handlers -> SUBSET Wallets]
  /\ pc       \in [Handlers -> Points]

Init ==
  /\ balance  = Opening
  /\ audit    = Opening
  /\ rows     = [h \in Handlers |-> "none"]
  /\ deposits = [p \in Payments |-> "PENDING"]
  /\ lost     = [w \in Wallets |-> FALSE]
  /\ xlock    = [w \in Wallets |-> Nobody]
  /\ slock    = [w \in Wallets |-> {}]
  /\ scan     = Nobody
  /\ call     = [h \in Handlers |-> NoCall]
  /\ seenFrom = [h \in Handlers |-> 0]
  /\ seenTo   = [h \in Handlers |-> 0]
  /\ fresh    = [h \in Handlers |-> {}]
  /\ pc       = [h \in Handlers |-> "idle"]

-----------------------------------------------------------------------------
(* Row locks and the unit of work *)

CanLockX(h, w) == xlock[w] \in {Nobody, h} /\ slock[w] \subseteq {h}
CanLockS(h, w) == xlock[w] \in {Nobody, h}

(* Rows of transactions can be inserted or updated by h. *)
CanWriteRows(h) == scan \in {Nobody, h}

GoTo(h, point) == pc' = [pc EXCEPT ![h] = point]

(* COMMIT and ROLLBACK both give back every lock of the transaction. *)
Release(h) ==
  /\ xlock' = [w \in Wallets |-> IF xlock[w] = h THEN Nobody ELSE xlock[w]]
  /\ slock' = [w \in Wallets |-> slock[w] \ {h}]
  /\ scan' = IF scan = h THEN Nobody ELSE scan

(* Mutant of Rollback: the catch branch forgets trx.rollback(). *)
RollbackForgotten(h) ==
  /\ fresh' = [fresh EXCEPT ![h] = {}]
  /\ GoTo(h, "failed")
  /\ UNCHANGED <<db, locks, call, seenFrom, seenTo>>

(* UnitOfWork.executeInTransaction, catch branch: roll back and rethrow. *)
Rollback(h) ==
  /\ Release(h)
  /\ fresh' = [fresh EXCEPT ![h] = {}]
  /\ GoTo(h, "failed")
  /\ UNCHANGED <<db, call, seenFrom, seenTo>>

(* A throw before any transaction was opened. *)
Throw(h) ==
  /\ fresh' = [fresh EXCEPT ![h] = {}]
  /\ GoTo(h, "failed")
  /\ UNCHANGED <<db, locks, call, seenFrom, seenTo>>

Writes(h) == {call[h].from, call[h].to} \cap Wallets

(* Mutant of NewBalance: the recipient is never credited. *)
NewBalanceDebitOnly(h) ==
  [w \in Wallets |->
     IF w = call[h].from THEN seenFrom[h] - call[h].amount ELSE balance[w]]

(* withdrawFromWallet, then depositToWallet: the column is set to the       *)
(* balance of the Wallet OBJECT less or plus the amount, not to itself less *)
(* or plus the amount.                                                      *)
NewBalance(h) ==
  [w \in Wallets |->
     IF w = call[h].to THEN seenTo[h] + call[h].amount
     ELSE IF w = call[h].from THEN seenFrom[h] - call[h].amount
     ELSE balance[w]]

(* The row of the deposit h verifies is COMPLETED already: the UPDATE that  *)
(* follows the credit changes nothing.                                      *)
Repeats(h) == call[h].kind = "deposit" /\ deposits[call[h].of] = "COMPLETED"

(* The rows that count, before and after: those a transfer or a withdrawal  *)
(* inserts, a DEPOSIT row that becomes COMPLETED, a WITHDRAWAL row that     *)
(* becomes FAILED.                                                          *)
NewAudit(h) ==
  [w \in Wallets |->
     audit[w] - (IF w = call[h].from THEN call[h].amount ELSE 0)
              + (IF w = call[h].to /\ ~Repeats(h) THEN call[h].amount ELSE 0)]

(* UnitOfWork.executeInTransaction: the wallet UPDATEs and the COMMIT. *)
Commit(h) ==
  /\ balance' = NewBalance(h)
  /\ audit' = NewAudit(h)
  /\ lost' = [w \in Wallets |->
                lost[w] \/ (w \in Writes(h) /\ w \notin fresh[h])]
  /\ fresh' = [g \in Handlers |->
                 IF g = h THEN {} ELSE fresh[g] \ Writes(h)]
  /\ Release(h)
  /\ GoTo(h, "done")
  /\ UNCHANGED <<call, seenFrom, seenTo>>

(* Mutant of FitsColumn: no bound on the column. *)
FitsAlways(h) == TRUE

(* The credit fits DECIMAL(15,2); else MySQL refuses the UPDATE. *)
FitsColumn(h) == seenTo[h] + call[h].amount <= MaxBalance

-----------------------------------------------------------------------------
(* handleWalletTransfer and walletTransfer *)

CallTransfer(h) ==
  /\ pc[h] = "idle"
  /\ \E c \in Calls :
       /\ c.kind = "transfer"
       /\ call' = [call EXCEPT ![h] = c]
       /\ seenFrom' = [seenFrom EXCEPT ![h] = balance[c.from]]
       /\ fresh' = [fresh EXCEPT ![h] = {c.from}]
  /\ GoTo(h, "readTo")
  /\ UNCHANGED <<db, locks, seenTo>>

(* The recipient's wallet is read after the sender's; then the checks. *)
ReadTo(h) ==
  /\ pc[h] = "readTo"
  /\ call[h].to \in Wallets
  /\ ~(seenFrom[h] < call[h].amount)
  /\ seenTo' = [seenTo EXCEPT ![h] = balance[call[h].to]]
  /\ fresh' = [fresh EXCEPT ![h] = @ \cup {call[h].to}]
  /\ GoTo(h, "lockFrom")
  /\ UNCHANGED <<db, locks, call, seenFrom>>

RefuseTransfer(h) ==
  /\ pc[h] = "readTo"
  /\ call[h].to \notin Wallets \/ seenFrom[h] < call[h].amount
  /\ Throw(h)

LockFrom(h) ==
  /\ pc[h] = "lockFrom"
  /\ CanLockX(h, call[h].from)
  /\ xlock' = [xlock EXCEPT ![call[h].from] = h]
  /\ GoTo(h, "lockTo")
  /\ UNCHANGED <<db, slock, scan, call, seen>>

(* The rows just locked are not looked at again: the balances used below    *)
(* are those of CallTransfer and ReadTo.                                    *)
LockTo(h) ==
  /\ pc[h] = "lockTo"
  /\ CanLockX(h, call[h].to)
  /\ xlock' = [xlock EXCEPT ![call[h].to] = h]
  /\ GoTo(h, "write")
  /\ UNCHANGED <<db, slock, scan, call, seen>>

(* Mutant of TransferAllowed: no CHECK that the two wallets differ. *)
TransferToSelfAllowed(h) ==
  /\ call[h].amount > 0
  /\ ~(seenFrom[h] < call[h].amount)
  /\ FitsColumn(h)

(* CHECK amount > 0 (transactions, transfers), CHECK from_wallet_id !=      *)
(* to_wallet_id (transfers), then the two balance updates.                  *)
TransferAllowed(h) ==
  /\ call[h].amount > 0
  /\ call[h].from # call[h].to
  /\ ~(seenFrom[h] < call[h].amount)
  /\ FitsColumn(h)

CommitTransfer(h) ==
  /\ pc[h] = "write"
  /\ call[h].kind = "transfer"
  /\ CanWriteRows(h)
  /\ TransferAllowed(h)
  /\ Commit(h)
  /\ UNCHANGED <<rows, deposits>>

AbortTransfer(h) ==
  /\ pc[h] = "write"
  /\ call[h].kind = "transfer"
  /\ CanWriteRows(h)
  /\ ~TransferAllowed(h)
  /\ Rollback(h)

-----------------------------------------------------------------------------
(* walletWithdrawal *)

CallWithdrawal(h) ==
  /\ pc[h] = "idle"
  /\ \E c \in Calls :
       /\ c.kind = "withdrawal"
       /\ call' = [call EXCEPT ![h] = c]
       /\ seenFrom' = [seenFrom EXCEPT ![h] = balance[c.from]]
       /\ fresh' = [fresh EXCEPT ![h] = {c.from}]
  /\ GoTo(h, "payout")
  /\ UNCHANGED <<db, locks, seenTo>>

(* verifyAccount and initiateTransfer: the payout is ordered before the     *)
(* balance is looked at.                                                    *)
PayoutOrdered(h) ==
  /\ pc[h] = "payout"
  /\ GoTo(h, "insert")
  /\ UNCHANGED <<db, locks, call, seen>>

PayoutRefused(h) == pc[h] = "payout" /\ Throw(h)

(* The INSERT into transactions: CHECK amount > 0, and the foreign key      *)
(* leaves a shared lock on the wallet row.                                  *)
InsertWithdrawal(h) ==
  /\ pc[h] = "insert"
  /\ call[h].amount > 0
  /\ CanWriteRows(h)
  /\ CanLockS(h, call[h].from)
  /\ slock' = [slock EXCEPT ![call[h].from] = @ \cup {h}]
  /\ GoTo(h, "debit")
  /\ UNCHANGED <<db, xlock, scan, call, seen>>

(* withdrawFromWallet on the Wallet object read before the payout; the      *)
(* UPDATE needs the row exclusively.                                        *)
CommitWithdrawal(h) ==
  /\ pc[h] = "debit"
  /\ ~(seenFrom[h] < call[h].amount)
  /\ CanLockX(h, call[h].from)
  /\ Commit(h)
  /\ rows' = [rows EXCEPT ![h] = "PENDING"]
  /\ UNCHANGED deposits

AbortWithdrawal(h) ==
  /\ \/ pc[h] = "insert" /\ ~(call[h].amount > 0)
     \/ pc[h] = "debit" /\ seenFrom[h] < call[h].amount
  /\ Rollback(h)

-----------------------------------------------------------------------------
(* verifyFundingPayment, once the gateway has confirmed the payment *)

(* The status of the row is tested where it is read, without a lock and     *)
(* before the gateway is asked.                                             *)
CallDeposit(h) ==
  /\ pc[h] = "idle"
  /\ \E p \in Payments :
       /\ call' = [call EXCEPT ![h] = DepositOf(p)]
       /\ GoTo(h, IF deposits[p] = "PENDING" THEN "lockWallet" ELSE "skipped")
  /\ UNCHANGED <<db, locks, seen>>

(* Mutant of LockWallet: the read without forUpdate. *)
ReadWalletUnlocked(h) ==
  /\ pc[h] = "lockWallet"
  /\ seenTo' = [seenTo EXCEPT ![h] = balance[call[h].to]]
  /\ fresh' = [fresh EXCEPT ![h] = {call[h].to}]
  /\ GoTo(h, "write")
  /\ UNCHANGED <<db, locks, call, seenFrom>>

(* findById(..., forUpdate), here and in handleWalletReversal: the locked   *)
(* row IS the object used.                                                  *)
LockWallet(h) ==
  /\ pc[h] = "lockWallet"
  /\ CanLockX(h, call[h].to)
  /\ xlock' = [xlock EXCEPT ![call[h].to] = h]
  /\ seenTo' = [seenTo EXCEPT ![h] = balance[call[h].to]]
  /\ fresh' = [fresh EXCEPT ![h] = {call[h].to}]
  /\ GoTo(h, "write")
  /\ UNCHANGED <<db, slock, scan, call, seenFrom>>

(* The status is not tested again: a row that another verification has      *)
(* completed since is credited once more.                                   *)
CommitDeposit(h) ==
  /\ pc[h] = "write"
  /\ call[h].kind = "deposit"
  /\ CanWriteRows(h)
  /\ FitsColumn(h)
  /\ Commit(h)
  /\ deposits' = [deposits EXCEPT ![call[h].of] = "COMPLETED"]
  /\ UNCHANGED rows

AbortCredit(h) ==
  /\ pc[h] = "write"
  /\ call[h].kind \in {"deposit", "reversal"}
  /\ ~FitsColumn(h)
  /\ Rollback(h)

-----------------------------------------------------------------------------
(* verifyWithdrawal on a FAILED payout, with handleWalletReversal *)

CallReversal(h) ==
  /\ pc[h] = "idle"
  /\ \E g \in Handlers :
       /\ rows[g] = "PENDING"
       /\ call' = [call EXCEPT ![h] =
            [kind |-> "reversal", from |-> Nobody, to |-> call[g].from,
             amount |-> call[g].amount, of |-> g]]
  /\ GoTo(h, "lockRow")
  /\ UNCHANGED <<db, locks, seen>>

(* findOne(external_reference, forUpdate) waits for every uncommitted row   *)
(* of transactions; the status is that of the locked row.                   *)
CanScan == scan = Nobody /\ \A g \in Handlers : pc[g] # "debit"

(* Mutant of LockRow: the status is not tested again under the lock. *)
LockRowUntested(h) ==
  /\ pc[h] = "lockRow"
  /\ CanScan
  /\ scan' = h
  /\ GoTo(h, "lockWallet")
  /\ UNCHANGED <<db, xlock, slock, call, seen>>

LockRow(h) ==
  /\ pc[h] = "lockRow"
  /\ CanScan
  /\ rows[call[h].of] = "PENDING"
  /\ scan' = h
  /\ GoTo(h, "lockWallet")
  /\ UNCHANGED <<db, xlock, slock, call, seen>>

AlreadySettled(h) ==
  /\ pc[h] = "lockRow"
  /\ CanScan
  /\ rows[call[h].of] # "PENDING"
  /\ GoTo(h, "skipped")
  /\ UNCHANGED <<db, locks, call, seen>>

CommitReversal(h) ==
  /\ pc[h] = "write"
  /\ call[h].kind = "reversal"
  /\ FitsColumn(h)
  /\ Commit(h)
  /\ rows' = [rows EXCEPT ![call[h].of] = "FAILED"]
  /\ UNCHANGED deposits

-----------------------------------------------------------------------------
(* InnoDB *)

(* The wallet row whose lock the next statement of h needs. *)
Wanted(h) ==
  CASE pc[h] \in {"lockFrom", "insert", "debit"} -> call[h].from
    [] pc[h] \in {"lockTo", "lockWallet"} -> call[h].to
    [] OTHER -> Nobody

WaitsForWallet(h, g) ==
  \E w \in Wallets :
    /\ w = Wanted(h)
    /\ xlock[w] = g \/ (pc[h] # "insert" /\ g \in slock[w])

WaitsForRows(h, g) ==
  \/ pc[h] \in {"insert", "write", "lockRow"} /\ scan = g
  \/ pc[h] = "lockRow" /\ pc[g] = "debit"

WaitsFor(h, g) == h # g /\ (WaitsForWallet(h, g) \/ WaitsForRows(h, g))

Knot(S) == S # {} /\ \A h \in S : \E g \in S : WaitsFor(h, g)

(* The detector rolls back one transaction of a cycle of waits. *)
DeadlockVictim(h) ==
  /\ \E S \in SUBSET Handlers :
       /\ h \in S
       /\ Knot(S)
       /\ \A T \in SUBSET S : Knot(T) => T = S
  /\ Rollback(h)

(* A statement may fail at any point: lock wait timeout, lost connection,   *)
(* or the end of the process; the database rolls the transaction back.      *)
StatementFails(h) == pc[h] \in InTrx \cup {"readTo"} /\ Rollback(h)

-----------------------------------------------------------------------------
Step(h) ==
  \/ ReadTo(h) \/ RefuseTransfer(h) \/ LockFrom(h) \/ LockTo(h)
  \/ CommitTransfer(h) \/ AbortTransfer(h)
  \/ PayoutOrdered(h) \/ PayoutRefused(h) \/ InsertWithdrawal(h)
  \/ CommitWithdrawal(h) \/ AbortWithdrawal(h)
  \/ LockWallet(h) \/ CommitDeposit(h) \/ AbortCredit(h)
  \/ LockRow(h) \/ AlreadySettled(h) \/ CommitReversal(h)

Arrive(h) ==
  CallTransfer(h) \/ CallWithdrawal(h) \/ CallDeposit(h) \/ CallReversal(h)

(* Every call has returned: nothing is left to do. *)
Terminating == (\A h \in Handlers : pc[h] \in Ended) /\ UNCHANGED vars

Next ==
  \/ \E h \in Handlers :
       Arrive(h) \/ Step(h) \/ DeadlockVictim(h) \/ StatementFails(h)
  \/ Terminating

Spec == Init /\ [][Next]_vars

(* The event loop resumes an await whose result is there, and the deadlock  *)
(* detector runs; no call has to arrive and no statement has to fail.       *)
Fairness ==
  \A h \in Handlers : WF_vars(Step(h)) /\ WF_vars(DeadlockVictim(h))

FairSpec == Spec /\ Fairness

-----------------------------------------------------------------------------
(* Properties *)

(* The calls that have credited the DEPOSIT row p.                          *)
Creditors(p) ==
  {h \in Handlers : call[h].kind = "deposit" /\ call[h].of = p /\ pc[h] = "done"}

CreditedTwice(w) ==
  \E p \in Payments :
    /\ Funding[p].wallet = w
    /\ \E h1, h2 \in Creditors(p) : h1 # h2

(* An update is lost only by a write from a stale Wallet object, and money  *)
(* without a row comes only from a DEPOSIT row two verifications credited:  *)
(* a wallet no commit ever overwrote from a stale read holds at least the   *)
(* net of its rows in the transactions table, and exactly that unless one   *)
(* of its deposits was credited twice, whatever interleaved.                *)
AuditUnlessLost ==
  \A w \in Wallets : ~lost[w] =>
    /\ balance[w] >= audit[w]
    /\ CreditedTwice(w) \/ balance[w] = audit[w]

(* README.md:520, "Real-time balance validation prevents overdrafts", with  *)
(* README.md:544, "Database row locking for concurrent transaction safety": *)
(* what was taken out of a wallet never exceeds what was put in.            *)
NoOverdraft == \A w \in Wallets : audit[w] >= 0

(* verifyFundingPayment and handleWalletReversal credit the row they locked: *)
(* between that read and their commit nobody can overwrite the wallet, not  *)
(* even a withdrawal, which never locks the row with a read.                *)
CreditReadsAreFresh ==
  \A h \in Handlers :
    pc[h] = "write" /\ call[h].kind \in {"deposit", "reversal"}
      => /\ call[h].to \in fresh[h]
         /\ seenTo[h] = balance[call[h].to]

(* verifyWithdrawal tests the status under the row lock: the row of a       *)
(* withdrawal is FAILED exactly when one call has put the money back, and   *)
(* never have two, however many webhooks and jobs reverse it at once.       *)
Reversers(g) ==
  {h \in Handlers : call[h].kind = "reversal" /\ call[h].of = g /\ pc[h] = "done"}

ReversedOnce ==
  \A g \in Handlers :
    /\ rows[g] = "FAILED" <=> Reversers(g) # {}
    /\ \A h1, h2 \in Reversers(g) : h1 = h2

(* Each call is one entry of the Ledger, posted when it commits: the two    *)
(* sides of a transfer appear together, an aborted call leaves nothing, and *)
(* balance and history move alike except where an update has been lost; a   *)
(* deposit credited twice adds its amount once more and no entry.           *)
Tainted == [w \in Wallets |-> lost[w] \/ CreditedTwice(w)]

Abstract ==
  INSTANCE Ledger WITH bal <- balance, hist <- audit, tainted <- Tainted

ImplementsLedger == Abstract!Spec

(* Opposite transfers, two withdrawals that both hold the foreign key's     *)
(* shared lock, a transfer and a reversal that hold each other's rows: they *)
(* wait for each other, and still every call returns.                       *)
EveryCallEnds ==
  \A h \in Handlers : pc[h] # "idle" ~> pc[h] \in Ended
=============================================================================
