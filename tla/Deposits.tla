------------------------------ MODULE Deposits ------------------------------
(***************************************************************************)
(* A deposit from the request to the credit: WalletService.fundWallet      *)
(* opens a checkout at the gateway, writes the DEPOSIT row and adds a job; *)
(* WalletService.verifyFundingPayment credits the wallet, called by the    *)
(* job's processor, by the gateway's webhook and by the client             *)
(* (PATCH /wallet/fund), possibly at the same time.                        *)
(*                                                                         *)
(* A verification is one call of verifyFundingPayment: the one of the job  *)
(* of a payment, or the one of a caller (a webhook or a client).  The      *)
(* payments are those of one wallet.  The balance is left to WalletLedger; *)
(* here a credit is counted.                                               *)
(*                                                                         *)
(* Not in this code: the checkout at the gateway, MySQL's lock on the      *)
(* wallet row, BullMQ (module Jobs).                                       *)
(***************************************************************************)
EXTENDS Naturals, FiniteSets, Jobs

CONSTANTS
  Payments,     \* calls of fundWallet
  Callers,      \* webhook deliveries and client calls
  MaxAttempts,  \* attempts given to a job (10 in the code)
  MaxCrashes,   \* crashes of the process in a behaviour
  Nobody        \* no lock holder, no subject

Verifications == Payments \cup Callers

ASSUME DepositAssumption ==
  /\ Payments \cap Callers = {}
  /\ IsFiniteSet(Callers)
  /\ Nobody \notin Verifications
  /\ MaxAttempts \in Nat \ {0}
  /\ MaxCrashes \in Nat

VARIABLES
  checkout,  \* the charge at the gateway; "mismatch": other amount or currency
  row,       \* status of the DEPOSIT row, as committed
  credits,   \* credits of the wallet for the payment, as committed
  fpc,       \* the await fundWallet is at
  job,       \* the VerifyDeposit job of the payment
  about,     \* the payment a verification looks up
  vpc,       \* the await verifyFundingPayment is at
  wlock,     \* holder of the lock on the wallet row
  crashes

book   == <<checkout, row, credits>>
fund   == <<fpc, job>>
verify == <<about, vpc, wlock>>
vars   == <<book, fund, verify, crashes>>

TypeOK ==
  /\ checkout \in [Payments -> {"none", "open", "paid", "mismatch", "failed"}]
  /\ row      \in [Payments -> {"none", "PENDING", "COMPLETED", "FAILED"}]
  /\ credits  \in [Payments -> Nat]
  /\ fpc      \in [Payments -> {"initiate", "insert", "enqueue", "ok", "failed"}]
  /\ job      \in [Payments -> JobType(MaxAttempts)]
  /\ about    \in [Verifications -> Payments \cup {Nobody}]
  /\ vpc      \in [Verifications -> {"idle", "read", "fetch", "fail", "lock",
                                     "credit", "report", "end"}]
  /\ wlock    \in Verifications \cup {Nobody}
  /\ crashes  \in 0..MaxCrashes

Init ==
  /\ checkout = [p \in Payments |-> "none"]
  /\ row      = [p \in Payments |-> "none"]
  /\ credits  = [p \in Payments |-> 0]
  /\ fpc      = [p \in Payments |-> "initiate"]
  /\ job      = [p \in Payments |-> NoJob]
  /\ about    = [v \in Verifications |-> IF v \in Payments THEN v ELSE Nobody]
  /\ vpc      = [v \in Verifications |-> "idle"]
  /\ wlock    = Nobody
  /\ crashes  = 0

-----------------------------------------------------------------------------
(* fundWallet *)

(* A throw at any await; the checkout may have been opened without an       *)
(* answer, and nobody is given its link.                                    *)
FundFails(p) ==
  /\ fpc[p] \in {"initiate", "insert", "enqueue"}
  /\ fpc' = [fpc EXCEPT ![p] = "failed"]
  /\ UNCHANGED <<book, job, verify, crashes>>

InitiatePayment(p) ==
  /\ fpc[p] = "initiate"
  /\ checkout' = [checkout EXCEPT ![p] = "open"]
  /\ fpc' = [fpc EXCEPT ![p] = "insert"]
  /\ UNCHANGED <<row, credits, job, verify, crashes>>

InsertRow(p) ==
  /\ fpc[p] = "insert"
  /\ row' = [row EXCEPT ![p] = "PENDING"]
  /\ fpc' = [fpc EXCEPT ![p] = "enqueue"]
  /\ UNCHANGED <<checkout, credits, job, verify, crashes>>

Enqueue(p) ==
  /\ fpc[p] = "enqueue"
  /\ job' = [job EXCEPT ![p] = Added(MaxAttempts)]
  /\ fpc' = [fpc EXCEPT ![p] = "ok"]
  /\ UNCHANGED <<book, verify, crashes>>

-----------------------------------------------------------------------------
(* The user pays, with the link fundWallet returned; somebody asks. *)

Pay(p) ==
  /\ fpc[p] = "ok"
  /\ checkout[p] = "open"
  /\ \E o \in {"paid", "mismatch", "failed"} :
       checkout' = [checkout EXCEPT ![p] = o]
  /\ UNCHANGED <<row, credits, fund, verify, crashes>>

(* webhookHandler on charge.completed, or PATCH /wallet/fund. *)
Ask(v) ==
  /\ v \in Callers
  /\ vpc[v] = "idle"
  /\ \E p \in Payments :
       /\ checkout[p] # "none"
       /\ about' = [about EXCEPT ![v] = p]
  /\ vpc' = [vpc EXCEPT ![v] = "read"]
  /\ UNCHANGED <<book, fund, wlock, crashes>>

(* TransactionsProcessor.process and TransactionsService.verifyFunding. *)
StartJob(v) ==
  /\ v \in Payments
  /\ job[v].state = "waiting"
  /\ job' = [job EXCEPT ![v] = Started(@)]
  /\ vpc' = [vpc EXCEPT ![v] = "read"]
  /\ UNCHANGED <<book, fpc, about, wlock, crashes>>

-----------------------------------------------------------------------------
(* verifyFundingPayment *)

(* Mutant of Unlock: the transaction is neither committed nor rolled back.   *)
UnlockForgotten(v) == wlock' = wlock

Unlock(v) == wlock' = IF wlock = v THEN Nobody ELSE wlock

At(v, point) == vpc' = [vpc EXCEPT ![v] = point]

(* The promise rejects. *)
Reject(v) ==
  /\ Unlock(v)
  /\ IF v \in Payments
       THEN job' = [job EXCEPT ![v] = Threw(@)] /\ At(v, "idle")
       ELSE At(v, "end") /\ UNCHANGED job
  /\ UNCHANGED <<book, fpc, about, crashes>>

(* The row is read without a lock, and what it says is acted on later. *)
ReadPending(v) ==
  /\ vpc[v] = "read"
  /\ row[about[v]] = "PENDING"
  /\ At(v, "fetch")
  /\ UNCHANGED <<book, fund, about, wlock, crashes>>

(* Mutant of ReadSettled: a row that is COMPLETED is verified again. *)
ReadFailedOnly(v) ==
  /\ vpc[v] = "read"
  /\ \/ row[about[v]] = "FAILED" /\ At(v, "report")
     \/ row[about[v]] = "COMPLETED" /\ At(v, "fetch")
  /\ UNCHANGED <<book, fund, about, wlock, crashes>>

(* COMPLETED: "transaction already verified".  FAILED: an error, returned   *)
(* or, to a client, thrown.                                                 *)
ReadSettled(v) ==
  /\ vpc[v] = "read"
  /\ row[about[v]] \in {"COMPLETED", "FAILED"}
  /\ At(v, "report")
  /\ UNCHANGED <<book, fund, about, wlock, crashes>>

ReadNothing(v) ==
  /\ vpc[v] = "read"
  /\ row[about[v]] = "none"
  /\ Reject(v)

(* Mutant of FetchFinal: what is not successful yet counts as failed.        *)
FetchOpenAsFailed(v) ==
  /\ vpc[v] = "fetch"
  /\ \/ checkout[about[v]] \in {"open", "failed"} /\ At(v, "fail")
     \/ checkout[about[v]] = "paid" /\ At(v, "lock")
  /\ UNCHANGED <<book, fund, about, wlock, crashes>>

(* verifyTransactionBySystemRef. *)
FetchFinal(v) ==
  /\ vpc[v] = "fetch"
  /\ \/ checkout[about[v]] = "failed" /\ At(v, "fail")
     \/ checkout[about[v]] = "paid" /\ At(v, "lock")
  /\ UNCHANGED <<book, fund, about, wlock, crashes>>

(* Mutant of CouldNotVerify: the error is returned instead of thrown.        *)
CouldNotVerifyReturned(v) ==
  /\ vpc[v] = "fetch"
  /\ checkout[about[v]] \in {"open", "mismatch"}
  /\ At(v, "report")
  /\ UNCHANGED <<book, fund, about, wlock, crashes>>

(* Not successful, or not this amount in this currency. *)
CouldNotVerify(v) ==
  /\ vpc[v] = "fetch"
  /\ checkout[about[v]] \in {"open", "mismatch"}
  /\ Reject(v)

(* An UPDATE by id: whatever the status has become meanwhile. *)
MarkFailed(v) ==
  /\ vpc[v] = "fail"
  /\ row' = [row EXCEPT ![about[v]] = "FAILED"]
  /\ At(v, "report")
  /\ UNCHANGED <<checkout, credits, fund, about, wlock, crashes>>

LockWallet(v) ==
  /\ vpc[v] = "lock"
  /\ wlock = Nobody
  /\ wlock' = v
  /\ At(v, "credit")
  /\ UNCHANGED <<book, fund, about, crashes>>

(* Mutant of Credit: the status update is forgotten. *)
CreditWithoutStatus(v) ==
  /\ vpc[v] = "credit"
  /\ credits' = [credits EXCEPT ![about[v]] = @ + 1]
  /\ Unlock(v)
  /\ At(v, "report")
  /\ UNCHANGED <<checkout, row, fund, about, crashes>>

(* depositToWallet and the status, committed together; the status is not    *)
(* looked at again.                                                         *)
Credit(v) ==
  /\ vpc[v] = "credit"
  /\ credits' = [credits EXCEPT ![about[v]] = @ + 1]
  /\ row' = [row EXCEPT ![about[v]] = "COMPLETED"]
  /\ Unlock(v)
  /\ At(v, "report")
  /\ UNCHANGED <<checkout, fund, about, crashes>>

(* The gateway cannot be reached or a statement fails. *)
CallFails(v) ==
  vpc[v] \in {"read", "fetch", "fail", "lock", "credit"} /\ Reject(v)

(* The worker reports the job as completed; the caller is answered. *)
Report(v) ==
  /\ vpc[v] = "report"
  /\ IF v \in Payments
       THEN job' = [job EXCEPT ![v] = Succeeded(@)] /\ At(v, "idle")
       ELSE At(v, "end") /\ UNCHANGED job
  /\ UNCHANGED <<book, fpc, about, wlock, crashes>>

-----------------------------------------------------------------------------
(* The process dies: see Withdrawals. *)
Crash ==
  /\ crashes < MaxCrashes
  /\ crashes' = crashes + 1
  /\ fpc' = [p \in Payments |->
               IF fpc[p] \in {"initiate", "ok"} THEN fpc[p] ELSE "failed"]
  /\ job' = [p \in Payments |->
               IF job[p].state = "active" THEN Stalled(job[p]) ELSE job[p]]
  /\ vpc' = [v \in Verifications |->
               IF v \in Callers /\ vpc[v] # "idle" THEN "end" ELSE "idle"]
  /\ wlock' = Nobody
  /\ UNCHANGED <<book, about>>

FundStep(p) == InitiatePayment(p) \/ InsertRow(p) \/ Enqueue(p)

VerifyStep(v) ==
  \/ StartJob(v)
  \/ ReadPending(v) \/ ReadSettled(v) \/ ReadNothing(v)
  \/ FetchFinal(v) \/ CouldNotVerify(v)
  \/ MarkFailed(v) \/ LockWallet(v) \/ Credit(v)
  \/ Report(v)

(* The requests are answered, the jobs over and the callers answered.       *)
Quiet ==
  /\ \A p \in Payments : fpc[p] \in {"ok", "failed"}
  /\ \A p \in Payments : Over(job[p]) \/ job[p] = NoJob
  /\ \A v \in Verifications : vpc[v] \in {"idle", "end"}
  /\ UNCHANGED vars

Next ==
  \/ \E p \in Payments : FundStep(p) \/ FundFails(p) \/ Pay(p)
  \/ \E v \in Verifications : Ask(v) \/ VerifyStep(v) \/ CallFails(v)
  \/ Crash
  \/ Quiet

Spec == Init /\ [][Next]_vars

(* The event loop runs, the worker takes waiting jobs, and the wallet row   *)
(* is granted to who waits for it.  Nobody has to pay or to ask.            *)
Fairness ==
  /\ \A p \in Payments : WF_vars(FundStep(p))
  /\ \A v \in Verifications : WF_vars(VerifyStep(v))

FairSpec == Spec /\ Fairness

-----------------------------------------------------------------------------
(* Properties *)

(* However many verifications run at once: nothing is credited that was not *)
(* paid in full, a row is COMPLETED exactly when the wallet was credited,   *)
(* and a FAILED row is that of a failed charge.                             *)
CreditsAgree ==
  \A p \in Payments :
    /\ row[p] = "COMPLETED" <=> credits[p] > 0
    /\ row[p] = "COMPLETED" => checkout[p] = "paid"
    /\ row[p] = "FAILED" => checkout[p] = "failed"

(* A settled row keeps its status, though MarkFailed and Credit both write  *)
(* it without looking.                                                      *)
SettledIsFinal ==
  [][\A p \in Payments : row[p] \in {"COMPLETED", "FAILED"} => row'[p] = row[p]]_vars

(* A job recorded as completed leaves no PENDING row.                       *)
DoneMeansSettled ==
  \A p \in Payments : job[p].state = "done" => row[p] \in {"COMPLETED", "FAILED"}

(* "transaction already verified" (wallet.service.ts:188) and README.md:514, *)
(* "Payment verification ensures transaction integrity": a payment is       *)
(* credited once.                                                           *)
CreditedOnce == \A p \in Payments : credits[p] <= 1

(* What is left of that promise: a webhook or a client call credits a       *)
(* payment at most once, and the attempts of its job, however often they    *)
(* throw, stall and start again, at most once between them.                 *)
CreditedOncePerAsker ==
  \A p \in Payments :
    credits[p] <= 1 + Cardinality({c \in Callers : about[c] = p})

(* The contract, see Funding, but for how often a completed payment was     *)
(* credited.                                                                *)
Contract == INSTANCE Funding WITH
  credits <- [p \in Payments |-> IF credits[p] > 0 THEN 1 ELSE 0]

ImplementsFunding == Contract!Spec

(* A payment made in full is credited, or its job has used up its attempts  *)
(* or stalled twice (README.md:564, "Successful payments automatically      *)
(* credit user wallets").                                                   *)
PaidIsCredited ==
  \A p \in Payments :
    checkout[p] = "paid" ~> credits[p] > 0 \/ job[p].state = "failed"
=============================================================================
