---------------------------- MODULE Withdrawals ----------------------------
(***************************************************************************)
(* A withdrawal from the request to its settlement:                        *)
(* WalletService.walletWithdrawal orders the payout at the gateway, writes *)
(* the WITHDRAWAL row and adds a job; TransactionsService.verifyWithdrawal *)
(* settles the row, called by the job's processor and by the gateway's     *)
(* webhook, possibly at the same time.                                     *)
(*                                                                         *)
(* A verification is one call of verifyWithdrawal: the one of the job of a *)
(* request, or the one of a webhook delivery.  The balance is left to      *)
(* WalletLedger; here a debit is accepted or refused.                      *)
(*                                                                         *)
(* Not in this code: the payout gateway, MySQL (row locks as in            *)
(* WalletLedger) and BullMQ (module Jobs).                                 *)
(***************************************************************************)
EXTENDS Naturals, Jobs

CONSTANTS
  Requests,     \* calls of walletWithdrawal
  Hooks,        \* webhook deliveries
  Outcomes,     \* final statuses the gateway may report of a payout
  MaxAttempts,  \* attempts given to a job (10 in the code)
  MaxCrashes,   \* crashes of the process in a behaviour
  Nobody        \* no lock holder, no subject

Verifications == Requests \cup Hooks

ASSUME WithdrawalAssumption ==
  /\ Requests \cap Hooks = {}
  /\ Nobody \notin Verifications
  /\ Outcomes \subseteq {"SUCCESSFUL", "FAILED", "OTHER"}
  /\ MaxAttempts \in Nat \ {0}
  /\ MaxCrashes \in Nat

VARIABLES
  payout,   \* status of the payout at the gateway
  row,      \* status of the WITHDRAWAL row, as committed
  refunds,  \* REFUND rows, each with a credit of the wallet, as committed
  rpc,      \* the await walletWithdrawal is at
  job,      \* the VerifyWithdrawal job of the request
  about,    \* the request whose transfer a verification looks up
  vpc,      \* the await verifyWithdrawal is at
  answer,   \* the status getTransfer returned
  scan,     \* holder of the locks of the FOR UPDATE scan of transactions
  crashes

book    == <<payout, row, refunds>>
request == <<rpc, job>>
verify  == <<about, vpc, answer, scan>>
vars    == <<book, request, verify, crashes>>

Statuses == {"NEW", "SUCCESSFUL", "FAILED", "OTHER"}

TypeOK ==
  /\ payout  \in [Requests -> {"none"} \cup Statuses]
  /\ row     \in [Requests -> {"none", "PENDING", "COMPLETED", "FAILED"}]
  /\ refunds \in [Requests -> Nat]
  /\ rpc     \in [Requests -> {"order", "insert", "debit", "enqueue", "ok", "failed"}]
  /\ job     \in [Requests -> JobType(MaxAttempts)]
  /\ about   \in [Verifications -> Requests \cup {Nobody}]
  /\ vpc     \in [Verifications -> {"idle", "fetch", "lock", "settle", "report", "end"}]
  /\ answer  \in [Verifications -> {"none"} \cup Statuses]
  /\ scan    \in Verifications \cup {Nobody}
  /\ crashes \in 0..MaxCrashes

Init ==
  /\ payout  = [r \in Requests |-> "none"]
  /\ row     = [r \in Requests |-> "none"]
  /\ refunds = [r \in Requests |-> 0]
  /\ rpc     = [r \in Requests |-> "order"]
  /\ job     = [r \in Requests |-> NoJob]
  /\ about   = [v \in Verifications |-> IF v \in Requests THEN v ELSE Nobody]
  /\ vpc     = [v \in Verifications |-> "idle"]
  /\ answer  = [v \in Verifications |-> "none"]
  /\ scan    = Nobody
  /\ crashes = 0

-----------------------------------------------------------------------------
(* walletWithdrawal *)

Return(r, result) == rpc' = [rpc EXCEPT ![r] = result]

(* verifyAccount or initiateTransfer throws: no payout exists. *)
PayoutRefused(r) ==
  /\ rpc[r] = "order"
  /\ Return(r, "failed")
  /\ UNCHANGED <<book, job, verify, crashes>>

PayoutAccepted(r) ==
  /\ rpc[r] = "order"
  /\ payout' = [payout EXCEPT ![r] = "NEW"]
  /\ rpc' = [rpc EXCEPT ![r] = "insert"]
  /\ UNCHANGED <<row, refunds, job, verify, crashes>>

(* The gateway took the order and its answer never came. *)
AnswerLost(r) ==
  /\ rpc[r] = "order"
  /\ payout' = [payout EXCEPT ![r] = "NEW"]
  /\ Return(r, "failed")
  /\ UNCHANGED <<row, refunds, job, verify, crashes>>

(* The row is inserted, not committed: the scans of others wait for it. *)
InsertRow(r) ==
  /\ rpc[r] = "insert"
  /\ scan = Nobody
  /\ rpc' = [rpc EXCEPT ![r] = "debit"]
  /\ UNCHANGED <<book, job, verify, crashes>>

Debit(r) ==
  /\ rpc[r] = "debit"
  /\ row' = [row EXCEPT ![r] = "PENDING"]
  /\ rpc' = [rpc EXCEPT ![r] = "enqueue"]
  /\ UNCHANGED <<payout, refunds, job, verify, crashes>>

(* Insufficient balance, a CHECK, a deadlock or a lost connection: rolled   *)
(* back, with the payout on its way.                                        *)
DebitRefused(r) ==
  /\ rpc[r] \in {"insert", "debit"}
  /\ Return(r, "failed")
  /\ UNCHANGED <<book, job, verify, crashes>>

Enqueue(r) ==
  /\ rpc[r] = "enqueue"
  /\ job' = [job EXCEPT ![r] = Added(MaxAttempts)]
  /\ Return(r, "ok")
  /\ UNCHANGED <<book, verify, crashes>>

EnqueueFails(r) ==
  /\ rpc[r] = "enqueue"
  /\ Return(r, "failed")
  /\ UNCHANGED <<book, job, verify, crashes>>

-----------------------------------------------------------------------------
(* The gateway decides, and tells; the worker takes a job *)

Decide(r) ==
  /\ payout[r] = "NEW"
  /\ \E o \in Outcomes : payout' = [payout EXCEPT ![r] = o]
  /\ UNCHANGED <<row, refunds, request, verify, crashes>>

(* webhookHandler on transfer.completed. *)
DeliverHook(v) ==
  /\ v \in Hooks
  /\ vpc[v] = "idle"
  /\ \E r \in Requests :
       /\ payout[r] \in Outcomes
       /\ about' = [about EXCEPT ![v] = r]
  /\ vpc' = [vpc EXCEPT ![v] = "fetch"]
  /\ UNCHANGED <<book, request, answer, scan, crashes>>

(* TransactionsProcessor.process. *)
StartJob(v) ==
  /\ v \in Requests
  /\ job[v].state = "waiting"
  /\ job' = [job EXCEPT ![v] = Started(@)]
  /\ vpc' = [vpc EXCEPT ![v] = "fetch"]
  /\ UNCHANGED <<book, rpc, about, answer, scan, crashes>>

-----------------------------------------------------------------------------
(* verifyWithdrawal *)

(* Mutant of Unlock: the scan outlives its transaction. *)
UnlockForgotten(v) == UNCHANGED scan

Unlock(v) == scan' = IF scan = v THEN Nobody ELSE scan

(* The promise rejects: the job is tried again while attempts are left; the *)
(* webhook is answered with an error.                                       *)
Reject(v) ==
  /\ Unlock(v)
  /\ IF v \in Requests
       THEN /\ job' = [job EXCEPT ![v] = Threw(@)]
            /\ vpc' = [vpc EXCEPT ![v] = "idle"]
       ELSE /\ vpc' = [vpc EXCEPT ![v] = "end"]
            /\ UNCHANGED job
  /\ UNCHANGED <<book, rpc, about, answer, crashes>>

(* The transaction commits and verifyWithdrawal is about to return. *)
Finish(v) ==
  /\ Unlock(v)
  /\ vpc' = [vpc EXCEPT ![v] = "report"]
  /\ UNCHANGED <<payout, request, about, answer, crashes>>

Fetch(v) ==
  /\ vpc[v] = "fetch"
  /\ answer' = [answer EXCEPT ![v] = payout[about[v]]]
  /\ vpc' = [vpc EXCEPT ![v] = "lock"]
  /\ UNCHANGED <<book, request, about, scan, crashes>>

(* Mutant of LockRow: findOne without forUpdate. *)
ReadRowUnlocked(v) ==
  /\ vpc[v] = "lock"
  /\ row[about[v]] = "PENDING"
  /\ vpc' = [vpc EXCEPT ![v] = "settle"]
  /\ UNCHANGED <<book, request, about, answer, scan, crashes>>

CanScan == scan = Nobody /\ \A r \in Requests : rpc[r] # "debit"

(* findOne looks the row up by its external_reference alone, the identifier *)
(* the gateway gave the transfer: about[v] stands for it, transfers having  *)
(* distinct identifiers, and none of them that of a charge.                 *)
LockRow(v) ==
  /\ vpc[v] = "lock"
  /\ CanScan
  /\ row[about[v]] = "PENDING"
  /\ scan' = v
  /\ vpc' = [vpc EXCEPT ![v] = "settle"]
  /\ UNCHANGED <<book, request, about, answer, crashes>>

(* "Transfer not found": not recorded yet, or never. *)
NotFound(v) ==
  /\ vpc[v] = "lock"
  /\ CanScan
  /\ row[about[v]] = "none"
  /\ Reject(v)

AlreadySettled(v) ==
  /\ vpc[v] = "lock"
  /\ CanScan
  /\ row[about[v]] \in {"COMPLETED", "FAILED"}
  /\ Finish(v)
  /\ UNCHANGED <<row, refunds>>

Complete(v) ==
  /\ vpc[v] = "settle"
  /\ answer[v] = "SUCCESSFUL"
  /\ row' = [row EXCEPT ![about[v]] = "COMPLETED"]
  /\ Finish(v)
  /\ UNCHANGED refunds

(* Mutant of StillPending: it returns instead of throwing. *)
StillPendingReturns(v) ==
  /\ vpc[v] = "settle"
  /\ answer[v] = "NEW"
  /\ Finish(v)
  /\ UNCHANGED <<row, refunds>>

StillPending(v) ==
  /\ vpc[v] = "settle"
  /\ answer[v] = "NEW"
  /\ Reject(v)

(* Mutant of Reverse: a transfer that is still NEW is reversed too. *)
ReverseUnlessSuccessful(v) ==
  /\ vpc[v] = "settle"
  /\ answer[v] # "SUCCESSFUL"
  /\ row' = [row EXCEPT ![about[v]] = "FAILED"]
  /\ refunds' = [refunds EXCEPT ![about[v]] = @ + 1]
  /\ Finish(v)

(* handleWalletReversal: the status, the REFUND row and the credit. *)
Reverse(v) ==
  /\ vpc[v] = "settle"
  /\ answer[v] = "FAILED"
  /\ row' = [row EXCEPT ![about[v]] = "FAILED"]
  /\ refunds' = [refunds EXCEPT ![about[v]] = @ + 1]
  /\ Finish(v)

(* A status the code does not list: nothing is done and nothing is thrown. *)
Ignored(v) ==
  /\ vpc[v] = "settle"
  /\ answer[v] = "OTHER"
  /\ Finish(v)
  /\ UNCHANGED <<row, refunds>>

(* getTransfer throws, or a statement fails: lock wait timeout, deadlock,   *)
(* lost connection.                                                         *)
CallFails(v) == vpc[v] \in {"fetch", "lock", "settle"} /\ Reject(v)

(* The worker reports the job as completed; the webhook is answered. *)
Report(v) ==
  /\ vpc[v] = "report"
  /\ IF v \in Requests
       THEN /\ job' = [job EXCEPT ![v] = Succeeded(@)]
            /\ vpc' = [vpc EXCEPT ![v] = "idle"]
       ELSE /\ vpc' = [vpc EXCEPT ![v] = "end"]
            /\ UNCHANGED job
  /\ UNCHANGED <<book, rpc, about, answer, scan, crashes>>

-----------------------------------------------------------------------------
(* The process dies: transactions roll back, requests are lost, deliveries  *)
(* are answered by nobody, and the active jobs have stalled.  A request     *)
(* that has not ordered its payout is lost, as if refused, or comes later.  *)
Crash ==
  /\ crashes < MaxCrashes
  /\ crashes' = crashes + 1
  /\ rpc' = [r \in Requests |->
               IF rpc[r] \in {"order", "ok"} THEN rpc[r] ELSE "failed"]
  /\ job' = [r \in Requests |->
               IF job[r].state = "active" THEN Stalled(job[r]) ELSE job[r]]
  /\ vpc' = [v \in Verifications |->
               IF v \in Hooks /\ vpc[v] # "idle" THEN "end" ELSE "idle"]
  /\ scan' = Nobody
  /\ UNCHANGED <<book, about, answer>>

RequestStep(r) ==
  \/ PayoutRefused(r) \/ PayoutAccepted(r) \/ AnswerLost(r)
  \/ InsertRow(r) \/ Debit(r) \/ DebitRefused(r)
  \/ Enqueue(r) \/ EnqueueFails(r)

VerifyStep(v) ==
  \/ StartJob(v) \/ Fetch(v)
  \/ LockRow(v) \/ NotFound(v) \/ AlreadySettled(v)
  \/ Complete(v) \/ StillPending(v) \/ Reverse(v) \/ Ignored(v)
  \/ Report(v)

(* The requests are answered, the jobs over and the deliveries answered.    *)
Quiet ==
  /\ \A r \in Requests : rpc[r] \in {"ok", "failed"} /\ payout[r] # "NEW"
  /\ \A r \in Requests : Over(job[r]) \/ job[r] = NoJob
  /\ \A v \in Verifications : vpc[v] \in {"idle", "end"}
  /\ UNCHANGED vars

Next ==
  \/ \E r \in Requests : RequestStep(r) \/ Decide(r)
  \/ \E v \in Verifications : DeliverHook(v) \/ VerifyStep(v) \/ CallFails(v)
  \/ Crash
  \/ Quiet

Spec == Init /\ [][Next]_vars

(* The event loop runs and the worker takes waiting jobs; a lock that is    *)
(* released is granted to who waits for it.  The gateway need not decide,   *)
(* no webhook need arrive and no call need fail.                            *)
Fairness ==
  /\ \A r \in Requests : WF_vars(RequestStep(r))
  /\ \A v \in Verifications : WF_vars(VerifyStep(v))

FairSpec == Spec /\ Fairness

(* The gateway moreover delivers the webhooks it owes, the process stays up *)
(* and no call of a webhook's verification fails.                           *)
HookedNext ==
  \/ \E r \in Requests : RequestStep(r) \/ Decide(r) \/ CallFails(r)
  \/ \E v \in Verifications : DeliverHook(v) \/ VerifyStep(v)
  \/ Quiet

HookedSpec ==
  /\ Init /\ [][HookedNext]_vars /\ Fairness
  /\ \A v \in Hooks : WF_vars(DeliverHook(v))

-----------------------------------------------------------------------------
(* Properties *)

(* The bank's verdict and the row never disagree, and the money comes back  *)
(* once if the payout failed and never otherwise, whichever of the job, its *)
(* retries and the webhooks settle the row, in whatever order and number.   *)
RefundedAsSettled ==
  \A r \in Requests :
    /\ refunds[r] = IF row[r] = "FAILED" THEN 1 ELSE 0
    /\ row[r] = "FAILED" => payout[r] = "FAILED"
    /\ row[r] = "COMPLETED" => payout[r] = "SUCCESSFUL"

(* The job of r has made its last run and left the row as it was: its       *)
(* attempts were used up, its worker was lost twice, or the payout is in a  *)
(* status verifyWithdrawal does not list.                                   *)
GivenUp(r) ==
  \/ job[r].state = "failed" /\ (job[r].left = 0 \/ job[r].stalls = 1)
  \/ job[r].state = "done" /\ payout[r] = "OTHER"

(* A withdrawal that is taken from the wallet and not settled is on its way *)
(* or lost for a reason the caller or the queue can tell: the request has   *)
(* yet to add the job, it failed before the job was added, the job has runs *)
(* to come, or it has given up.  And no job runs ahead of its row.          *)
PendingHasACause ==
  \A r \in Requests :
    /\ job[r].state # "none" => row[r] # "none"
    /\ row[r] = "PENDING" =>
         \/ rpc[r] = "enqueue"
         \/ rpc[r] = "failed" /\ job[r].state = "none"
         \/ job[r].state \in {"waiting", "active"}
         \/ GivenUp(r)

(* The contract: see Settlement. *)
Contract == INSTANCE Settlement

ImplementsSettlement == Contract!Spec

(* Every job comes to its end, with the row settled, the attempts used up,  *)
(* or a payout in a status nobody handles.                                  *)
JobsEnd ==
  \A r \in Requests :
    job[r].state = "waiting" ~>
      \/ row[r] \in {"COMPLETED", "FAILED"}
      \/ job[r].state = "failed"
      \/ payout[r] = "OTHER"

(* README.md:13, "Complete audit trail of all financial operations": a      *)
(* payout whose request is over is in the transactions table.               *)
PayoutsAreRecorded ==
  \A r \in Requests :
    rpc[r] \in {"ok", "failed"} /\ payout[r] # "none" => row[r] # "none"

(* README.md:527, "Automatic reversal handling for failed transactions": a  *)
(* recorded withdrawal whose payout failed is reversed, given a webhook.    *)
FailedPayoutsAreReversed ==
  \A r \in Requests :
    payout[r] = "FAILED" /\ row[r] = "PENDING" ~> row[r] = "FAILED"
=============================================================================
