------------------------- MODULE WithdrawalsProofs -------------------------
(***************************************************************************)
(* Withdrawals, for every number of requests, webhooks, attempts and       *)
(* crashes: types, the agreement of row, payout and refund, the causes a   *)
(* PENDING row may have, and the refinement of Settlement.                 *)
(***************************************************************************)
EXTENDS Withdrawals, JobsProofs, TLAPS

(* A request orders, then writes its row, then adds its job. *)
RequestInv ==
  \A r \in Requests :
    /\ rpc[r] = "order" => payout[r] = "none" /\ row[r] = "none"
    /\ rpc[r] \in {"insert", "debit"} => payout[r] # "none" /\ row[r] = "none"
    /\ rpc[r] = "enqueue" => row[r] # "none"
    /\ rpc[r] = "ok" => job[r].state # "none"
    /\ job[r].state # "none" => rpc[r] = "ok" /\ row[r] # "none"
    /\ row[r] # "none" => payout[r] # "none"

(* A job is active while its processor runs, and has an attempt to use up;  *)
(* a verification in progress is about a payout that exists.                *)
JobInv ==
  /\ \A r \in Requests :
       /\ about[r] = r
       /\ vpc[r] # "end"
       /\ job[r].state = "active" <=> vpc[r] # "idle"
       /\ job[r].state \in {"waiting", "active"} => job[r].left > 0
  /\ \A v \in Verifications :
       vpc[v] \notin {"idle", "end"} =>
         about[v] \in Requests /\ payout[about[v]] # "none"

(* The scan's locks keep the row of a verification PENDING until it has     *)
(* settled it; a final answer stays true.                                   *)
VerifyInv ==
  \A v \in Verifications :
    /\ vpc[v] = "settle" => scan = v /\ row[about[v]] = "PENDING"
    /\ vpc[v] \in {"lock", "settle"} =>
         answer[v] \in Statuses /\ answer[v] \in {"NEW", payout[about[v]]}
    /\ vpc[v] = "report" =>
         row[about[v]] \in {"COMPLETED", "FAILED"} \/ payout[about[v]] = "OTHER"

(* How a job ends: with the row settled, or given up.                       *)
RunsOver ==
  \A r \in Requests :
    /\ job[r].state = "done" =>
         row[r] \in {"COMPLETED", "FAILED"} \/ payout[r] = "OTHER"
    /\ job[r].state = "failed" => job[r].left = 0 \/ job[r].stalls = 1

IInv ==
  /\ TypeOK /\ RequestInv /\ JobInv /\ VerifyInv
  /\ RefundedAsSettled /\ RunsOver

(* What a verification leaves alone when it only gives its locks back.      *)
LEMMA RejectKeeps ==
  ASSUME IInv, NEW v \in Verifications, Reject(v),
         vpc[v] \in {"fetch", "lock", "settle"}
  PROVE  IInv'
<1> USE DEF book
<1>1. \A u \in Verifications \ {v} : vpc'[u] = vpc[u]
  BY DEF Reject, IInv, TypeOK
<1>2. vpc'[v] = (IF v \in Requests THEN "idle" ELSE "end")
  BY DEF Reject, IInv, TypeOK
<1>3. \A r \in Requests : r # v => job'[r] = job[r]
  BY DEF Reject, IInv, TypeOK
<1>4. v \in Requests =>
        /\ job'[v] = Threw(job[v]) /\ job[v].state = "active"
        /\ job[v] \in JobType(MaxAttempts) /\ job[v].left > 0
  BY DEF Reject, IInv, TypeOK, JobInv
<1>5. v \in Requests =>
        /\ job'[v] \in JobType(MaxAttempts)
        /\ job'[v].state \in {"waiting", "failed"}
        /\ job'[v].state = "waiting" => job'[v].left > 0
        /\ job'[v].state = "failed" => job'[v].left = 0
  BY <1>4, ThrewType, WithdrawalAssumption
<1>6. TypeOK'
  <2>1. job' \in [Requests -> JobType(MaxAttempts)]
    <3>1. CASE v \in Requests
      BY <3>1, <1>5 DEF Reject, IInv, TypeOK
    <3>2. CASE v \notin Requests
      BY <3>2 DEF Reject, IInv, TypeOK
    <3> QED
      BY <3>1, <3>2
  <2>2. vpc' \in [Verifications -> {"idle", "fetch", "lock", "settle", "report", "end"}]
    BY DEF Reject, IInv, TypeOK
  <2> QED
    BY <2>1, <2>2 DEF Reject, Unlock, IInv, TypeOK
<1>7. RequestInv'
  BY <1>3, <1>4, <1>5 DEF Reject, IInv, RequestInv
<1>8. JobInv'
  BY <1>1, <1>2, <1>3, <1>5 DEF Reject, IInv, JobInv, Verifications
<1>9. VerifyInv'
  BY <1>1, <1>2 DEF Reject, Unlock, IInv, VerifyInv
<1>10. RefundedAsSettled' /\ RunsOver'
  BY <1>3, <1>5 DEF Reject, IInv, RefundedAsSettled, RunsOver
<1> QED
  BY <1>6, <1>7, <1>8, <1>9, <1>10 DEF IInv

(* A verification that commits keeps the invariant if what it wrote agrees. *)
LEMMA FinishKeeps ==
  ASSUME IInv, NEW v \in Verifications, Finish(v),
         vpc[v] \in {"lock", "settle"},
         row' \in [Requests -> {"none", "PENDING", "COMPLETED", "FAILED"}],
         refunds' \in [Requests -> Nat],
         RefundedAsSettled',
         \A r \in Requests : r # about[v] => row'[r] = row[r],
         row[about[v]] # "none" /\ row'[about[v]] # "none",
         \/ row'[about[v]] \in {"COMPLETED", "FAILED"}
         \/ payout[about[v]] = "OTHER" /\ row'[about[v]] = row[about[v]],
         \/ row'[about[v]] = row[about[v]]
         \/ scan = v /\ row[about[v]] = "PENDING"
  PROVE  IInv'
<1> USE DEF request
<1>1. /\ vpc' = [vpc EXCEPT ![v] = "report"]
      /\ UNCHANGED <<payout, rpc, job, about, answer, crashes>>
  BY DEF Finish
<1>2. \A u \in Verifications \ {v} : vpc'[u] = vpc[u]
  BY <1>1 DEF IInv, TypeOK
<1>3. vpc'[v] = "report" /\ about[v] \in Requests
  BY <1>1 DEF IInv, TypeOK, JobInv
<1>4. TypeOK'
  BY <1>1 DEF Finish, Unlock, IInv, TypeOK
<1>5. RequestInv'
  BY <1>1, <1>3 DEF IInv, RequestInv
<1>6. JobInv'
  BY <1>1, <1>2, <1>3 DEF IInv, JobInv, Verifications
<1>7. VerifyInv'
  <2> SUFFICES ASSUME NEW u \in Verifications
               PROVE  /\ vpc'[u] = "settle" => scan' = u /\ row'[about[u]] = "PENDING"
                      /\ vpc'[u] \in {"lock", "settle"} =>
                           answer[u] \in Statuses /\ answer[u] \in {"NEW", payout[about[u]]}
                      /\ vpc'[u] = "report" =>
                           \/ row'[about[u]] \in {"COMPLETED", "FAILED"}
                           \/ payout[about[u]] = "OTHER"
    BY <1>1 DEF VerifyInv
  <2>1. CASE u = v
    BY <1>3, <2>1
  <2>2. CASE u # v
    <3>1. vpc[u] = "settle" => scan = u /\ scan' = u /\ row'[about[u]] = "PENDING"
      BY <1>2, <2>2 DEF Finish, Unlock, IInv, VerifyInv, JobInv
    <3>2. vpc[u] = "report" =>
            \/ row'[about[u]] \in {"COMPLETED", "FAILED"}
            \/ payout[about[u]] = "OTHER"
      BY <2>2 DEF IInv, VerifyInv, JobInv
    <3> QED
      BY <1>2, <2>2, <3>1, <3>2 DEF IInv, VerifyInv
  <2> QED
    BY <2>1, <2>2
<1>8. RunsOver'
  BY <1>1 DEF IInv, RunsOver
<1> QED
  BY <1>4, <1>5, <1>6, <1>7, <1>8 DEF IInv

(* Every step keeps the invariant. *)
LEMMA IInvStep == IInv /\ [Next]_vars => IInv'
<1> SUFFICES ASSUME IInv, [Next]_vars PROVE IInv'
  OBVIOUS
<1> USE DEF book, request, verify, Return
<1>a. /\ payout \in [Requests -> {"none"} \cup Statuses]
      /\ row \in [Requests -> {"none", "PENDING", "COMPLETED", "FAILED"}]
      /\ refunds \in [Requests -> Nat]
      /\ job \in [Requests -> JobType(MaxAttempts)]
      /\ DOMAIN rpc = Requests /\ DOMAIN vpc = Verifications
  BY DEF IInv, TypeOK
<1>1. ASSUME NEW r \in Requests,
             PayoutRefused(r) \/ InsertRow(r) \/ DebitRefused(r) \/ EnqueueFails(r)
      PROVE  IInv'
  <2>1. /\ UNCHANGED <<book, job, verify, crashes>>
        /\ rpc' = [rpc EXCEPT ![r] = rpc'[r]]
        /\ rpc'[r] \in {"debit", "failed"}
        /\ rpc'[r] = "debit" => rpc[r] = "insert"
        /\ rpc[r] # "ok"
    BY <1>1, <1>a DEF PayoutRefused, InsertRow, DebitRefused, EnqueueFails
  <2>2. TypeOK' /\ RequestInv'
    BY <2>1, <1>a DEF IInv, TypeOK, RequestInv
  <2>3. JobInv' /\ VerifyInv' /\ RefundedAsSettled' /\ RunsOver'
    BY <2>1 DEF IInv, JobInv, VerifyInv, RefundedAsSettled, RunsOver
  <2> QED
    BY <2>2, <2>3 DEF IInv
<1>2. ASSUME NEW r \in Requests, PayoutAccepted(r) \/ AnswerLost(r) PROVE IInv'
  <2>1. /\ payout' = [payout EXCEPT ![r] = "NEW"]
        /\ rpc' = [rpc EXCEPT ![r] = rpc'[r]] /\ rpc'[r] \in {"insert", "failed"}
        /\ rpc[r] = "order"
        /\ UNCHANGED <<row, refunds, job, verify, crashes>>
    BY <1>2, <1>a DEF PayoutAccepted, AnswerLost
  <2>2. payout[r] = "none" /\ row[r] = "none"
    BY <2>1 DEF IInv, RequestInv
  <2>3. \A v \in Verifications : vpc[v] \notin {"idle", "end"} => about[v] # r
    BY <2>2 DEF IInv, JobInv
  <2>4. TypeOK' /\ RequestInv'
    BY <2>1, <1>a DEF IInv, TypeOK, RequestInv, Statuses
  <2>5. JobInv' /\ VerifyInv'
    BY <2>1, <2>3, <1>a DEF IInv, JobInv, VerifyInv
  <2>6. RefundedAsSettled' /\ RunsOver'
    BY <2>1, <2>2, <1>a DEF IInv, RefundedAsSettled, RunsOver, RequestInv
  <2> QED
    BY <2>4, <2>5, <2>6 DEF IInv
<1>3. ASSUME NEW r \in Requests, Debit(r) PROVE IInv'
  <2>1. /\ row' = [row EXCEPT ![r] = "PENDING"] /\ rpc' = [rpc EXCEPT ![r] = "enqueue"]
        /\ UNCHANGED <<payout, refunds, job, verify, crashes>>
        /\ row[r] = "none" /\ payout[r] # "none" /\ job[r].state = "none"
    BY <1>3 DEF Debit, IInv, RequestInv
  <2>2. TypeOK' /\ RequestInv' /\ JobInv'
    BY <2>1, <1>a DEF IInv, TypeOK, RequestInv, JobInv
  <2>3. VerifyInv'
    BY <2>1, <1>a DEF IInv, VerifyInv, JobInv
  <2>4. RefundedAsSettled' /\ RunsOver'
    BY <2>1, <1>a DEF IInv, RefundedAsSettled, RunsOver
  <2> QED
    BY <2>2, <2>3, <2>4 DEF IInv
<1>4. ASSUME NEW r \in Requests, Enqueue(r) PROVE IInv'
  <2>1. /\ job' = [job EXCEPT ![r] = Added(MaxAttempts)]
        /\ rpc' = [rpc EXCEPT ![r] = "ok"]
        /\ UNCHANGED <<book, verify, crashes>> /\ row[r] # "none"
    BY <1>4 DEF Enqueue, IInv, RequestInv
  <2>2. /\ Added(MaxAttempts) \in JobType(MaxAttempts)
        /\ Added(MaxAttempts).state = "waiting" /\ Added(MaxAttempts).left > 0
    BY WithdrawalAssumption DEF Added, JobType
  <2>3. vpc[r] = "idle"
    <3>1. job[r].state # "active"
      BY <1>4 DEF Enqueue, IInv, RequestInv
    <3> QED
      BY <3>1 DEF IInv, JobInv
  <2>4. TypeOK' /\ RequestInv' /\ JobInv'
    BY <2>1, <2>2, <2>3, <1>a DEF IInv, TypeOK, RequestInv, JobInv
  <2>5. VerifyInv' /\ RefundedAsSettled' /\ RunsOver'
    BY <2>1, <2>2, <1>a DEF IInv, VerifyInv, RefundedAsSettled, RunsOver
  <2> QED
    BY <2>4, <2>5 DEF IInv
<1>5. ASSUME NEW r \in Requests, Decide(r) PROVE IInv'
  <2>1. PICK o \in Outcomes : payout' = [payout EXCEPT ![r] = o]
    BY <1>5 DEF Decide
  <2>2. /\ payout[r] = "NEW" /\ o \in {"SUCCESSFUL", "FAILED", "OTHER"}
        /\ UNCHANGED <<row, refunds, request, verify, crashes>>
    BY <1>5, WithdrawalAssumption DEF Decide
  <2>3. TypeOK' /\ RequestInv' /\ JobInv'
    BY <2>1, <2>2, <1>a DEF IInv, TypeOK, RequestInv, JobInv, Statuses
  <2>4. VerifyInv'
    BY <2>1, <2>2, <1>a DEF IInv, VerifyInv, JobInv
  <2>5. RefundedAsSettled' /\ RunsOver'
    BY <2>1, <2>2, <1>a DEF IInv, RefundedAsSettled, RunsOver
  <2> QED
    BY <2>3, <2>4, <2>5 DEF IInv
<1>6. ASSUME NEW v \in Verifications, DeliverHook(v) PROVE IInv'
  <2>1. PICK r \in Requests : payout[r] \in Outcomes /\ about' = [about EXCEPT ![v] = r]
    BY <1>6 DEF DeliverHook
  <2>2. /\ v \in Hooks /\ v \notin Requests /\ vpc[v] = "idle" /\ payout[r] # "none"
        /\ vpc' = [vpc EXCEPT ![v] = "fetch"]
        /\ UNCHANGED <<book, request, answer, scan, crashes>>
    BY <1>6, <2>1, WithdrawalAssumption DEF DeliverHook
  <2>3. TypeOK'
    BY <2>1, <2>2 DEF IInv, TypeOK
  <2>4. RequestInv' /\ RefundedAsSettled' /\ RunsOver'
    BY <2>2 DEF IInv, RequestInv, RefundedAsSettled, RunsOver
  <2>5. JobInv' /\ VerifyInv'
    BY <2>1, <2>2, <1>a DEF IInv, TypeOK, JobInv, VerifyInv, Verifications
  <2> QED
    BY <2>3, <2>4, <2>5 DEF IInv
<1>7. ASSUME NEW v \in Verifications, StartJob(v) PROVE IInv'
  <2>1. /\ v \in Requests /\ job[v].state = "waiting"
        /\ job' = [job EXCEPT ![v] = Started(job[v])]
        /\ vpc' = [vpc EXCEPT ![v] = "fetch"]
        /\ UNCHANGED <<book, rpc, about, answer, scan, crashes>>
    BY <1>7 DEF StartJob
  <2>2. /\ Started(job[v]) \in JobType(MaxAttempts)
        /\ Started(job[v]).state = "active" /\ Started(job[v]).left = job[v].left
    BY <2>1, <1>a DEF Started, JobType
  <2>3. TypeOK' /\ RequestInv'
    BY <2>1, <2>2, <1>a DEF IInv, TypeOK, RequestInv
  <2>4. JobInv' /\ VerifyInv'
    BY <2>1, <2>2, <1>a DEF IInv, JobInv, VerifyInv, RequestInv, Verifications
  <2>5. RefundedAsSettled' /\ RunsOver'
    BY <2>1, <2>2, <1>a DEF IInv, RefundedAsSettled, RunsOver
  <2> QED
    BY <2>3, <2>4, <2>5 DEF IInv
<1>8. ASSUME NEW v \in Verifications, Fetch(v) PROVE IInv'
  <2>1. /\ vpc[v] = "fetch" /\ vpc' = [vpc EXCEPT ![v] = "lock"]
        /\ answer' = [answer EXCEPT ![v] = payout[about[v]]]
        /\ UNCHANGED <<book, request, about, scan, crashes>>
        /\ payout[about[v]] \in Statuses
    BY <1>8, <1>a DEF Fetch, IInv, JobInv
  <2>2. TypeOK' /\ RequestInv' /\ RefundedAsSettled' /\ RunsOver'
    BY <2>1 DEF IInv, TypeOK, RequestInv, RefundedAsSettled, RunsOver
  <2>3. JobInv'
    BY <2>1, <1>a DEF IInv, JobInv, Verifications
  <2>4. VerifyInv'
    BY <2>1, <1>a DEF IInv, VerifyInv, TypeOK
  <2> QED
    BY <2>2, <2>3, <2>4 DEF IInv
<1>9. ASSUME NEW v \in Verifications, LockRow(v) PROVE IInv'
  <2>1. /\ vpc[v] = "lock" /\ vpc' = [vpc EXCEPT ![v] = "settle"]
        /\ scan = Nobody /\ scan' = v /\ row[about[v]] = "PENDING"
        /\ UNCHANGED <<book, request, about, answer, crashes>>
    BY <1>9 DEF LockRow, CanScan
  <2>2. TypeOK' /\ RequestInv' /\ RefundedAsSettled' /\ RunsOver'
    BY <2>1 DEF IInv, TypeOK, RequestInv, RefundedAsSettled, RunsOver
  <2>3. JobInv'
    BY <2>1, <1>a DEF IInv, JobInv, Verifications
  <2>4. VerifyInv'
    BY <2>1, <1>a, WithdrawalAssumption DEF IInv, VerifyInv
  <2> QED
    BY <2>2, <2>3, <2>4 DEF IInv
<1>10. ASSUME NEW v \in Verifications, NotFound(v) \/ StillPending(v) \/ CallFails(v)
       PROVE  IInv'
  BY <1>10, RejectKeeps DEF NotFound, StillPending, CallFails
<1>11. ASSUME NEW v \in Verifications, AlreadySettled(v) PROVE IInv'
  <2>1. /\ Finish(v) /\ vpc[v] = "lock" /\ UNCHANGED <<payout, row, refunds>>
        /\ row[about[v]] \in {"COMPLETED", "FAILED"}
    BY <1>11 DEF AlreadySettled, Finish
  <2>2. RefundedAsSettled'
    BY <2>1 DEF IInv, RefundedAsSettled
  <2> QED
    BY <2>1, <2>2, <1>a, FinishKeeps
<1>12. ASSUME NEW v \in Verifications, Ignored(v) PROVE IInv'
  <2>1. /\ Finish(v) /\ vpc[v] = "settle" /\ UNCHANGED <<payout, row, refunds>>
        /\ payout[about[v]] = "OTHER" /\ row[about[v]] = "PENDING"
    BY <1>12 DEF Ignored, Finish, IInv, VerifyInv
  <2>2. RefundedAsSettled'
    BY <2>1 DEF IInv, RefundedAsSettled
  <2> QED
    BY <2>1, <2>2, <1>a, FinishKeeps
<1>13. ASSUME NEW v \in Verifications, Complete(v) \/ Reverse(v) PROVE IInv'
  <2>1. /\ Finish(v) /\ vpc[v] = "settle" /\ UNCHANGED payout
        /\ row[about[v]] = "PENDING" /\ scan = v /\ about[v] \in Requests
    BY <1>13 DEF Complete, Reverse, Finish, IInv, VerifyInv, JobInv
  <2>2. \/ /\ payout[about[v]] = "SUCCESSFUL" /\ UNCHANGED refunds
           /\ row' = [row EXCEPT ![about[v]] = "COMPLETED"]
        \/ /\ payout[about[v]] = "FAILED"
           /\ refunds' = [refunds EXCEPT ![about[v]] = @ + 1]
           /\ row' = [row EXCEPT ![about[v]] = "FAILED"]
    BY <1>13 DEF Complete, Reverse, IInv, VerifyInv
  <2>3. RefundedAsSettled'
    BY <2>1, <2>2, <1>a DEF IInv, RefundedAsSettled
  <2> QED
    BY <2>1, <2>2, <2>3, <1>a, FinishKeeps
<1>14. ASSUME NEW v \in Verifications, Report(v) PROVE IInv'
  <2>1. /\ vpc[v] = "report"
        /\ vpc' = [vpc EXCEPT ![v] = IF v \in Requests THEN "idle" ELSE "end"]
        /\ UNCHANGED <<book, rpc, about, answer, scan, crashes>>
        /\ v \notin Requests => UNCHANGED job
        /\ v \in Requests => job' = [job EXCEPT ![v] = Succeeded(job[v])]
    BY <1>14 DEF Report
  <2>2. ASSUME v \in Requests
        PROVE  /\ Succeeded(job[v]) \in JobType(MaxAttempts)
               /\ Succeeded(job[v]).state = "done" /\ job[v].state = "active"
               /\ row[v] \in {"COMPLETED", "FAILED"} \/ payout[v] = "OTHER"
    <3>1. job[v] \in JobType(MaxAttempts)
      BY <2>2, <1>a
    <3>2. job[v].state = "active" /\ about[v] = v
      BY <2>1, <2>2 DEF IInv, JobInv
    <3> QED
      BY <2>1, <3>1, <3>2 DEF Succeeded, JobType, IInv, VerifyInv
  <2>3. TypeOK'
    BY <2>1, <2>2, <1>a DEF IInv, TypeOK
  <2>4. RequestInv' /\ JobInv'
    BY <2>1, <2>2, <1>a DEF IInv, RequestInv, JobInv, Verifications
  <2>5. VerifyInv' /\ RefundedAsSettled'
    BY <2>1, <1>a DEF IInv, VerifyInv, RefundedAsSettled
  <2>6. RunsOver'
    BY <2>1, <2>2, <1>a DEF IInv, RunsOver
  <2> QED
    BY <2>3, <2>4, <2>5, <2>6 DEF IInv
<1>15. CASE Crash
  <2>1. \A r \in Requests :
          /\ job[r].state = "active" => /\ Stalled(job[r]) \in JobType(MaxAttempts)
                                        /\ Stalled(job[r]).state \in {"waiting", "failed"}
                                        /\ Stalled(job[r]).left = job[r].left
                                        /\ Stalled(job[r]).stalls = 1
          /\ job[r] \in JobType(MaxAttempts)
    BY <1>a, StalledType, WithdrawalAssumption
  <2>2. /\ crashes' \in 0..MaxCrashes
        /\ rpc' = [r \in Requests |->
               IF rpc[r] \in {"order", "ok"} THEN rpc[r] ELSE "failed"]
        /\ job' = [r \in Requests |->
               IF job[r].state = "active" THEN Stalled(job[r]) ELSE job[r]]
        /\ \A v \in Verifications : vpc'[v] \in {"idle", "end"}
        /\ \A r \in Requests : vpc'[r] = "idle"
        /\ vpc' \in [Verifications -> {"idle", "end"}]
        /\ scan' = Nobody
        /\ UNCHANGED <<book, about, answer>>
    BY <1>15, WithdrawalAssumption DEF Crash, IInv, TypeOK, Verifications
  <2>3. TypeOK'
    BY <2>1, <2>2 DEF IInv, TypeOK
  <2>4. RequestInv'
    BY <2>1, <2>2 DEF IInv, RequestInv
  <2>5. JobInv'
    BY <2>1, <2>2 DEF IInv, JobInv, Verifications
  <2>6. VerifyInv' /\ RefundedAsSettled' /\ RunsOver'
    BY <2>1, <2>2 DEF IInv, VerifyInv, RefundedAsSettled, RunsOver
  <2> QED
    BY <2>3, <2>4, <2>5, <2>6 DEF IInv
<1>16. CASE UNCHANGED vars
  BY <1>16 DEF vars, IInv, TypeOK, RequestInv, JobInv, VerifyInv,
               RefundedAsSettled, RunsOver
<1>17. ASSUME NEW r \in Requests, RequestStep(r) PROVE IInv'
  BY <1>17, <1>1, <1>2, <1>3, <1>4 DEF RequestStep
<1>18. ASSUME NEW v \in Verifications, VerifyStep(v) PROVE IInv'
  BY <1>18, <1>7, <1>8, <1>9, <1>10, <1>11, <1>12, <1>13, <1>14 DEF VerifyStep
<1> QED
  BY <1>5, <1>6, <1>10, <1>15, <1>16, <1>17, <1>18 DEF Next, Quiet

LEMMA IInvHolds == Spec => []IInv
<1>1. Init => IInv
  BY WithdrawalAssumption
     DEF Init, IInv, TypeOK, RequestInv, JobInv, VerifyInv, RefundedAsSettled,
         RunsOver, NoJob, JobType, Verifications
<1> QED
  BY <1>1, IInvStep, PTL DEF Spec

(* The variables keep their types; no job is ever given more attempts than  *)
(* it was added with.                                                       *)
THEOREM WithdrawalTypeCorrect == Spec => []TypeOK
<1>1. IInv => TypeOK
  BY DEF IInv
<1> QED
  BY <1>1, IInvHolds, PTL

(* The money of a withdrawal comes back once if its payout failed and the   *)
(* row was settled, and never otherwise.                                    *)
THEOREM RefundedOnceAsSettled == Spec => []RefundedAsSettled
<1>1. IInv => RefundedAsSettled
  BY DEF IInv
<1> QED
  BY <1>1, IInvHolds, PTL

(* A withdrawal that stays PENDING has a job that will run again, or a      *)
(* request that failed before it added one, or a job that has given up.     *)
THEOREM PendingWithdrawalsExplained == Spec => []PendingHasACause
<1>1. IInv => PendingHasACause
  <2> SUFFICES ASSUME IInv, NEW r \in Requests
               PROVE  /\ job[r].state # "none" => row[r] # "none"
                      /\ row[r] = "PENDING" =>
                           \/ rpc[r] = "enqueue"
                           \/ rpc[r] = "failed" /\ job[r].state = "none"
                           \/ job[r].state \in {"waiting", "active"}
                           \/ GivenUp(r)
    BY DEF PendingHasACause
  <2>1. /\ rpc[r] \in {"order", "insert", "debit", "enqueue", "ok", "failed"}
        /\ job[r].state \in {"none", "waiting", "active", "done", "failed"}
    BY DEF IInv, TypeOK, JobType
  <2> QED
    BY <2>1 DEF IInv, RequestInv, RunsOver, GivenUp
<1> QED
  BY <1>1, IInvHolds, PTL

(* Requests, jobs, webhooks and crashes together implement the contract.    *)
THEOREM SettlementRefinement == Spec => ImplementsSettlement
<1>1. Init => Contract!Init
  BY DEF Init, Contract!Init
<1>2. IInv /\ [Next]_vars => [Contract!Next]_(Contract!book)
  <2> SUFFICES ASSUME IInv, [Next]_vars PROVE [Contract!Next]_(Contract!book)
    OBVIOUS
  <2> USE DEF book, request, verify, Contract!book
  <2>1. ASSUME NEW r \in Requests, RequestStep(r)
        PROVE  [Contract!Next]_(Contract!book)
    <3>1. CASE PayoutAccepted(r) \/ AnswerLost(r)
      BY <3>1 DEF PayoutAccepted, AnswerLost, IInv, RequestInv,
                  Contract!Next, Contract!Order
    <3>2. CASE Debit(r)
      BY <3>2 DEF Debit, IInv, RequestInv, Contract!Next, Contract!Record
    <3>3. CASE PayoutRefused(r) \/ InsertRow(r) \/ DebitRefused(r)
                \/ Enqueue(r) \/ EnqueueFails(r)
      BY <3>3 DEF PayoutRefused, InsertRow, DebitRefused, Enqueue, EnqueueFails
    <3> QED
      BY <2>1, <3>1, <3>2, <3>3 DEF RequestStep
  <2>2. ASSUME NEW r \in Requests, Decide(r) PROVE Contract!Next
    BY <2>2 DEF Decide, Contract!Next, Contract!Decide
  <2>3. ASSUME NEW v \in Verifications, Complete(v) PROVE Contract!Next
    <3>1. /\ about[v] \in Requests /\ payout[about[v]] = "SUCCESSFUL"
          /\ row[about[v]] = "PENDING"
      BY <2>3 DEF Complete, IInv, VerifyInv, JobInv
    <3> QED
      BY <2>3, <3>1 DEF Complete, Finish, Contract!Next, Contract!Complete
  <2>4. ASSUME NEW v \in Verifications, Reverse(v) PROVE Contract!Next
    <3>1. /\ about[v] \in Requests /\ payout[about[v]] = "FAILED"
          /\ row[about[v]] = "PENDING"
      BY <2>4 DEF Reverse, IInv, VerifyInv, JobInv
    <3>2. refunds[about[v]] = 0 /\ refunds \in [Requests -> Nat]
      BY <3>1 DEF IInv, RefundedAsSettled, TypeOK
    <3>3. refunds' = [refunds EXCEPT ![about[v]] = 1]
      BY <2>4, <3>2 DEF Reverse
    <3> QED
      BY <2>4, <3>1, <3>3 DEF Reverse, Finish, Contract!Next, Contract!Reverse
  <2>5. ASSUME NEW v \in Verifications,
               \/ StartJob(v) \/ Fetch(v) \/ LockRow(v) \/ NotFound(v)
               \/ AlreadySettled(v) \/ StillPending(v) \/ Ignored(v)
               \/ Report(v) \/ DeliverHook(v) \/ CallFails(v)
        PROVE  UNCHANGED Contract!book
    BY <2>5 DEF StartJob, Fetch, LockRow, NotFound, AlreadySettled, StillPending,
         Ignored, Report, DeliverHook, CallFails, Reject, Finish
  <2>6. CASE Crash
    BY <2>6 DEF Crash
  <2>7. CASE UNCHANGED vars
    BY <2>7 DEF vars
  <2> QED
    BY <2>1, <2>2, <2>3, <2>4, <2>5, <2>6, <2>7 DEF Next, VerifyStep, Quiet
<1> QED
  BY <1>1, <1>2, IInvHolds, PTL DEF Spec, ImplementsSettlement, Contract!Spec
=============================================================================
