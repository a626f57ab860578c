--------------------------- MODULE DepositsProofs ---------------------------
(***************************************************************************)
(* Deposits, for every number of payments, callers, attempts and crashes:  *)
(* types, the agreement of row, charge and credit, the finality of a       *)
(* settled row, what a completed job means, how often a payment can be      *)
(* credited, and the refinement of Funding.                                *)
(***************************************************************************)
EXTENDS Deposits, JobsProofs, FiniteSetTheorems, TLAPS

(* A request opens a checkout, then writes its row, then adds its job; the  *)
(* user can pay only after that.                                            *)
FundInv ==
  \A p \in Payments :
    /\ fpc[p] = "initiate" => checkout[p] = "none" /\ row[p] = "none"
    /\ fpc[p] = "insert" => checkout[p] = "open" /\ row[p] = "none"
    /\ fpc[p] \in {"enqueue", "ok"} => row[p] # "none"
    /\ row[p] # "none" => checkout[p] # "none"
    /\ job[p].state # "none" => fpc[p] = "ok"

(* A job is active while its processor runs, and has an attempt to use up.  *)
JobInv ==
  /\ \A p \in Payments :
       /\ about[p] = p
       /\ vpc[p] # "end"
       /\ job[p].state = "active" <=> vpc[p] # "idle"
       /\ job[p].state \in {"waiting", "active"} => job[p].left > 0
  /\ \A v \in Verifications :
       vpc[v] \notin {"idle", "end"} => about[v] \in Payments

(* A verification past its read is about a row; it writes a status only     *)
(* after a final answer of the gateway, which stays true.                   *)
VerifyInv ==
  \A v \in Verifications :
    /\ vpc[v] \in {"fetch", "fail", "lock", "credit"} => row[about[v]] # "none"
    /\ vpc[v] = "fail" => checkout[about[v]] = "failed"
    /\ vpc[v] \in {"lock", "credit"} => checkout[about[v]] = "paid"
    /\ vpc[v] = "report" => row[about[v]] \in {"COMPLETED", "FAILED"}

Busy == {"fetch", "fail", "lock", "credit"}

(* The callers whose credit of p, if any, is behind them. *)
Counted(p) == {c \in Callers : about[c] = p /\ vpc[c] \in {"report", "end"}}

(* A job that found its row PENDING found a wallet not credited yet, so     *)
(* every credit since is that of a caller.                                  *)
AskersInv ==
  \A p \in Payments :
    credits[p] <= Cardinality(Counted(p)) + (IF vpc[p] \in Busy THEN 0 ELSE 1)

IInv ==
  /\ TypeOK /\ FundInv /\ JobInv /\ VerifyInv /\ AskersInv
  /\ CreditsAgree /\ DoneMeansSettled

LEMMA CountType ==
  ASSUME NEW S \in SUBSET Callers, NEW T \in SUBSET Callers, S \subseteq T
  PROVE  Cardinality(S) \in Nat /\ Cardinality(T) \in Nat
         /\ Cardinality(S) <= Cardinality(T)
<1>1. IsFiniteSet(T) /\ IsFiniteSet(S)
  BY DepositAssumption, FS_Subset
<1> QED
  BY <1>1, FS_Subset, FS_CardinalityType

(* A step that credits nothing keeps the bound unless it sends a job past   *)
(* its read.                                                                *)
LEMMA AskersKeep ==
  ASSUME IInv, UNCHANGED credits,
         \A c \in Callers :
           vpc[c] \in {"report", "end"} =>
             vpc'[c] \in {"report", "end"} /\ about'[c] = about[c],
         \A p \in Payments :
           vpc'[p] \in Busy => vpc[p] \in Busy \/ credits[p] = 0
  PROVE  AskersInv'
<1> SUFFICES ASSUME NEW p \in Payments
             PROVE  credits[p] <= Cardinality(Counted(p)')
                                  + (IF vpc'[p] \in Busy THEN 0 ELSE 1)
  BY DEF AskersInv, Busy
<1>1. Counted(p) \subseteq Counted(p)' /\ Counted(p)' \subseteq Callers
  BY DEF Counted
<1>2. /\ Cardinality(Counted(p)) \in Nat /\ Cardinality(Counted(p)') \in Nat
      /\ Cardinality(Counted(p)) <= Cardinality(Counted(p)')
  BY <1>1, CountType
<1>3. credits[p] <= Cardinality(Counted(p)) + (IF vpc[p] \in Busy THEN 0 ELSE 1)
  BY DEF IInv, AskersInv
<1>4. credits[p] \in Nat
  BY DEF IInv, TypeOK
<1> QED
  BY <1>2, <1>3, <1>4

(* A verification that throws keeps the invariant, wherever it was.         *)
LEMMA RejectKeeps ==
  ASSUME IInv, NEW v \in Verifications, Reject(v), vpc[v] \notin {"idle", "end"}
  PROVE  IInv'
<1> USE DEF book
<1>1. \A u \in Verifications \ {v} : vpc'[u] = vpc[u]
  BY DEF Reject, At, IInv, TypeOK
<1>2. vpc'[v] = (IF v \in Payments THEN "idle" ELSE "end")
  BY DEF Reject, At, IInv, TypeOK
<1>3. \A p \in Payments : p # v => job'[p] = job[p]
  BY DEF Reject, IInv, TypeOK
<1>4. v \in Payments =>
        /\ job'[v] = Threw(job[v]) /\ job[v].state = "active"
        /\ job[v] \in JobType(MaxAttempts) /\ job[v].left > 0
  BY DEF Reject, IInv, TypeOK, JobInv
<1>5. v \in Payments =>
        /\ job'[v] \in JobType(MaxAttempts)
        /\ job'[v].state \in {"waiting", "failed"}
        /\ job'[v].state = "waiting" => job'[v].left > 0
  BY <1>4, ThrewType, DepositAssumption
<1>6. TypeOK'
  <2>1. job' \in [Payments -> JobType(MaxAttempts)]
    <3>1. CASE v \in Payments
      BY <3>1, <1>5 DEF Reject, IInv, TypeOK
    <3>2. CASE v \notin Payments
      BY <3>2 DEF Reject, IInv, TypeOK
    <3> QED
      BY <3>1, <3>2
  <2>2. vpc' \in [Verifications -> {"idle", "read", "fetch", "fail", "lock",
                                    "credit", "report", "end"}]
    BY DEF Reject, At, IInv, TypeOK
  <2> QED
    BY <2>1, <2>2 DEF Reject, Unlock, IInv, TypeOK
<1>7. FundInv'
  BY <1>3, <1>4 DEF Reject, IInv, FundInv
<1>8. JobInv'
  BY <1>1, <1>2, <1>3, <1>5 DEF Reject, IInv, JobInv, Verifications
<1>9. VerifyInv'
  BY <1>1, <1>2 DEF Reject, IInv, VerifyInv
<1>10. CreditsAgree' /\ DoneMeansSettled'
  BY <1>1, <1>2, <1>3, <1>5
     DEF Reject, IInv, CreditsAgree, DoneMeansSettled, Verifications
<1>11. AskersInv'
  BY <1>1, <1>2, AskersKeep, DepositAssumption DEF Reject, Busy, Verifications
<1> QED
  BY <1>6, <1>7, <1>8, <1>9, <1>10, <1>11 DEF IInv

(* A verification that only moves on keeps the invariant if the point it    *)
(* reaches is justified.                                                    *)
LEMMA MoveKeeps ==
  ASSUME IInv, NEW v \in Verifications,
         NEW point \in {"fetch", "fail", "lock", "credit", "report"},
         At(v, point), vpc[v] \in {"read", "fetch", "lock"},
         UNCHANGED <<book, fund, about, crashes>>,
         wlock' \in Verifications \cup {Nobody},
         row[about[v]] # "none",
         point = "fail" => checkout[about[v]] = "failed",
         point \in {"lock", "credit"} => checkout[about[v]] = "paid",
         point = "report" => row[about[v]] \in {"COMPLETED", "FAILED"},
         point = "fetch" => row[about[v]] = "PENDING",
         point \in {"fail", "lock", "credit"} => vpc[v] # "read"
  PROVE  IInv'
<1> USE DEF book, fund, At
<1>1. \A u \in Verifications \ {v} : vpc'[u] = vpc[u]
  BY DEF IInv, TypeOK
<1>2. vpc'[v] = point
  BY DEF IInv, TypeOK
<1>3. TypeOK' /\ FundInv' /\ CreditsAgree' /\ DoneMeansSettled'
  BY DEF IInv, TypeOK, FundInv, CreditsAgree, DoneMeansSettled
<1>4. JobInv'
  BY <1>1, <1>2 DEF IInv, JobInv, Verifications
<1>5. VerifyInv'
  BY <1>1, <1>2 DEF IInv, VerifyInv
<1>6. AskersInv'
  <2>1. vpc[v] \notin Busy /\ point \in Busy /\ v \in Payments => credits[v] = 0
    BY DEF Busy, IInv, JobInv, CreditsAgree, TypeOK
  <2>2. \A p \in Payments : vpc'[p] \in Busy => vpc[p] \in Busy \/ credits[p] = 0
    BY <1>1, <1>2, <2>1 DEF Verifications
  <2>3. \A c \in Callers : vpc[c] \in {"report", "end"} =>
          vpc'[c] \in {"report", "end"} /\ about'[c] = about[c]
    BY <1>1, <1>2 DEF Verifications
  <2> QED
    BY <2>2, <2>3, AskersKeep
<1> QED
  BY <1>3, <1>4, <1>5, <1>6 DEF IInv

(* Every step keeps the invariant. *)
LEMMA IInvStep == IInv /\ [Next]_vars => IInv'
<1> SUFFICES ASSUME IInv, [Next]_vars PROVE IInv'
  OBVIOUS
<1> USE DEF book, fund, verify
<1>a. /\ checkout \in [Payments -> {"none", "open", "paid", "mismatch", "failed"}]
      /\ row \in [Payments -> {"none", "PENDING", "COMPLETED", "FAILED"}]
      /\ credits \in [Payments -> Nat]
      /\ job \in [Payments -> JobType(MaxAttempts)]
      /\ DOMAIN fpc = Payments /\ DOMAIN vpc = Verifications
      /\ DOMAIN about = Verifications
  BY DEF IInv, TypeOK
<1>1. ASSUME NEW p \in Payments, FundFails(p) PROVE IInv'
  <2>1. /\ fpc' = [fpc EXCEPT ![p] = "failed"] /\ fpc[p] # "ok"
        /\ UNCHANGED <<book, job, verify, crashes>>
    BY <1>1 DEF FundFails
  <2>2. TypeOK' /\ FundInv'
    BY <2>1, <1>a DEF IInv, TypeOK, FundInv
  <2>3. JobInv' /\ VerifyInv' /\ CreditsAgree' /\ DoneMeansSettled'
    BY <2>1 DEF IInv, JobInv, VerifyInv, CreditsAgree, DoneMeansSettled
  <2> QED
    BY <2>1, <2>2, <2>3, AskersKeep DEF IInv
<1>2. ASSUME NEW p \in Payments, InitiatePayment(p) PROVE IInv'
  <2>1. /\ checkout' = [checkout EXCEPT ![p] = "open"]
        /\ fpc' = [fpc EXCEPT ![p] = "insert"] /\ fpc[p] = "initiate"
        /\ UNCHANGED <<row, credits, job, verify, crashes>>
        /\ checkout[p] = "none" /\ row[p] = "none" /\ job[p].state = "none"
    BY <1>2 DEF InitiatePayment, IInv, FundInv
  <2>2. TypeOK' /\ FundInv'
    BY <2>1, <1>a DEF IInv, TypeOK, FundInv
  <2>3. JobInv' /\ CreditsAgree' /\ DoneMeansSettled'
    BY <2>1, <1>a DEF IInv, JobInv, CreditsAgree, DoneMeansSettled
  <2>4. VerifyInv'
    BY <2>1, <1>a DEF IInv, VerifyInv, JobInv
  <2> QED
    BY <2>1, <2>2, <2>3, <2>4, AskersKeep DEF IInv
<1>3. ASSUME NEW p \in Payments, InsertRow(p) PROVE IInv'
  <2>1. /\ row' = [row EXCEPT ![p] = "PENDING"]
        /\ fpc' = [fpc EXCEPT ![p] = "enqueue"]
        /\ UNCHANGED <<checkout, credits, job, verify, crashes>>
        /\ checkout[p] = "open" /\ row[p] = "none" /\ job[p].state = "none"
    BY <1>3 DEF InsertRow, IInv, FundInv
  <2>2. TypeOK' /\ FundInv' /\ JobInv'
    BY <2>1, <1>a DEF IInv, TypeOK, FundInv, JobInv
  <2>3. VerifyInv'
    BY <2>1, <1>a DEF IInv, VerifyInv, JobInv
  <2>4. CreditsAgree' /\ DoneMeansSettled'
    BY <2>1, <1>a DEF IInv, CreditsAgree, DoneMeansSettled
  <2> QED
    BY <2>1, <2>2, <2>3, <2>4, AskersKeep DEF IInv
<1>4. ASSUME NEW p \in Payments, Enqueue(p) PROVE IInv'
  <2>1. /\ job' = [job EXCEPT ![p] = Added(MaxAttempts)]
        /\ fpc' = [fpc EXCEPT ![p] = "ok"] /\ fpc[p] = "enqueue"
        /\ UNCHANGED <<book, verify, crashes>> /\ job[p].state = "none"
    BY <1>4 DEF Enqueue, IInv, FundInv
  <2>2. /\ Added(MaxAttempts) \in JobType(MaxAttempts)
        /\ Added(MaxAttempts).state = "waiting" /\ Added(MaxAttempts).left > 0
    BY DepositAssumption DEF Added, JobType
  <2>3. TypeOK' /\ FundInv' /\ JobInv'
    BY <2>1, <2>2, <1>a DEF IInv, TypeOK, FundInv, JobInv
  <2>4. VerifyInv' /\ CreditsAgree' /\ DoneMeansSettled'
    BY <2>1, <2>2, <1>a DEF IInv, VerifyInv, CreditsAgree, DoneMeansSettled
  <2> QED
    BY <2>1, <2>3, <2>4, AskersKeep DEF IInv
<1>5. ASSUME NEW p \in Payments, Pay(p) PROVE IInv'
  <2>1. PICK o \in {"paid", "mismatch", "failed"} :
          checkout' = [checkout EXCEPT ![p] = o]
    BY <1>5 DEF Pay
  <2>2. /\ checkout[p] = "open" /\ fpc[p] = "ok"
        /\ UNCHANGED <<row, credits, fund, verify, crashes>>
    BY <1>5 DEF Pay
  <2>3. TypeOK' /\ FundInv' /\ JobInv'
    BY <2>1, <2>2, <1>a DEF IInv, TypeOK, FundInv, JobInv
  <2>4. VerifyInv'
    BY <2>1, <2>2, <1>a DEF IInv, VerifyInv, JobInv
  <2>5. CreditsAgree' /\ DoneMeansSettled'
    BY <2>1, <2>2, <1>a DEF IInv, CreditsAgree, DoneMeansSettled
  <2> QED
    BY <2>2, <2>3, <2>4, <2>5, AskersKeep DEF IInv
<1>6. ASSUME NEW v \in Verifications, Ask(v) PROVE IInv'
  <2>1. PICK p \in Payments : about' = [about EXCEPT ![v] = p]
    BY <1>6 DEF Ask
  <2>2. /\ v \in Callers /\ v \notin Payments
        /\ vpc' = [vpc EXCEPT ![v] = "read"]
        /\ UNCHANGED <<book, fund, wlock, crashes>>
    BY <1>6, DepositAssumption DEF Ask
  <2>3. TypeOK' /\ FundInv' /\ CreditsAgree' /\ DoneMeansSettled'
    BY <2>1, <2>2 DEF IInv, TypeOK, FundInv, CreditsAgree, DoneMeansSettled
  <2>4. JobInv' /\ VerifyInv'
    BY <2>1, <2>2, <1>a DEF IInv, JobInv, VerifyInv, Verifications
  <2>5. vpc[v] = "idle"
    BY <1>6 DEF Ask
  <2>6. AskersInv'
    BY <2>1, <2>2, <2>5, <1>a, AskersKeep DEF Verifications, Busy
  <2> QED
    BY <2>3, <2>4, <2>6 DEF IInv
<1>7. ASSUME NEW v \in Verifications, StartJob(v) PROVE IInv'
  <2>1. /\ v \in Payments /\ job[v].state = "waiting"
        /\ job' = [job EXCEPT ![v] = Started(job[v])]
        /\ vpc' = [vpc EXCEPT ![v] = "read"]
        /\ UNCHANGED <<book, fpc, about, wlock, crashes>>
    BY <1>7 DEF StartJob
  <2>2. /\ Started(job[v]) \in JobType(MaxAttempts)
        /\ Started(job[v]).state = "active" /\ Started(job[v]).left = job[v].left
    BY <2>1, <1>a DEF Started, JobType
  <2>3. TypeOK' /\ FundInv'
    BY <2>1, <2>2, <1>a DEF IInv, TypeOK, FundInv
  <2>4. JobInv' /\ VerifyInv'
    BY <2>1, <2>2, <1>a DEF IInv, JobInv, VerifyInv, Verifications
  <2>5. CreditsAgree' /\ DoneMeansSettled'
    BY <2>1, <2>2, <1>a DEF IInv, CreditsAgree, DoneMeansSettled
  <2>6. AskersInv'
    BY <2>1, <1>a, AskersKeep, DepositAssumption DEF Verifications, Busy
  <2> QED
    BY <2>3, <2>4, <2>5, <2>6 DEF IInv
<1>8. ASSUME NEW v \in Verifications, ReadPending(v) PROVE IInv'
  <2>1. /\ At(v, "fetch") /\ vpc[v] = "read" /\ row[about[v]] = "PENDING"
        /\ UNCHANGED <<book, fund, about, wlock, crashes>>
    BY <1>8 DEF ReadPending
  <2> QED
    BY <2>1, MoveKeeps DEF IInv, TypeOK
<1>9. ASSUME NEW v \in Verifications, ReadSettled(v) PROVE IInv'
  <2>1. /\ At(v, "report") /\ vpc[v] = "read"
        /\ row[about[v]] \in {"COMPLETED", "FAILED"}
        /\ UNCHANGED <<book, fund, about, wlock, crashes>>
    BY <1>9 DEF ReadSettled
  <2> QED
    BY <2>1, MoveKeeps DEF IInv, TypeOK
<1>10. ASSUME NEW v \in Verifications, ReadNothing(v) \/ CouldNotVerify(v) \/ CallFails(v)
       PROVE  IInv'
  BY <1>10, RejectKeeps DEF ReadNothing, CouldNotVerify, CallFails
<1>11. ASSUME NEW v \in Verifications, FetchFinal(v) PROVE IInv'
  <2>1. /\ vpc[v] = "fetch"
        /\ UNCHANGED <<book, fund, about, wlock, crashes>>
        /\ row[about[v]] # "none"
        /\ wlock' \in Verifications \cup {Nobody}
    BY <1>11 DEF FetchFinal, IInv, VerifyInv, TypeOK
  <2>2. CASE checkout[about[v]] = "failed" /\ At(v, "fail")
    BY <2>1, <2>2, MoveKeeps
  <2>3. CASE checkout[about[v]] = "paid" /\ At(v, "lock")
    BY <2>1, <2>3, MoveKeeps
  <2> QED
    BY <1>11, <2>2, <2>3 DEF FetchFinal
<1>12. ASSUME NEW v \in Verifications, LockWallet(v) PROVE IInv'
  <2>1. /\ At(v, "credit") /\ vpc[v] = "lock"
        /\ UNCHANGED <<book, fund, about, crashes>>
        /\ row[about[v]] # "none" /\ checkout[about[v]] = "paid"
        /\ wlock' \in Verifications \cup {Nobody}
    BY <1>12 DEF LockWallet, IInv, VerifyInv
  <2> QED
    BY <2>1, MoveKeeps
<1>13. ASSUME NEW v \in Verifications, MarkFailed(v) \/ Credit(v) PROVE IInv'
  <2> DEFINE q == about[v]
  <2>1. /\ q \in Payments /\ row[q] # "none"
        /\ vpc[v] \in {"fail", "credit"}
        /\ vpc' = [vpc EXCEPT ![v] = "report"]
        /\ UNCHANGED <<checkout, fund, about, crashes>>
        /\ wlock' \in Verifications \cup {Nobody}
    BY <1>13 DEF MarkFailed, Credit, At, Unlock, IInv, JobInv, VerifyInv, TypeOK
  <2>2. \/ /\ checkout[q] = "failed" /\ UNCHANGED credits
           /\ row' = [row EXCEPT ![q] = "FAILED"]
           /\ row[q] # "COMPLETED"
        \/ /\ checkout[q] = "paid"
           /\ credits' = [credits EXCEPT ![q] = @ + 1]
           /\ row' = [row EXCEPT ![q] = "COMPLETED"]
    BY <1>13, <2>1 DEF MarkFailed, Credit, IInv, VerifyInv, CreditsAgree
  <2>3. TypeOK'
    BY <2>1, <2>2, <1>a DEF IInv, TypeOK
  <2>4. FundInv' /\ DoneMeansSettled'
    BY <2>1, <2>2, <1>a DEF IInv, FundInv, DoneMeansSettled
  <2>5. JobInv'
    BY <2>1, <1>a DEF IInv, JobInv, Verifications
  <2>6. CreditsAgree'
    BY <2>1, <2>2, <1>a DEF IInv, CreditsAgree
  <2>7. VerifyInv'
    BY <2>1, <2>2, <1>a DEF IInv, VerifyInv, JobInv
  <2>8. CASE UNCHANGED credits
    BY <2>1, <2>3, <2>4, <2>5, <2>6, <2>7, <2>8, <1>a, AskersKeep DEF IInv, Busy
  <2>9. CASE credits' = [credits EXCEPT ![q] = @ + 1] /\ vpc[v] = "credit"
    <3> SUFFICES ASSUME NEW p \in Payments
                 PROVE  credits'[p] <= Cardinality(Counted(p)')
                                       + (IF vpc'[p] \in Busy THEN 0 ELSE 1)
      BY <2>3, <2>4, <2>5, <2>6, <2>7 DEF IInv, AskersInv, Busy
    <3>1. /\ credits[p] \in Nat
          /\ credits[p] <= Cardinality(Counted(p)) + (IF vpc[p] \in Busy THEN 0 ELSE 1)
      BY DEF IInv, TypeOK, AskersInv
    <3>2. Cardinality(Counted(p)) \in Nat /\ IsFiniteSet(Counted(p))
      BY DepositAssumption, FS_Subset, CountType DEF Counted
    <3>3. CASE p # q
      <4>1. Counted(p)' = Counted(p)
        BY <2>1, <2>9, <3>3, <1>a DEF Counted, Verifications
      <4>2. vpc'[p] = vpc[p] /\ credits'[p] = credits[p]
        BY <2>1, <2>9, <3>3, <1>a DEF IInv, JobInv, Verifications
      <4> QED
        BY <3>1, <4>1, <4>2
    <3>4. CASE p = q /\ v \in Payments
      <4>1. Counted(p)' = Counted(p)
        BY <2>1, <3>4, <1>a, DepositAssumption DEF Counted, Verifications
      <4>2. v = p /\ vpc[p] \in Busy /\ vpc'[p] \notin Busy
        BY <2>1, <2>9, <3>4, <1>a DEF IInv, JobInv, Busy, Verifications
      <4> QED
        BY <2>9, <3>1, <3>2, <3>4, <4>1, <4>2, <1>a
    <3>5. CASE p = q /\ v \in Callers
      <4>1. Counted(p)' = Counted(p) \cup {v} /\ v \notin Counted(p)
        BY <2>1, <2>9, <3>5, <1>a DEF Counted, Verifications
      <4>2. Cardinality(Counted(p)') = Cardinality(Counted(p)) + 1
        BY <3>2, <4>1, FS_AddElement
      <4>3. vpc'[p] = vpc[p]
        BY <2>1, <3>5, <1>a, DepositAssumption DEF Verifications
      <4> QED
        BY <2>9, <3>1, <3>2, <3>5, <4>2, <4>3, <1>a
    <3> QED
      BY <3>3, <3>4, <3>5 DEF Verifications
  <2>10. UNCHANGED credits \/ (credits' = [credits EXCEPT ![q] = @ + 1] /\ vpc[v] = "credit")
    BY <1>13 DEF MarkFailed, Credit
  <2> QED
    BY <2>8, <2>9, <2>10
<1>14. ASSUME NEW v \in Verifications, Report(v) PROVE IInv'
  <2>1. /\ vpc[v] = "report"
        /\ vpc' = [vpc EXCEPT ![v] = IF v \in Payments THEN "idle" ELSE "end"]
        /\ UNCHANGED <<book, fpc, about, wlock, crashes>>
        /\ v \notin Payments => UNCHANGED job
        /\ v \in Payments => job' = [job EXCEPT ![v] = Succeeded(job[v])]
    BY <1>14 DEF Report, At
  <2>2. ASSUME v \in Payments
        PROVE  /\ Succeeded(job[v]) \in JobType(MaxAttempts)
               /\ Succeeded(job[v]).state = "done" /\ job[v].state = "active"
               /\ row[v] \in {"COMPLETED", "FAILED"}
    <3>1. job[v] \in JobType(MaxAttempts)
      BY <2>2, <1>a
    <3>2. job[v].state = "active" /\ about[v] = v
      BY <2>1, <2>2 DEF IInv, JobInv
    <3> QED
      BY <2>1, <3>1, <3>2 DEF Succeeded, JobType, IInv, VerifyInv
  <2>3. TypeOK'
    BY <2>1, <2>2, <1>a DEF IInv, TypeOK
  <2>4. FundInv' /\ JobInv'
    BY <2>1, <2>2, <1>a DEF IInv, FundInv, JobInv, Verifications
  <2>5. VerifyInv' /\ CreditsAgree'
    BY <2>1, <1>a DEF IInv, VerifyInv, CreditsAgree
  <2>6. DoneMeansSettled'
    BY <2>1, <2>2, <1>a DEF IInv, DoneMeansSettled
  <2>7. AskersInv'
    BY <2>1, <1>a, AskersKeep, DepositAssumption DEF Verifications, Busy
  <2> QED
    BY <2>3, <2>4, <2>5, <2>6, <2>7 DEF IInv
<1>15. CASE Crash
  <2>1. \A p \in Payments :
          /\ job[p].state = "active" => /\ Stalled(job[p]) \in JobType(MaxAttempts)
                                        /\ Stalled(job[p]).state \in {"waiting", "failed"}
                                        /\ Stalled(job[p]).left = job[p].left
          /\ job[p] \in JobType(MaxAttempts)
    BY <1>a, StalledType, DepositAssumption
  <2>2. /\ crashes' \in 0..MaxCrashes
        /\ fpc' = [p \in Payments |->
               IF fpc[p] \in {"initiate", "ok"} THEN fpc[p] ELSE "failed"]
        /\ job' = [p \in Payments |->
               IF job[p].state = "active" THEN Stalled(job[p]) ELSE job[p]]
        /\ \A v \in Verifications : vpc'[v] \in {"idle", "end"}
        /\ \A p \in Payments : vpc'[p] = "idle"
        /\ vpc' \in [Verifications -> {"idle", "end"}]
        /\ wlock' = Nobody
        /\ UNCHANGED <<book, about>>
    BY <1>15, DepositAssumption DEF Crash, IInv, TypeOK, Verifications
  <2>3. TypeOK'
    BY <2>1, <2>2 DEF IInv, TypeOK
  <2>4. FundInv'
    BY <2>1, <2>2 DEF IInv, FundInv
  <2>5. JobInv'
    BY <2>1, <2>2 DEF IInv, JobInv, Verifications
  <2>6. VerifyInv' /\ CreditsAgree' /\ DoneMeansSettled'
    BY <2>1, <2>2 DEF IInv, VerifyInv, CreditsAgree, DoneMeansSettled
  <2>7. \A c \in Callers : vpc[c] \in {"report", "end"} => vpc'[c] = "end"
    BY <1>15 DEF Crash, Verifications
  <2>8. AskersInv'
    BY <2>2, <2>7, AskersKeep DEF Busy
  <2> QED
    BY <2>3, <2>4, <2>5, <2>6, <2>8 DEF IInv
<1>16. CASE UNCHANGED vars
  BY <1>16 DEF vars, IInv, TypeOK, FundInv, JobInv, VerifyInv, AskersInv,
               Counted, CreditsAgree, DoneMeansSettled
<1>17. ASSUME NEW v \in Verifications, VerifyStep(v) PROVE IInv'
  BY <1>17, <1>7, <1>8, <1>9, <1>10, <1>11, <1>12, <1>13, <1>14 DEF VerifyStep
<1> QED
  BY <1>1, <1>2, <1>3, <1>4, <1>5, <1>6, <1>10, <1>15, <1>16, <1>17
     DEF Next, FundStep, Quiet

LEMMA IInvHolds == Spec => []IInv
<1>1. Init => TypeOK /\ FundInv /\ JobInv /\ VerifyInv /\ CreditsAgree /\ DoneMeansSettled
  BY DepositAssumption
     DEF Init, TypeOK, FundInv, JobInv, VerifyInv,
         CreditsAgree, DoneMeansSettled, NoJob, JobType, Verifications
<1>2. Init => AskersInv
  <2> SUFFICES ASSUME Init, NEW p \in Payments
               PROVE  credits[p] <= Cardinality(Counted(p))
                                    + (IF vpc[p] \in Busy THEN 0 ELSE 1)
    BY DEF AskersInv
  <2>1. Cardinality(Counted(p)) \in Nat
    BY CountType DEF Counted
  <2>2. credits[p] = 0
    BY DEF Init
  <2> QED
    BY <2>1, <2>2
<1>3. Init => IInv
  BY <1>1, <1>2 DEF IInv
<1> QED
  BY <1>3, IInvStep, PTL DEF Spec

(* The variables keep their types; no job is ever given more attempts than  *)
(* it was added with.                                                       *)
THEOREM DepositTypeCorrect == Spec => []TypeOK
<1>1. IInv => TypeOK
  BY DEF IInv
<1> QED
  BY <1>1, IInvHolds, PTL

(* A deposit is COMPLETED exactly when the wallet was credited for it, only *)
(* after it was paid in full; FAILED only after the charge failed.          *)
THEOREM CreditsFollowPayments == Spec => []CreditsAgree
<1>1. IInv => CreditsAgree
  BY DEF IInv
<1> QED
  BY <1>1, IInvHolds, PTL

(* A completed job leaves a settled row. *)
THEOREM CompletedJobsSettle == Spec => []DoneMeansSettled
<1>1. IInv => DoneMeansSettled
  BY DEF IInv
<1> QED
  BY <1>1, IInvHolds, PTL

(* Two verifications never settle a row differently, though each writes the *)
(* status without looking: a final answer of the gateway is the same for    *)
(* both.                                                                    *)
THEOREM SettledRowsStay == Spec => SettledIsFinal
<1>1. IInv /\ [Next]_vars =>
        [\A p \in Payments :
           row[p] \in {"COMPLETED", "FAILED"} => row'[p] = row[p]]_vars
  <2> SUFFICES ASSUME IInv, Next, NEW p \in Payments,
                      row[p] \in {"COMPLETED", "FAILED"}, row'[p] # row[p]
               PROVE  FALSE
    OBVIOUS
  <2> USE DEF book, fund, verify
  <2>1. ASSUME NEW q \in Payments, InsertRow(q) PROVE FALSE
    BY <2>1 DEF InsertRow, IInv, FundInv, TypeOK
  <2>2. ASSUME NEW v \in Verifications, MarkFailed(v) PROVE FALSE
    BY <2>2 DEF MarkFailed, IInv, VerifyInv, CreditsAgree, TypeOK
  <2>3. ASSUME NEW v \in Verifications, Credit(v) PROVE FALSE
    BY <2>3 DEF Credit, IInv, VerifyInv, CreditsAgree, TypeOK
  <2>4. ASSUME NEW q \in Payments,
               InitiatePayment(q) \/ Enqueue(q) \/ FundFails(q) \/ Pay(q)
        PROVE  FALSE
    BY <2>4 DEF InitiatePayment, Enqueue, FundFails, Pay
  <2>5. ASSUME NEW v \in Verifications,
               \/ Ask(v) \/ StartJob(v) \/ ReadPending(v) \/ ReadSettled(v)
               \/ ReadNothing(v) \/ FetchFinal(v) \/ CouldNotVerify(v)
               \/ LockWallet(v) \/ Report(v) \/ CallFails(v)
        PROVE  FALSE
    BY <2>5 DEF Ask, StartJob, ReadPending, ReadSettled, ReadNothing, FetchFinal,
         CouldNotVerify, LockWallet, Report, CallFails, Reject
  <2>6. ~Crash /\ ~Quiet
    BY DEF Crash, Quiet, vars
  <2> QED
    BY <2>1, <2>2, <2>3, <2>4, <2>5, <2>6 DEF Next, FundStep, VerifyStep
<1> QED
  BY <1>1, IInvHolds, PTL DEF Spec, SettledIsFinal

(* A payment is credited once for its job, whatever attempts, throws and    *)
(* crashes the job goes through, and at most once for each webhook or       *)
(* client call about it.                                                    *)
THEOREM OneCreditPerAsker == Spec => []CreditedOncePerAsker
<1>1. IInv => CreditedOncePerAsker
  <2> SUFFICES ASSUME IInv, NEW p \in Payments
               PROVE  credits[p] <= 1 + Cardinality({c \in Callers : about[c] = p})
    BY DEF CreditedOncePerAsker
  <2> DEFINE A == {c \in Callers : about[c] = p}
  <2>1. Counted(p) \subseteq A /\ A \subseteq Callers
    BY DEF Counted
  <2>2. /\ Cardinality(Counted(p)) \in Nat /\ Cardinality(A) \in Nat
        /\ Cardinality(Counted(p)) <= Cardinality(A)
    BY <2>1, CountType
  <2>3. /\ credits[p] \in Nat
        /\ credits[p] <= Cardinality(Counted(p)) + (IF vpc[p] \in Busy THEN 0 ELSE 1)
    BY DEF IInv, TypeOK, AskersInv
  <2> QED
    BY <2>2, <2>3
<1> QED
  BY <1>1, IInvHolds, PTL

(* But for the number of credits the deposit code is the contract, however  *)
(* many verifications of a payment run at once.                             *)
THEOREM FundingRefinement == Spec => ImplementsFunding
<1>1. Init => Contract!Init
  BY DEF Init, Contract!Init
<1>2. IInv /\ [Next]_vars => [Contract!Next]_(Contract!book)
  <2> SUFFICES ASSUME IInv, [Next]_vars
               PROVE  [Contract!Next]_(Contract!book)
    OBVIOUS
  <2> USE DEF book, fund, verify, Contract!book
  <2>1. ASSUME NEW p \in Payments, InitiatePayment(p) PROVE Contract!Next
    BY <2>1 DEF InitiatePayment, IInv, FundInv, Contract!Next, Contract!Checkout
  <2>2. ASSUME NEW p \in Payments, InsertRow(p) PROVE Contract!Next
    BY <2>2 DEF InsertRow, IInv, FundInv, Contract!Next, Contract!Record
  <2>3. ASSUME NEW p \in Payments, Pay(p) PROVE Contract!Next
    <3>1. row[p] # "none" /\ checkout[p] = "open"
      BY <2>3 DEF Pay, IInv, FundInv
    <3> QED
      BY <2>3, <3>1 DEF Pay, Contract!Next, Contract!Checkout
  <2>4. ASSUME NEW v \in Verifications, MarkFailed(v)
        PROVE  Contract!Next \/ UNCHANGED Contract!book
    <3> DEFINE q == about[v]
    <3>1. /\ q \in Payments /\ checkout[q] = "failed"
          /\ row[q] \in {"PENDING", "FAILED"} /\ row \in [Payments -> {"none", "PENDING", "COMPLETED", "FAILED"}]
          /\ row' = [row EXCEPT ![q] = "FAILED"] /\ UNCHANGED <<checkout, credits>>
      BY <2>4 DEF MarkFailed, IInv, TypeOK, CreditsAgree, JobInv, VerifyInv
    <3>2. CASE row[q] = "PENDING"
      BY <3>1, <3>2 DEF Contract!Next, Contract!Settle
    <3>3. CASE row[q] = "FAILED"
      BY <3>1, <3>3
    <3> QED
      BY <3>1, <3>2, <3>3
  <2>5. ASSUME NEW v \in Verifications, Credit(v)
        PROVE  Contract!Next \/ UNCHANGED Contract!book
    <3> DEFINE q == about[v]
               once == [p \in Payments |-> IF credits[p] > 0 THEN 1 ELSE 0]
    <3>1. /\ q \in Payments /\ checkout[q] = "paid"
          /\ row[q] \in {"PENDING", "COMPLETED"} /\ row \in [Payments -> {"none", "PENDING", "COMPLETED", "FAILED"}]
          /\ row[q] = "COMPLETED" <=> credits[q] > 0
          /\ row' = [row EXCEPT ![q] = "COMPLETED"] /\ UNCHANGED checkout
          /\ credits' = [credits EXCEPT ![q] = @ + 1] /\ credits \in [Payments -> Nat]
      BY <2>5 DEF Credit, IInv, TypeOK, CreditsAgree, JobInv, VerifyInv
    <3>2. once' = [once EXCEPT ![q] = 1]
      <4>1. credits'[q] > 0 /\ \A p \in Payments \ {q} : credits'[p] = credits[p]
        BY <3>1
      <4> QED
        BY <3>1, <4>1, Zenon
    <3>3. CASE row[q] = "PENDING"
      BY <3>1, <3>2, <3>3 DEF Contract!Next, Contract!Settle
    <3>4. CASE row[q] = "COMPLETED"
      <4>1. once' = once
        BY <3>1, <3>2, <3>4
      <4> QED
        BY <3>1, <3>4, <4>1
    <3> QED
      BY <3>1, <3>3, <3>4
  <2>6. ASSUME NEW p \in Payments, Enqueue(p) \/ FundFails(p)
        PROVE  UNCHANGED Contract!book
    BY <2>6 DEF Enqueue, FundFails
  <2>7. ASSUME NEW v \in Verifications,
               \/ Ask(v) \/ StartJob(v) \/ ReadPending(v) \/ ReadSettled(v)
               \/ ReadNothing(v) \/ FetchFinal(v) \/ CouldNotVerify(v)
               \/ LockWallet(v) \/ Report(v) \/ CallFails(v)
        PROVE  UNCHANGED Contract!book
    BY <2>7 DEF Ask, StartJob, ReadPending, ReadSettled, ReadNothing, FetchFinal,
         CouldNotVerify, LockWallet, Report, CallFails, Reject
  <2>8. CASE Crash
    BY <2>8 DEF Crash
  <2>9. CASE UNCHANGED vars
    BY <2>9 DEF vars
  <2> QED
    BY <2>1, <2>2, <2>3, <2>4, <2>5, <2>6, <2>7, <2>8, <2>9
       DEF Next, FundStep, VerifyStep, Quiet
<1> QED
  BY <1>1, <1>2, IInvHolds, PTL DEF Spec, ImplementsFunding, Contract!Spec
=============================================================================
