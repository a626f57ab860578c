---------------------------- MODULE WalletProofs ----------------------------
(***************************************************************************)
(* Wallet, for every number of withdrawals, deposits, webhooks, callers    *)
(* and crashes.  The composition is first shown to be a withdrawal         *)
(* component and a deposit component, so that what WithdrawalsProofs and   *)
(* DepositsProofs say holds of it; then the balance: who writes it has     *)
(* read it under the lock, or has lost an update, and so the wallet        *)
(* implements the Ledger.                                                  *)
(***************************************************************************)
EXTENDS Wallet, FiniteSetTheorems, TLAPS

WP == INSTANCE WithdrawalsProofs WITH
        row <- wrow, job <- wjob, about <- wabout, vpc <- wvpc
DP == INSTANCE DepositsProofs WITH
        row <- drow, job <- djob, about <- dabout, vpc <- dvpc

(* The parts are those of the proofs.                                       *)
LEMMA WithdrawalPart ==
  /\ W!Init => WP!Init
  /\ [W!Next]_(W!vars) => [WP!Next]_(WP!vars)
BY DEF W!Init, WP!Init, W!vars, WP!vars, W!book, WP!book, W!request, WP!request,
  W!verify, WP!verify, W!Verifications, WP!Verifications,
  W!Next, WP!Next, W!RequestStep, WP!RequestStep, W!VerifyStep, WP!VerifyStep,
  W!Return, WP!Return, W!PayoutRefused, WP!PayoutRefused,
  W!PayoutAccepted, WP!PayoutAccepted, W!AnswerLost, WP!AnswerLost,
  W!InsertRow, WP!InsertRow, W!Debit, WP!Debit, W!DebitRefused, WP!DebitRefused,
  W!Enqueue, WP!Enqueue, W!EnqueueFails, WP!EnqueueFails, W!Decide, WP!Decide,
  W!DeliverHook, WP!DeliverHook, W!StartJob, WP!StartJob, W!Unlock, WP!Unlock,
  W!Reject, WP!Reject, W!Finish, WP!Finish, W!Fetch, WP!Fetch,
  W!CanScan, WP!CanScan, W!LockRow, WP!LockRow, W!NotFound, WP!NotFound,
  W!AlreadySettled, WP!AlreadySettled, W!Complete, WP!Complete,
  W!StillPending, WP!StillPending, W!Reverse, WP!Reverse, W!Ignored, WP!Ignored,
  W!CallFails, WP!CallFails, W!Report, WP!Report, W!Crash, WP!Crash,
  W!Quiet, WP!Quiet, W!Started, WP!Started, W!Succeeded, WP!Succeeded,
  W!Threw, WP!Threw, W!Stalled, WP!Stalled, W!Added, WP!Added, W!NoJob, WP!NoJob,
  W!Over, WP!Over

LEMMA DepositPart ==
  /\ D!Init => DP!Init
  /\ [D!Next]_(D!vars) => [DP!Next]_(DP!vars)
BY DEF D!Init, DP!Init, D!vars, DP!vars, D!book, DP!book, D!fund, DP!fund,
  D!verify, DP!verify, D!Verifications, DP!Verifications,
  D!Next, DP!Next, D!FundStep, DP!FundStep, D!VerifyStep, DP!VerifyStep,
  D!FundFails, DP!FundFails, D!InitiatePayment, DP!InitiatePayment,
  D!InsertRow, DP!InsertRow, D!Enqueue, DP!Enqueue, D!Pay, DP!Pay, D!Ask, DP!Ask,
  D!StartJob, DP!StartJob, D!Unlock, DP!Unlock, D!At, DP!At, D!Reject, DP!Reject,
  D!ReadPending, DP!ReadPending, D!ReadSettled, DP!ReadSettled,
  D!ReadNothing, DP!ReadNothing, D!FetchFinal, DP!FetchFinal,
  D!CouldNotVerify, DP!CouldNotVerify, D!MarkFailed, DP!MarkFailed,
  D!LockWallet, DP!LockWallet, D!Credit, DP!Credit, D!CallFails, DP!CallFails,
  D!Report, DP!Report, D!Crash, DP!Crash, D!Quiet, DP!Quiet,
  D!Started, DP!Started, D!Succeeded, DP!Succeeded, D!Threw, DP!Threw,
  D!Stalled, DP!Stalled, D!Added, DP!Added, D!NoJob, DP!NoJob, D!Over, DP!Over

(* A step of the wallet is a step of its withdrawals, of its deposits, or   *)
(* of both at once, when the process dies.                                  *)
LEMMA EveryStep ==
  [Next]_vars => [W!Next]_(W!vars) /\ [D!Next]_(D!vars)
<1> SUFFICES ASSUME [Next]_vars
             PROVE  [W!Next]_(W!vars) /\ [D!Next]_(D!vars)
  OBVIOUS
<1> USE DEF W!vars, W!book, W!request, W!verify, D!vars, D!book, D!fund, D!verify,
            withdrawal, deposit, wallet
<1>1. ASSUME NEW r \in Requests, W!RequestStep(r), UNCHANGED deposit
      PROVE  W!Next /\ UNCHANGED D!vars
  BY <1>1 DEF W!Next, W!RequestStep, W!PayoutRefused, W!PayoutAccepted, W!AnswerLost,
       W!InsertRow, W!Debit, W!DebitRefused, W!Enqueue, W!EnqueueFails
<1>2. ASSUME NEW v \in W!Verifications, W!VerifyStep(v) \/ W!CallFails(v) \/ W!DeliverHook(v),
             UNCHANGED deposit
      PROVE  W!Next /\ UNCHANGED D!vars
  BY <1>2 DEF W!Next, W!VerifyStep, W!StartJob, W!Fetch, W!LockRow, W!NotFound,
       W!AlreadySettled, W!Complete, W!StillPending, W!Reverse, W!Ignored, W!Report,
       W!CallFails, W!DeliverHook, W!Reject, W!Finish
<1>3. ASSUME NEW p \in Payments, D!FundStep(p) \/ D!FundFails(p) \/ D!Pay(p),
             UNCHANGED withdrawal
      PROVE  D!Next /\ UNCHANGED W!vars
  BY <1>3 DEF D!Next, D!FundStep, D!FundFails, D!InitiatePayment, D!InsertRow,
       D!Enqueue, D!Pay
<1>4. ASSUME NEW v \in D!Verifications, D!VerifyStep(v) \/ D!CallFails(v) \/ D!Ask(v),
             UNCHANGED withdrawal
      PROVE  D!Next /\ UNCHANGED W!vars
  BY <1>4 DEF D!Next, D!VerifyStep, D!StartJob, D!ReadPending, D!ReadSettled,
       D!ReadNothing, D!FetchFinal, D!CouldNotVerify, D!MarkFailed, D!LockWallet,
       D!Credit, D!Report, D!CallFails, D!Ask, D!Reject
<1>5. CASE \E r \in Requests : RequestStep(r)
  <2>1. PICK r \in Requests : RequestStep(r)
    BY <1>5
  <2>2. CASE ReadWallet(r)
    BY <2>2 DEF ReadWallet
  <2>3. CASE Order(r) \/ InsertWithdrawal(r) \/ Debit(r) \/ Answer(r)
    BY <1>1, <2>3 DEF Order, InsertWithdrawal, Debit, Answer, W!RequestStep
  <2> QED
    BY <2>1, <2>2, <2>3 DEF RequestStep
<1>6. CASE \E v \in W!Verifications : WithdrawalStep(v)
  BY <1>2, <1>6 DEF WithdrawalStep, StartWithdrawalJob, VerifyWithdrawal, Reverse,
       W!VerifyStep
<1>7. CASE \E p \in Payments : Fund(p)
  BY <1>3, <1>7 DEF Fund, D!FundStep
<1>8. CASE \E v \in D!Verifications : DepositStep(v)
  BY <1>4, <1>8 DEF DepositStep, StartDepositJob, VerifyDeposit, LockWallet, Credit,
       D!VerifyStep
<1>9. ASSUME NEW r \in Requests, W!Decide(r), UNCHANGED deposit
      PROVE  W!Next /\ UNCHANGED D!vars
  BY <1>9 DEF W!Next, W!Decide
<1>10. CASE Outside
  BY <1>2, <1>3, <1>4, <1>9, <1>10 DEF Outside, W!Verifications, D!Verifications
<1>11. CASE DeadlockVictim
  BY <1>2, <1>4, <1>11 DEF DeadlockVictim
<1>12. CASE Crash
  BY <1>12 DEF Crash, W!Next, D!Next
<1>13. CASE Quiet \/ UNCHANGED vars
  BY <1>13 DEF Quiet, vars, W!Quiet, D!Quiet
<1> QED
  BY <1>5, <1>6, <1>7, <1>8, <1>10, <1>11, <1>12, <1>13 DEF Next

(* Restricted to the variables of one part, a behaviour of the wallet is a  *)
(* behaviour of that part: locks and a worker that the other part holds     *)
(* only delay it.                                                           *)
THEOREM WalletIsItsParts == Spec => W!Spec /\ D!Spec
<1>1. Init => W!Init /\ D!Init
  BY DEF Init
<1> QED
  BY <1>1, EveryStep, PTL DEF Spec, W!Spec, D!Spec

(* What WithdrawalsProofs and DepositsProofs assume.                        *)
LEMMA PartAssumptions ==
  /\ Requests \cap Hooks = {} /\ Nobody \notin WP!Verifications
  /\ Outcomes \subseteq {"SUCCESSFUL", "FAILED", "OTHER"}
  /\ Payments \cap Callers = {} /\ Nobody \notin DP!Verifications
  /\ DP!IsFiniteSet(Callers)
  /\ MaxAttempts \in Nat \ {0} /\ MaxCrashes \in Nat
BY WalletAssumption DEF WP!Verifications, DP!Verifications, IsFiniteSet, DP!IsFiniteSet

(* So what was proved of withdrawals alone and of deposits alone holds of   *)
(* both together.                                                           *)
LEMMA PartsHold == Spec => [](WP!IInv /\ DP!IInv)
<1>1. Init => WP!Init /\ DP!Init
  BY WithdrawalPart, DepositPart DEF Init
<1>2. [Next]_vars => [WP!Next]_(WP!vars) /\ [DP!Next]_(DP!vars)
  BY EveryStep, WithdrawalPart, DepositPart
<1>3. WP!Spec => []WP!IInv
  BY PartAssumptions, WP!IInvHolds
<1>4. DP!Spec => []DP!IInv
  BY PartAssumptions, DP!IInvHolds
<1> QED
  BY <1>1, <1>2, <1>3, <1>4, PTL DEF Spec, WP!Spec, DP!Spec

-----------------------------------------------------------------------------
(* Counting entries *)

Entries(count) == UNION {{x} \X (1..count[x]) : x \in DOMAIN count}

Withdrawn == {r \in Requests : wrow[r] # "none"}

(* Finitely many calls with finitely many entries each have finitely many.  *)
LEMMA EntriesCount ==
  ASSUME NEW S, IsFiniteSet(S), NEW n \in Nat, NEW count \in [S -> 0..n]
  PROVE  /\ IsFiniteSet(Entries(count))
         /\ Cardinality(Entries(count)) \in Nat
         /\ Cardinality(Entries(count)) <= Cardinality(S) * n
<1>1. Entries(count) \subseteq S \X (1..n)
  BY DEF Entries
<1>2. IsFiniteSet(1..n) /\ Cardinality(1..n) = n
  BY FS_Interval
<1>3. /\ IsFiniteSet(S \X (1..n))
      /\ Cardinality(S \X (1..n)) = Cardinality(S) * n
  BY <1>2, FS_Product
<1> QED
  BY <1>1, <1>3, FS_Subset, FS_CardinalityType

LEMMA EntriesAdd ==
  ASSUME NEW S, IsFiniteSet(S), NEW n \in Nat, NEW count \in [S -> 0..n], NEW x \in S
  PROVE  Cardinality(Entries([count EXCEPT ![x] = @ + 1]))
           = Cardinality(Entries(count)) + 1
<1> DEFINE more == [count EXCEPT ![x] = @ + 1]
<1>1. /\ DOMAIN more = S /\ more[x] = count[x] + 1 /\ count[x] \in Nat
      /\ \A y \in S \ {x} : more[y] = count[y]
  OBVIOUS
<1>2. 1..(count[x] + 1) = 1..count[x] \cup {count[x] + 1}
  BY <1>1
<1>3. <<x, count[x] + 1>> \notin Entries(count)
  BY <1>1 DEF Entries
<1>4. Entries(more) = Entries(count) \cup {<<x, count[x] + 1>>}
  <2> HIDE DEF more
  <2>1. ASSUME NEW e \in Entries(more)
        PROVE  e \in Entries(count) \cup {<<x, count[x] + 1>>}
    <3>1. PICK y \in S : e \in {y} \X (1..more[y])
      BY <1>1 DEF Entries
    <3>2. CASE y = x
      <4>1. PICK i \in 1..more[x] : e = <<x, i>>
        BY <3>1, <3>2
      <4>2. CASE i = count[x] + 1
        BY <4>1, <4>2
      <4>3. CASE i # count[x] + 1
        <5>1. e \in {x} \X (1..count[x])
          BY <1>1, <1>2, <4>1, <4>3
        <5> QED
          BY <5>1 DEF Entries
      <4> QED
        BY <4>2, <4>3
    <3>3. CASE y # x
      BY <1>1, <3>1, <3>3 DEF Entries
    <3> QED
      BY <3>2, <3>3
  <2>2. ASSUME NEW e \in Entries(count)
        PROVE  e \in Entries(more)
    <3>1. PICK y \in S : e \in {y} \X (1..count[y])
      BY DEF Entries
    <3>2. 1..count[y] \subseteq 1..more[y]
      BY <1>1, <1>2
    <3> QED
      BY <1>1, <3>1, <3>2 DEF Entries
  <2>3. <<x, count[x] + 1>> \in Entries(more)
    <3>1. <<x, count[x] + 1>> \in {x} \X (1..more[x])
      BY <1>1
    <3> QED
      BY <1>1, <3>1 DEF Entries
  <2> QED
    BY <2>1, <2>2, <2>3
<1> QED
  BY <1>3, <1>4, EntriesCount, FS_AddElement

-----------------------------------------------------------------------------
(* The balance *)

(* The most the wallet can have been credited.                              *)
Credited == Opening + Amount * (Cardinality(Entries(credits)) + Cardinality(Entries(refunds)))

(* A debit has read the wallet; a credit has read it under the lock that it *)
(* still holds, so what it read is the balance.  No balance, read or        *)
(* written back, is more than was ever credited.                            *)
MoneyInv ==
  /\ balance \in Nat /\ lost \in BOOLEAN
  /\ seen \in [Requests \cup D!Verifications -> Nat \cup {Nobody}]
  /\ \A r \in Requests : rpc[r] \in {"insert", "debit"} => seen[r] # Nobody
  /\ \A v \in D!Verifications :
       dvpc[v] = "credit" => wlock = v /\ seen[v] = balance
  /\ balance <= Credited
  /\ \A x \in DOMAIN seen : seen[x] # Nobody => seen[x] <= Credited

IInv == WP!IInv /\ DP!IInv /\ MoneyInv

(* A withdrawal is refunded at most once, a deposit credited at most once   *)
(* for its job and once for each caller.                                    *)
LEMMA CountsBounded ==
  ASSUME WP!IInv, DP!IInv
  PROVE  /\ refunds \in [Requests -> 0..1]
         /\ credits \in [Payments -> 0..(1 + Cardinality(Callers))]
<1>1. Cardinality(Callers) \in Nat
  BY WalletAssumption, FS_CardinalityType
<1>2. ASSUME NEW p \in Payments PROVE credits[p] \in 0..(1 + Cardinality(Callers))
  <2>1. DP!Counted(p) \subseteq Callers
    BY DEF DP!Counted
  <2>2. /\ Cardinality(DP!Counted(p)) \in Nat
        /\ Cardinality(DP!Counted(p)) <= Cardinality(Callers)
    BY <2>1, WalletAssumption, FS_Subset, FS_CardinalityType
  <2>3. credits[p] \in Nat
    BY DEF DP!IInv, DP!TypeOK
  <2>4. DP!Cardinality(DP!Counted(p)) = Cardinality(DP!Counted(p))
    BY DEF DP!Cardinality, Cardinality, DP!IsFiniteSet, IsFiniteSet
  <2>5. credits[p] <= Cardinality(DP!Counted(p)) + (IF dvpc[p] \in DP!Busy THEN 0 ELSE 1)
    BY <2>4 DEF DP!IInv, DP!AskersInv
  <2> QED
    BY <1>1, <2>2, <2>3, <2>5
<1>3. credits \in [Payments -> Nat] /\ refunds \in [Requests -> Nat]
  BY DEF DP!IInv, DP!TypeOK, WP!IInv, WP!TypeOK
<1>4. \A r \in Requests : refunds[r] \in 0..1
  BY DEF WP!IInv, WP!RefundedAsSettled
<1> QED
  BY <1>2, <1>3, <1>4

LEMMA CreditedType ==
  ASSUME WP!IInv, DP!IInv
  PROVE  /\ Cardinality(Entries(credits)) \in Nat
         /\ Cardinality(Entries(refunds)) \in Nat
         /\ Credited \in Nat
         /\ Credited <= Opening + Amount * MostCredits
<1> DEFINE c == Cardinality(Entries(credits))
           f == Cardinality(Entries(refunds))
           most == Cardinality(Payments) * (1 + Cardinality(Callers))
<1>1. /\ Cardinality(Callers) \in Nat /\ Cardinality(Payments) \in Nat
      /\ Cardinality(Requests) \in Nat
  BY WalletAssumption, FS_CardinalityType
<1>2. c \in Nat /\ c <= most
  BY <1>1, CountsBounded, EntriesCount, WalletAssumption
<1>3. f \in Nat /\ f <= Cardinality(Requests) * 1
  BY <1>1, CountsBounded, EntriesCount, WalletAssumption
<1>4. most \in Nat
  BY <1>1
<1>5. \A x, y \in Nat : x <= y => Amount * x <= Amount * y /\ Amount * x \in Nat
  BY WalletAssumption
<1>6. c + f \in Nat /\ Cardinality(Requests) + most \in Nat /\ c + f <= Cardinality(Requests) + most
  BY <1>1, <1>2, <1>3, <1>4
<1> HIDE DEF c, f, most
<1>7. /\ Amount * (c + f) \in Nat
      /\ Amount * (c + f) <= Amount * (Cardinality(Requests) + most)
  BY <1>5, <1>6
<1>8. Amount * (Cardinality(Requests) + most) \in Nat
  BY <1>5, <1>6
<1> QED
  BY <1>2, <1>3, <1>7, <1>8, WalletAssumption DEF c, f, most, Credited, MostCredits

(* A credit of the wallet is one entry more.                                *)
LEMMA CreditedGrows ==
  ASSUME WP!IInv, DP!IInv
  PROVE  /\ \A p \in Payments :
              credits' = [credits EXCEPT ![p] = @ + 1] /\ UNCHANGED refunds
                => Credited' = Credited + Amount
         /\ \A r \in Requests :
              refunds' = [refunds EXCEPT ![r] = @ + 1] /\ UNCHANGED credits
                => Credited' = Credited + Amount
<1> DEFINE c == Cardinality(Entries(credits))
           f == Cardinality(Entries(refunds))
<1>1. c \in Nat /\ f \in Nat
  BY CreditedType
<1>2. 1 + Cardinality(Callers) \in Nat /\ IsFiniteSet(Payments)
  BY WalletAssumption, FS_CardinalityType
<1>3. ASSUME NEW p \in Payments, credits' = [credits EXCEPT ![p] = @ + 1], UNCHANGED refunds
      PROVE  c' = c + 1 /\ f' = f
  <2> DEFINE n == 1 + Cardinality(Callers)
  <2>1. n \in Nat /\ credits \in [Payments -> 0..n]
    BY <1>2, CountsBounded
  <2> HIDE DEF n
  <2>2. Cardinality(Entries([credits EXCEPT ![p] = @ + 1])) = c + 1
    BY <1>2, <2>1, EntriesAdd
  <2> QED
    BY <1>3, <2>2
<1>4. ASSUME NEW r \in Requests, refunds' = [refunds EXCEPT ![r] = @ + 1], UNCHANGED credits
      PROVE  c' = c /\ f' = f + 1
  BY <1>4, CountsBounded, EntriesAdd, WalletAssumption
<1>5. \A n \in Nat : Amount * (n + 1) = Amount * n + Amount
  BY WalletAssumption
<1>6. Credited = Opening + Amount * (c + f) /\ Credited' = Opening + Amount * (c' + f')
  BY DEF Credited
<1> HIDE DEF c, f
<1>7. ASSUME c' + f' = (c + f) + 1 PROVE Credited' = Credited + Amount
  BY <1>1, <1>5, <1>6, <1>7, WalletAssumption
<1> QED
  BY <1>1, <1>3, <1>4, <1>7

(* A step that posts no entry: the wallet may be read, locked or unlocked.  *)
Calm ==
  /\ UNCHANGED <<balance, lost, credits, refunds, Withdrawn>>
  /\ seen' \in [Requests \cup D!Verifications -> Nat \cup {Nobody}]
  /\ \A x \in DOMAIN seen : seen'[x] \in {seen[x], balance, Nobody}
  /\ \A r \in Requests : rpc'[r] \in {"insert", "debit"} => seen'[r] # Nobody
  /\ \A v \in D!Verifications :
       dvpc'[v] = "credit" => wlock' = v /\ seen'[v] = balance

(* A step of the withdrawals that writes neither row nor refund of a wallet. *)
LEMMA WithdrawalsCalm ==
  ASSUME IInv, UNCHANGED <<deposit, wallet, refunds>>, Withdrawn' = Withdrawn,
         \A r \in Requests :
           rpc'[r] \in {"insert", "debit"} => rpc[r] \in {"insert", "debit"} \/ seen[r] # Nobody
  PROVE  Calm
BY DEF Calm, IInv, MoneyInv, deposit, wallet

(* A step of the deposits that credits nothing; a lock is released only by  *)
(* its holder.                                                              *)
LEMMA DepositsCalm ==
  ASSUME IInv, UNCHANGED <<withdrawal, wallet, credits>>,
         NEW u \in D!Verifications,
         \A v \in D!Verifications \ {u} : dvpc'[v] = dvpc[v],
         dvpc'[u] # "credit",
         wlock' \in {wlock, IF wlock = u THEN Nobody ELSE wlock}
  PROVE  Calm
BY DEF Calm, IInv, MoneyInv, withdrawal, wallet, Withdrawn

(* Three kinds of steps post an entry.                                      *)
LEMMA StepKinds ==
  ASSUME IInv, [Next]_vars
  PROVE  \/ \E r \in Requests : Debit(r)
         \/ \E v \in D!Verifications : Credit(v)
         \/ \E v \in W!Verifications : Reverse(v)
         \/ Calm
<1> USE DEF W!book, W!request, W!verify, D!book, D!fund, D!verify
<1>a. /\ DOMAIN rpc = Requests /\ DOMAIN wrow = Requests
      /\ DOMAIN dvpc = D!Verifications /\ D!Verifications = Payments \cup Callers
      /\ W!Verifications = Requests \cup Hooks
      /\ DOMAIN wvpc = W!Verifications
  BY DEF IInv, WP!IInv, WP!TypeOK, DP!IInv, DP!TypeOK, DP!Verifications,
         WP!Verifications, D!Verifications, W!Verifications
<1>1. ASSUME NEW r \in Requests, RequestStep(r), ~Debit(r)
      PROVE  Calm
  <2>1. CASE ReadWallet(r)
    <3>1. /\ seen' = [seen EXCEPT ![r] = balance] /\ r \notin D!Verifications
          /\ UNCHANGED <<withdrawal, deposit, balance, lost>>
      BY <2>1, <1>a, WalletAssumption DEF ReadWallet
    <3>2. /\ seen'[r] = balance /\ \A x \in DOMAIN seen \ {r} : seen'[x] = seen[x]
          /\ seen' \in [Requests \cup D!Verifications -> Nat \cup {Nobody}]
          /\ balance # Nobody
      BY <3>1, WalletAssumption DEF IInv, MoneyInv
    <3>3. \A x \in Requests : rpc'[x] \in {"insert", "debit"} => seen'[x] # Nobody
      BY <3>1, <3>2 DEF IInv, MoneyInv, withdrawal
    <3>4. \A v \in D!Verifications :
            dvpc'[v] = "credit" => wlock' = v /\ seen'[v] = balance
      BY <3>1, <3>2 DEF IInv, MoneyInv, deposit
    <3> QED
      BY <3>1, <3>2, <3>3, <3>4 DEF Calm, withdrawal, deposit, Withdrawn
  <2>2. CASE Order(r)
    BY <2>2, <1>a, WithdrawalsCalm
       DEF Order, W!PayoutRefused, W!PayoutAccepted, W!AnswerLost, W!Return, Withdrawn
  <2>3. CASE InsertWithdrawal(r)
    BY <2>3, <1>a, WithdrawalsCalm DEF InsertWithdrawal, W!InsertRow, Withdrawn
  <2>4. CASE Answer(r)
    BY <2>4, <1>a, WithdrawalsCalm
       DEF Answer, W!DebitRefused, W!Enqueue, W!EnqueueFails, W!Return, Withdrawn
  <2> QED
    BY <1>1, <2>1, <2>2, <2>3, <2>4 DEF RequestStep
<1>2. ASSUME NEW v \in W!Verifications, UNCHANGED <<deposit, wallet>>,
             \/ W!StartJob(v) \/ W!Fetch(v) \/ W!LockRow(v) \/ W!NotFound(v)
             \/ W!AlreadySettled(v) \/ W!StillPending(v) \/ W!Ignored(v)
             \/ W!Report(v) \/ W!DeliverHook(v) \/ W!CallFails(v)
      PROVE  Calm
  BY <1>2, WithdrawalsCalm
     DEF W!StartJob, W!Fetch, W!LockRow, W!NotFound, W!AlreadySettled,
         W!StillPending, W!Ignored, W!Report, W!DeliverHook, W!CallFails,
         W!Reject, W!Finish, Withdrawn
<1>3. ASSUME NEW v \in W!Verifications, UNCHANGED <<deposit, wallet>>, W!Complete(v)
      PROVE  Calm
  <2>1. /\ wrow' = [wrow EXCEPT ![wabout[v]] = "COMPLETED"]
        /\ UNCHANGED <<rpc, refunds>> /\ wvpc[v] = "settle"
    BY <1>3 DEF W!Complete, W!Finish
  <2>2. wabout[v] \in Requests /\ wrow[wabout[v]] = "PENDING"
    BY <2>1, <1>a DEF IInv, WP!IInv, WP!JobInv, WP!VerifyInv, WP!Verifications
  <2>3. Withdrawn' = Withdrawn
    BY <2>1, <2>2, <1>a DEF Withdrawn
  <2> QED
    BY <1>3, <2>1, <2>3, WithdrawalsCalm
<1>4. ASSUME NEW v \in W!Verifications, WithdrawalStep(v), ~Reverse(v)
      PROVE  Calm
  BY <1>2, <1>3, <1>4 DEF WithdrawalStep, StartWithdrawalJob, VerifyWithdrawal
<1>5. ASSUME NEW r \in Requests, UNCHANGED <<deposit, wallet>>, W!Decide(r)
      PROVE  Calm
  BY <1>5, WithdrawalsCalm DEF W!Decide, Withdrawn
<1>6. ASSUME NEW p \in Payments, UNCHANGED <<withdrawal, wallet>>,
             \/ D!InitiatePayment(p) \/ D!InsertRow(p) \/ D!Enqueue(p)
             \/ D!FundFails(p) \/ D!Pay(p)
      PROVE  Calm
  BY <1>6 DEF D!InitiatePayment, D!InsertRow, D!Enqueue, D!FundFails, D!Pay,
              Calm, IInv, MoneyInv, withdrawal, wallet, Withdrawn
<1>7. ASSUME NEW v \in D!Verifications, UNCHANGED <<withdrawal, wallet>>,
             \/ D!StartJob(v) \/ D!ReadPending(v) \/ D!ReadSettled(v)
             \/ D!ReadNothing(v) \/ D!FetchFinal(v) \/ D!CouldNotVerify(v)
             \/ D!MarkFailed(v) \/ D!Report(v) \/ D!Ask(v) \/ D!CallFails(v)
      PROVE  Calm
  <2>1. /\ \E point \in {"idle", "read", "fetch", "fail", "lock", "report", "end"} :
             dvpc' = [dvpc EXCEPT ![v] = point]
        /\ wlock' \in {wlock, IF wlock = v THEN Nobody ELSE wlock}
        /\ UNCHANGED credits
    BY <1>7 DEF D!StartJob, D!ReadPending, D!ReadSettled, D!ReadNothing, D!FetchFinal,
         D!CouldNotVerify, D!MarkFailed, D!Report, D!Ask, D!CallFails, D!Reject,
         D!Unlock, D!At
  <2>2. dvpc'[v] # "credit" /\ \A u \in D!Verifications \ {v} : dvpc'[u] = dvpc[u]
    BY <2>1, <1>a
  <2> QED
    BY <1>7, <2>1, <2>2, DepositsCalm
<1>8. ASSUME NEW v \in D!Verifications, LockWallet(v)
      PROVE  Calm
  <2>1. /\ seen' = [seen EXCEPT ![v] = balance] /\ dvpc' = [dvpc EXCEPT ![v] = "credit"]
        /\ wlock = Nobody /\ wlock' = v
        /\ UNCHANGED <<withdrawal, balance, lost, credits>>
        /\ v \notin Requests
    BY <1>8, <1>a, WalletAssumption DEF LockWallet, D!LockWallet, D!At
  <2>2. \A u \in D!Verifications : dvpc[u] # "credit"
    BY <2>1, <1>a, WalletAssumption DEF IInv, MoneyInv
  <2>3. /\ seen'[v] = balance /\ \A x \in DOMAIN seen \ {v} : seen'[x] = seen[x]
        /\ dvpc'[v] = "credit" /\ \A u \in D!Verifications \ {v} : dvpc'[u] = dvpc[u]
        /\ seen' \in [Requests \cup D!Verifications -> Nat \cup {Nobody}]
    BY <2>1, <1>a DEF IInv, MoneyInv
  <2> QED
    BY <2>1, <2>2, <2>3, <1>a DEF Calm, IInv, MoneyInv, withdrawal, Withdrawn
<1>9. ASSUME NEW v \in D!Verifications, DepositStep(v), ~Credit(v)
      PROVE  Calm
  BY <1>7, <1>8, <1>9 DEF DepositStep, StartDepositJob, VerifyDeposit
<1>10. CASE Outside \/ DeadlockVictim
  BY <1>2, <1>5, <1>6, <1>7, <1>10, <1>a DEF Outside, DeadlockVictim
<1>11. CASE Crash
  <2>1. /\ seen' = [x \in DOMAIN seen |-> Nobody]
        /\ UNCHANGED <<balance, lost, credits, refunds, wrow>>
        /\ \A r \in Requests : rpc'[r] \notin {"insert", "debit"}
        /\ \A v \in D!Verifications : dvpc'[v] # "credit"
    BY <1>11 DEF Crash, W!Crash, D!Crash
  <2> QED
    BY <2>1 DEF Calm, IInv, MoneyInv, Withdrawn
<1>12. CASE UNCHANGED vars
  BY <1>12 DEF vars, withdrawal, deposit, wallet, Calm, IInv, MoneyInv, Withdrawn
<1>13. CASE Quiet
  BY <1>12, <1>13 DEF Quiet, W!Quiet, D!Quiet, W!vars, D!vars, vars, withdrawal, deposit
<1>14. CASE \E p \in Payments : Fund(p)
  BY <1>6, <1>14 DEF Fund
<1> QED
  BY <1>1, <1>4, <1>9, <1>10, <1>11, <1>12, <1>13, <1>14 DEF Next

(* A debit takes the amount off what its request has read, which may no     *)
(* longer be the balance; its row is one that was not there.                *)
LEMMA DebitEffect ==
  ASSUME IInv, NEW r \in Requests, Debit(r)
  PROVE  /\ seen[r] \in Nat /\ seen[r] >= Amount /\ seen[r] <= Credited
         /\ balance' = seen[r] - Amount
         /\ lost' = (lost \/ seen[r] # balance)
         /\ seen' = [seen EXCEPT ![r] = Nobody]
         /\ UNCHANGED <<credits, refunds, dvpc, wlock>>
         /\ \A x \in Requests \ {r} : rpc'[x] = rpc[x]
         /\ rpc'[r] \notin {"insert", "debit"}
         /\ \A v \in D!Verifications : dvpc[v] # "credit"
         /\ r \notin Withdrawn /\ Withdrawn' = Withdrawn \cup {r}
<1>1. /\ rpc[r] = "debit" /\ rpc' = [rpc EXCEPT ![r] = "enqueue"]
      /\ wrow' = [wrow EXCEPT ![r] = "PENDING"]
      /\ UNCHANGED <<credits, refunds, dvpc, wlock>>
      /\ wlock = Nobody
      /\ seen[r] >= Amount /\ balance' = seen[r] - Amount
      /\ lost' = (lost \/ seen[r] # balance)
      /\ seen' = [seen EXCEPT ![r] = Nobody]
  BY DEF Debit, W!Debit, CanLock, deposit
<1>2. seen[r] \in Nat /\ seen[r] <= Credited
  BY <1>1 DEF IInv, MoneyInv
<1>3. \A v \in D!Verifications : dvpc[v] # "credit"
  BY <1>1, WalletAssumption DEF IInv, MoneyInv, D!Verifications
<1>4. wrow[r] = "none" /\ DOMAIN wrow = Requests /\ DOMAIN rpc = Requests
  BY <1>1 DEF IInv, WP!IInv, WP!RequestInv, WP!TypeOK
<1>5. r \notin Withdrawn /\ Withdrawn' = Withdrawn \cup {r}
  BY <1>1, <1>4 DEF Withdrawn
<1> QED
  BY <1>1, <1>2, <1>3, <1>4, <1>5

(* What a credit of the wallet and a reversal have in common: the amount is *)
(* added to the balance, and nobody else is about to credit.                *)
Deposited ==
  /\ balance' = balance + Amount /\ lost' = lost
  /\ Credited' = Credited + Amount
  /\ \/ \E p \in Payments : credits' = [credits EXCEPT ![p] = @ + 1] /\ UNCHANGED refunds
     \/ \E r \in Requests : refunds' = [refunds EXCEPT ![r] = @ + 1] /\ UNCHANGED credits
  /\ Withdrawn' = Withdrawn
  /\ seen' \in [Requests \cup D!Verifications -> Nat \cup {Nobody}]
  /\ \A x \in DOMAIN seen : seen'[x] \in {seen[x], Nobody}
  /\ \A r \in Requests : rpc'[r] = rpc[r] /\ seen'[r] = seen[r]
  /\ \A v \in D!Verifications : dvpc'[v] # "credit"

(* A credit adds the amount to what it has read, which is the balance, for  *)
(* it still holds the lock.                                                 *)
LEMMA CreditEffect ==
  ASSUME IInv, NEW v \in D!Verifications, Credit(v)
  PROVE  Deposited
<1> DEFINE p == dabout[v]
<1>1. /\ dvpc[v] = "credit" /\ dvpc' = [dvpc EXCEPT ![v] = "report"]
      /\ credits' = [credits EXCEPT ![p] = @ + 1]
      /\ balance' = seen[v] + Amount /\ seen' = [seen EXCEPT ![v] = Nobody]
      /\ UNCHANGED <<wrow, refunds, rpc, lost>>
  BY DEF Credit, D!Credit, D!At, withdrawal
<1>2. wlock = v /\ seen[v] = balance
  BY <1>1 DEF IInv, MoneyInv
<1>3. p \in Payments /\ DOMAIN dvpc = D!Verifications
  BY <1>1 DEF IInv, DP!IInv, DP!JobInv, DP!TypeOK, DP!Verifications, D!Verifications
<1>4. v \notin Requests
  BY WalletAssumption DEF D!Verifications
<1>5. \A u \in D!Verifications : dvpc'[u] # "credit"
  BY <1>1, <1>2, <1>3 DEF IInv, MoneyInv
<1>6. /\ seen' \in [Requests \cup D!Verifications -> Nat \cup {Nobody}]
      /\ \A x \in DOMAIN seen : seen'[x] \in {seen[x], Nobody}
      /\ \A r \in Requests : seen'[r] = seen[r]
  BY <1>1, <1>4 DEF IInv, MoneyInv
<1>7. Credited' = Credited + Amount
  BY <1>1, <1>3, CreditedGrows DEF IInv
<1> QED
  BY <1>1, <1>2, <1>3, <1>5, <1>6, <1>7 DEF Deposited, Withdrawn

(* A reversal reads and writes the wallet under one lock; the row it fails  *)
(* was PENDING.                                                             *)
LEMMA ReversalEffect ==
  ASSUME IInv, NEW v \in W!Verifications, Reverse(v)
  PROVE  Deposited
<1> DEFINE r == wabout[v]
<1>1. /\ wvpc[v] = "settle" /\ wrow' = [wrow EXCEPT ![r] = "FAILED"]
      /\ refunds' = [refunds EXCEPT ![r] = @ + 1]
      /\ balance' = balance + Amount /\ wlock = Nobody
      /\ UNCHANGED <<credits, rpc, dvpc, seen, lost>>
  BY DEF Reverse, CanLock, W!Reverse, W!Finish, W!request, deposit
<1>2. /\ r \in Requests /\ wrow[r] = "PENDING" /\ DOMAIN wrow = Requests
  BY <1>1 DEF IInv, WP!IInv, WP!TypeOK, WP!JobInv, WP!VerifyInv, WP!Verifications,
     W!Verifications
<1>3. Withdrawn' = Withdrawn
  BY <1>1, <1>2 DEF Withdrawn
<1>4. \A u \in D!Verifications : dvpc'[u] # "credit"
  BY <1>1, WalletAssumption DEF IInv, MoneyInv, D!Verifications
<1>5. Credited' = Credited + Amount
  BY <1>1, <1>2, CreditedGrows DEF IInv
<1> QED
  BY <1>1, <1>2, <1>3, <1>4, <1>5 DEF Deposited, IInv, MoneyInv

(* Every step keeps the balance under what was credited, and what was read  *)
(* by who is to write.                                                      *)
LEMMA IInvStep == IInv /\ [Next]_vars => IInv'
<1> SUFFICES ASSUME IInv, [Next]_vars PROVE IInv'
  OBVIOUS
<1>1. WP!IInv'
  <2>1. [WP!Next]_(WP!vars)
    BY EveryStep, WithdrawalPart
  <2> QED
    BY <2>1, PartAssumptions, WP!IInvStep DEF IInv
<1>2. DP!IInv'
  <2>1. [DP!Next]_(DP!vars)
    BY EveryStep, DepositPart
  <2> QED
    BY <2>1, PartAssumptions, DP!IInvStep DEF IInv
<1>3. Credited \in Nat /\ Amount \in Nat \ {0}
  BY CreditedType, WalletAssumption DEF IInv
<1>4. ASSUME NEW r \in Requests, Debit(r) PROVE MoneyInv'
  <2>1. /\ seen[r] \in Nat /\ seen[r] >= Amount /\ seen[r] <= Credited
        /\ balance' = seen[r] - Amount /\ lost' = (lost \/ seen[r] # balance)
    BY <1>4, DebitEffect
  <2>2. balance' \in Nat /\ balance' <= Credited
    BY <1>3, <2>1
  <2>3. Credited' = Credited
    BY <1>4, DebitEffect DEF Credited
  <2>4. /\ seen' \in [Requests \cup D!Verifications -> Nat \cup {Nobody}]
        /\ \A x \in DOMAIN seen \ {r} : seen'[x] = seen[x]
        /\ seen'[r] = Nobody /\ DOMAIN seen' = DOMAIN seen
    BY <1>4, DebitEffect DEF IInv, MoneyInv
  <2>5. \A x \in Requests : rpc'[x] \in {"insert", "debit"} => seen'[x] # Nobody
    BY <1>4, <2>4, DebitEffect DEF IInv, MoneyInv
  <2>6. \A x \in DOMAIN seen' : seen'[x] # Nobody => seen'[x] <= Credited'
    BY <2>3, <2>4 DEF IInv, MoneyInv
  <2>7. \A v \in D!Verifications : dvpc'[v] # "credit"
    BY <1>4, DebitEffect
  <2> QED
    BY <2>1, <2>2, <2>3, <2>4, <2>5, <2>6, <2>7 DEF MoneyInv
<1>5. ASSUME Deposited PROVE MoneyInv'
  <2>1. balance' \in Nat /\ balance' <= Credited' /\ lost' \in BOOLEAN
    BY <1>3, <1>5 DEF Deposited, IInv, MoneyInv
  <2>2. \A x \in DOMAIN seen' : seen'[x] # Nobody => seen'[x] <= Credited'
    <3> SUFFICES ASSUME NEW x \in DOMAIN seen', seen'[x] # Nobody
                 PROVE  seen'[x] <= Credited'
      OBVIOUS
    <3>1. x \in DOMAIN seen /\ seen'[x] = seen[x] /\ seen[x] \in Nat
      BY <1>5 DEF Deposited, IInv, MoneyInv
    <3>2. seen[x] <= Credited
      BY <3>1 DEF IInv, MoneyInv
    <3> QED
      BY <1>3, <1>5, <3>1, <3>2 DEF Deposited
  <2> QED
    BY <1>5, <2>1, <2>2 DEF Deposited, IInv, MoneyInv
<1>6. ASSUME Calm PROVE MoneyInv'
  <2>1. Credited' = Credited
    BY <1>6 DEF Calm, Credited
  <2>2. \A x \in DOMAIN seen' : seen'[x] # Nobody => seen'[x] <= Credited'
    <3> SUFFICES ASSUME NEW x \in DOMAIN seen', seen'[x] # Nobody
                 PROVE  seen'[x] <= Credited'
      OBVIOUS
    <3>1. x \in DOMAIN seen /\ seen'[x] \in {seen[x], balance}
      BY <1>6 DEF Calm, IInv, MoneyInv
    <3> QED
      BY <2>1, <3>1 DEF IInv, MoneyInv
  <2> QED
    BY <1>6, <2>1, <2>2 DEF Calm, IInv, MoneyInv
<1>7. \A v \in D!Verifications : Credit(v) => Deposited
  BY CreditEffect
<1>8. \A v \in W!Verifications : Reverse(v) => Deposited
  BY ReversalEffect
<1>9. MoneyInv'
  BY <1>4, <1>5, <1>6, <1>7, <1>8, StepKinds
<1> QED
  BY <1>1, <1>2, <1>9 DEF IInv

LEMMA IInvHolds == Spec => []IInv
<1>1. Init => MoneyInv
  <2> SUFFICES ASSUME Init PROVE MoneyInv
    OBVIOUS
  <2>1. /\ credits = [p \in Payments |-> 0] /\ refunds = [r \in Requests |-> 0]
        /\ \A r \in Requests : rpc[r] = "order"
        /\ \A v \in D!Verifications : dvpc[v] = "idle"
        /\ balance = Opening /\ lost = FALSE
        /\ seen = [x \in Requests \cup D!Verifications |-> Nobody]
    BY DEF Init, W!Init, D!Init
  <2>2. Entries(credits) = {} /\ Entries(refunds) = {}
    <3>1. 1..0 = {}
      OBVIOUS
    <3> QED
      BY <2>1, <3>1 DEF Entries
  <2>3. Credited = Opening /\ Opening \in Nat
    BY <2>2, FS_EmptySet, WalletAssumption DEF Credited
  <2>4. balance \in Nat /\ balance <= Credited
    BY <2>1, <2>3
  <2>5. seen \in [Requests \cup D!Verifications -> Nat \cup {Nobody}]
    BY <2>1
  <2>6. \A x \in DOMAIN seen : seen[x] = Nobody
    BY <2>1
  <2> QED
    BY <2>1, <2>4, <2>5, <2>6 DEF MoneyInv
<1>2. WP!IInv /\ DP!IInv /\ MoneyInv <=> IInv
  BY DEF IInv
<1> QED
  BY <1>1, <1>2, IInvStep, PartsHold, PTL DEF Spec

(* The wallet's variables have their types: the balance is never negative.  *)
THEOREM WalletTypeCorrect == Spec => []TypeOK
<1>1. IInv => TypeOK
  BY DEF IInv, MoneyInv, TypeOK, WP!IInv, DP!IInv, WP!TypeOK, DP!TypeOK,
     W!TypeOK, D!TypeOK, W!Verifications, WP!Verifications, D!Verifications,
     DP!Verifications, W!JobType, WP!JobType, D!JobType, DP!JobType,
     W!Statuses, WP!Statuses
<1> QED
  BY <1>1, IInvHolds, PTL

-----------------------------------------------------------------------------
(* The ledger *)

(* The rows that count are those credited, and those withdrawn and not      *)
(* refunded; there are finitely many of either.                             *)
LEMMA ByRows ==
  IInv => /\ Funded = {p \in Payments : credits[p] > 0}
          /\ Standing = {r \in Withdrawn : refunds[r] = 0}
          /\ IsFiniteSet(Funded) /\ Cardinality(Funded) \in Nat
          /\ IsFiniteSet(Standing) /\ Cardinality(Standing) \in Nat
          /\ refunds \in [Requests -> 0..1] /\ credits \in [Payments -> Nat]
          /\ Credited \in Nat /\ Credited <= Opening + Amount * MostCredits
<1> SUFFICES ASSUME IInv
             PROVE  /\ Funded = {p \in Payments : credits[p] > 0}
                    /\ Standing = {r \in Withdrawn : refunds[r] = 0}
                    /\ IsFiniteSet(Funded) /\ Cardinality(Funded) \in Nat
                    /\ IsFiniteSet(Standing) /\ Cardinality(Standing) \in Nat
                    /\ refunds \in [Requests -> 0..1] /\ credits \in [Payments -> Nat]
                    /\ Credited \in Nat /\ Credited <= Opening + Amount * MostCredits
  OBVIOUS
<1>1. Funded = {p \in Payments : credits[p] > 0}
  BY DEF Funded, IInv, DP!IInv, DP!CreditsAgree
<1>2. Standing = {r \in Withdrawn : refunds[r] = 0}
  BY DEF Standing, Withdrawn, IInv, WP!IInv, WP!RefundedAsSettled
<1>3. Funded \subseteq Payments /\ Standing \subseteq Requests
  BY DEF Funded, Standing
<1>4. /\ IsFiniteSet(Funded) /\ Cardinality(Funded) \in Nat
      /\ IsFiniteSet(Standing) /\ Cardinality(Standing) \in Nat
  BY <1>3, WalletAssumption, FS_Subset, FS_CardinalityType
<1>5. refunds \in [Requests -> 0..1] /\ credits \in [Payments -> Nat]
  BY CountsBounded DEF IInv, DP!IInv, DP!TypeOK
<1> QED
  BY <1>1, <1>2, <1>4, <1>5, CreditedType DEF IInv

(* One row more that counts, or one less, moves the books by the amount.    *)
Held(f, s) == Opening + Amount * (f - s)

LEMMA BooksMove ==
  ASSUME NEW f \in Nat, NEW s \in Nat
  PROVE  /\ Held(f, s) \in Int
         /\ Held(f + 1, s) = Held(f, s) + Amount
         /\ Held(f, s + 1) = Held(f, s) - Amount
<1>1. \A x \in Int : /\ Amount * x \in Int
                     /\ Amount * (x + 1) = Amount * x + Amount
                     /\ Amount * (x - 1) = Amount * x - Amount
  BY WalletAssumption
<1>2. /\ f - s \in Int /\ (f + 1) - s = (f - s) + 1 /\ f - (s + 1) = (f - s) - 1
      /\ Opening \in Int /\ Amount \in Int
  BY WalletAssumption
<1> DEFINE x == f - s
<1> HIDE DEF x
<1>3. x \in Int /\ Amount * x \in Int
  BY <1>1, <1>2 DEF x
<1>4. Amount * ((f + 1) - s) = Amount * x + Amount
  BY <1>1, <1>2 DEF x
<1>5. Amount * (f - (s + 1)) = Amount * x - Amount
  BY <1>1, <1>2 DEF x
<1> QED
  BY <1>2, <1>3, <1>4, <1>5 DEF x, Held

(* Deposits, withdrawals and refunds are entries of the Ledger: the balance *)
(* moves with the rows, by the same amount, unless a debit has lost an      *)
(* update; a credit of a row that is COMPLETED already is the Ledger's      *)
(* Repeat.                                                                  *)
THEOREM WalletRefinesLedger == Spec => ImplementsLedger
<1>1. Init => Books!Init
  <2> SUFFICES ASSUME Init PROVE OnTheBooks = Opening /\ ~CreditedTwice /\ ~lost
    BY DEF Init, Books!Init, Row
  <2>1. /\ \A r \in Requests : wrow[r] = "none"
        /\ \A p \in Payments : drow[p] = "none" /\ credits[p] = 0
        /\ lost = FALSE
    BY DEF Init, W!Init, D!Init
  <2>2. Funded = {} /\ Standing = {}
    BY <2>1 DEF Funded, Standing
  <2>3. OnTheBooks = Opening + Amount * (0 - 0)
    BY <2>2, FS_EmptySet DEF OnTheBooks
  <2> QED
    BY <2>1, <2>3, WalletAssumption DEF CreditedTwice
<1>2. IInv' => /\ (Funded = {p \in Payments : credits[p] > 0})'
               /\ (Standing = {r \in Withdrawn : refunds[r] = 0})'
               /\ (IsFiniteSet(Funded))' /\ (Cardinality(Funded) \in Nat)'
               /\ (IsFiniteSet(Standing))' /\ (Cardinality(Standing) \in Nat)'
               /\ (refunds \in [Requests -> 0..1])' /\ (credits \in [Payments -> Nat])'
               /\ (Credited \in Nat)'
               /\ (Credited <= Opening + Amount * MostCredits)'
  BY ByRows, PTL
<1>3. IInv /\ IInv' /\ [Next]_vars => [Books!Next]_(Books!entry)
  <2> SUFFICES ASSUME IInv, IInv', [Next]_vars
               PROVE  Books!Next \/ UNCHANGED Books!entry
    OBVIOUS
  <2> DEFINE most == Opening + Amount * MostCredits
             f == Cardinality(Funded)
             s == Cardinality(Standing)
  <2>1. /\ Credited \in Nat /\ Credited' \in Nat /\ Amount \in Nat \ {0}
        /\ Credited <= most /\ Credited' <= most
    BY <1>2, ByRows, WalletAssumption DEF MostCredits
  <2>a. f \in Nat /\ s \in Nat /\ f' \in Nat /\ s' \in Nat
    BY <1>2, ByRows
  <2>2. /\ balance \in Nat /\ balance' \in Nat /\ balance' <= Credited'
        /\ lost \in BOOLEAN /\ lost' \in BOOLEAN
    BY DEF IInv, MoneyInv
  <2>3. most \in Int
    BY WalletAssumption, FS_CardinalityType DEF MostCredits
  <2> HIDE DEF most
  <2>4. balance' \in 0..most
    BY <2>1, <2>2, <2>3
  <2>b. OnTheBooks = Held(f, s) /\ OnTheBooks' = Held(f', s')
    BY DEF OnTheBooks, Held
  <2>c. CreditedTwice \in BOOLEAN /\ CreditedTwice' \in BOOLEAN
    BY DEF CreditedTwice
  <2> HIDE DEF f, s
  <2>5. ASSUME NEW n \in Int, n = Amount \/ n = -Amount,
               OnTheBooks' = OnTheBooks + n,
               lost => lost',
               CreditedTwice' <=> CreditedTwice,
               ~lost' => balance' = balance + n
        PROVE  Books!Post([v \in Row |-> n])
    <3> DEFINE t == lost \/ CreditedTwice
    <3>1. /\ t \in BOOLEAN /\ t' \in BOOLEAN /\ (t => t')
          /\ (~t' => balance' = balance + n)
      BY <2>2, <2>c, <2>5
    <3>2. n # 0
      BY <2>1, <2>5
    <3> HIDE DEF t
    <3>3. [w \in Row |-> lost \/ CreditedTwice] = [w \in Row |-> t]
          /\ [w \in Row |-> lost' \/ CreditedTwice'] = [w \in Row |-> t']
      BY DEF t
    <3> QED
      BY <2>4, <2>5, <3>1, <3>2, <3>3 DEF Books!Post, Row, most
  <2>6. ASSUME Amount <= most, NEW n \in Int, n = Amount \/ n = -Amount,
               Books!Post([v \in Row |-> n])
        PROVE  Books!Next
    <3>1. Amount \in 1..most
      BY <2>1, <2>3, <2>6
    <3>2. \/ [v \in Row |-> n] = [v \in Row |-> IF v = "wallet" THEN -Amount ELSE 0]
          \/ [v \in Row |-> n] = [v \in Row |-> IF v = "wallet" THEN Amount ELSE 0]
      BY <2>6 DEF Row
    <3>3. Books!Debit("wallet", Amount) \/ Books!Credit("wallet", Amount)
      BY <2>6, <3>2 DEF Books!Debit, Books!Credit
    <3>4. "wallet" \in Row
      BY DEF Row
    <3> QED
      BY <3>1, <3>3, <3>4 DEF Books!Next, most
  <2>7. ASSUME NEW r \in Requests, Debit(r) PROVE Books!Next
    <3>1. /\ seen[r] \in Nat /\ seen[r] >= Amount /\ seen[r] <= Credited
          /\ balance' = seen[r] - Amount /\ lost' = (lost \/ seen[r] # balance)
          /\ UNCHANGED <<credits, refunds>>
          /\ r \notin Withdrawn /\ Withdrawn' = Withdrawn \cup {r}
      BY <2>7, DebitEffect
    <3>2. f' = f /\ s' = s + 1
      <4>1. Funded' = Funded
        BY <1>2, <3>1, ByRows
      <4>2. wrow[r] = "none" /\ refunds[r] = 0
        BY <3>1 DEF Withdrawn, IInv, WP!IInv, WP!RefundedAsSettled
      <4>3. Standing' = Standing \cup {r} /\ r \notin Standing
        BY <1>2, <3>1, <4>2, ByRows
      <4>4. Cardinality(Standing') = Cardinality(Standing) + 1
        BY <4>3, ByRows, FS_AddElement
      <4> QED
        BY <4>1, <4>4 DEF f, s
    <3>3. CreditedTwice' <=> CreditedTwice
      BY <3>1 DEF CreditedTwice
    <3>4. OnTheBooks' = OnTheBooks - Amount /\ OnTheBooks \in Int
      BY <2>a, <2>b, <3>2, BooksMove
    <3>5. -Amount \in Int /\ OnTheBooks' = OnTheBooks + (-Amount)
          /\ (~lost' => balance' = balance + (-Amount))
      <4>1. balance' = seen[r] - Amount /\ seen[r] \in Int
        BY <3>1
      <4>2. \A a, b \in Int : a - b = a + (-b) /\ -b \in Int
        OBVIOUS
      <4>3. ~lost' => seen[r] = balance
        BY <3>1
      <4>4. Amount \in Int
        BY WalletAssumption
      <4> QED
        BY <3>4, <4>1, <4>2, <4>3, <4>4
    <3>6. Books!Post([v \in Row |-> -Amount])
      BY <2>5, <3>1, <3>3, <3>5
    <3>7. Amount <= most
      BY <2>1, <2>3, <3>1
    <3> QED
      BY <2>6, <3>5, <3>6, <3>7
  <2>8. ASSUME balance' = balance + Amount, lost' = lost,
               OnTheBooks' = OnTheBooks + Amount, CreditedTwice' <=> CreditedTwice
        PROVE  Books!Next
    <3>1. Amount \in Int /\ Amount <= most
      BY <2>1, <2>2, <2>3, <2>4, <2>8
    <3>2. Books!Post([v \in Row |-> Amount])
      BY <2>5, <2>8, <3>1
    <3> QED
      BY <2>6, <3>1, <3>2
  <2>9. ASSUME Deposited, NEW p \in Payments,
               credits' = [credits EXCEPT ![p] = @ + 1], UNCHANGED refunds
        PROVE  Books!Next
    <3>1. balance' = balance + Amount /\ lost' = lost /\ Withdrawn' = Withdrawn
      BY <2>9 DEF Deposited
    <3>2. s' = s
      BY <1>2, <2>9, <3>1, ByRows DEF s
    <3>3. /\ credits[p] \in Nat /\ credits'[p] = credits[p] + 1
          /\ \A q \in Payments \ {p} : credits'[q] = credits[q]
      BY <2>9, ByRows
    <3>4. CASE credits[p] = 0
      <4>1. Funded' = Funded \cup {p} /\ p \notin Funded
        BY <1>2, <3>3, <3>4, ByRows
      <4>2. f' = f + 1
        BY <4>1, ByRows, FS_AddElement DEF f
      <4>3. OnTheBooks' = OnTheBooks + Amount
        BY <2>a, <2>b, <3>2, <4>2, BooksMove
      <4>4. CreditedTwice' <=> CreditedTwice
        BY <3>3, <3>4 DEF CreditedTwice
      <4> QED
        BY <2>8, <3>1, <4>3, <4>4
    <3>5. CASE credits[p] # 0
      <4>1. Funded' = Funded
        <5>1. \A q \in Payments : credits'[q] > 0 <=> credits[q] > 0
          BY <3>3, <3>5
        <5> QED
          BY <1>2, <5>1, ByRows
      <4>2. OnTheBooks' = OnTheBooks
        BY <2>b, <3>2, <4>1 DEF f
      <4>3. CreditedTwice'
        BY <3>3, <3>5 DEF CreditedTwice
      <4>4. "wallet" \in Row /\ Amount \in 1..most /\ balance + Amount <= most
        BY <2>1, <2>2, <2>3, <2>4, <3>1 DEF Row
      <4>5. Books!Repeat("wallet", Amount)
        BY <3>1, <4>2, <4>3, <4>4 DEF Books!Repeat, Row, most
      <4> QED
        BY <4>4, <4>5 DEF Books!Next, most
    <3> QED
      BY <3>4, <3>5
  <2>10. ASSUME Deposited, NEW r \in Requests,
                refunds' = [refunds EXCEPT ![r] = @ + 1], UNCHANGED credits
         PROVE  Books!Next
    <3>1. balance' = balance + Amount /\ lost' = lost /\ Withdrawn' = Withdrawn
      BY <2>10 DEF Deposited
    <3>2. f' = f
      BY <1>2, <2>10, ByRows DEF f
    <3>3. /\ refunds[r] = 0 /\ refunds'[r] = 1
          /\ \A q \in Requests \ {r} : refunds'[q] = refunds[q]
      BY <1>2, <2>10, ByRows
    <3>4. r \in Withdrawn
      <4>1. wrow'[r] = "FAILED"
        BY <3>3 DEF IInv, WP!IInv, WP!RefundedAsSettled
      <4> QED
        BY <3>1, <4>1 DEF Withdrawn
    <3>5. Standing' = Standing \ {r} /\ r \in Standing
      <4>1. \A q \in Withdrawn : q \in Requests
        BY DEF Withdrawn
      <4>2. \A q \in Withdrawn : refunds'[q] = 0 <=> refunds[q] = 0 /\ q # r
        BY <3>3, <4>1
      <4>3. Standing = {q \in Withdrawn : refunds[q] = 0}
            /\ Standing' = {q \in Withdrawn : refunds'[q] = 0}
        BY <1>2, <3>1, ByRows
      <4> QED
        BY <3>3, <3>4, <4>2, <4>3
    <3>6. s = s' + 1
      <4>1. Standing = Standing' \cup {r} /\ r \notin Standing'
        BY <3>5
      <4>2. IsFiniteSet(Standing')
        BY <1>2
      <4> QED
        BY <4>1, <4>2, FS_AddElement DEF s
    <3>7. OnTheBooks = OnTheBooks' - Amount /\ OnTheBooks' \in Int
      BY <2>a, <2>b, <3>2, <3>6, BooksMove
    <3>8. OnTheBooks' = OnTheBooks + Amount
      <4>1. \A a, b \in Int : a = (a - b) + b
        OBVIOUS
      <4>2. Amount \in Int
        BY WalletAssumption
      <4> QED
        BY <3>7, <4>1, <4>2
    <3>9. CreditedTwice' <=> CreditedTwice
      BY <2>10 DEF CreditedTwice
    <3> QED
      BY <2>8, <3>1, <3>8, <3>9
  <2>11. ASSUME Calm PROVE UNCHANGED Books!entry
    <3>1. UNCHANGED <<balance, lost, credits, refunds>> /\ Withdrawn' = Withdrawn
      BY <2>11 DEF Calm
    <3>2. Funded' = Funded /\ Standing' = Standing
      BY <1>2, <3>1, ByRows
    <3>3. OnTheBooks' = OnTheBooks /\ CreditedTwice' = CreditedTwice
      BY <3>1, <3>2 DEF OnTheBooks, CreditedTwice
    <3> QED
      BY <3>1, <3>3 DEF Books!entry, Row
  <2>12. Deposited => Books!Next
    BY <2>9, <2>10 DEF Deposited
  <2> QED
    BY <2>7, <2>11, <2>12, CreditEffect, ReversalEffect, StepKinds
<1> QED
  BY <1>1, <1>3, IInvHolds, PTL DEF Spec, ImplementsLedger, Books!Spec

-----------------------------------------------------------------------------
(* The contracts of the parts *)

(* Together with the deposits, withdrawals still implement Settlement, and  *)
(* together with the withdrawals, deposits still implement Funding: locks   *)
(* and a worker they share delay a step and change none.                    *)
THEOREM WalletKeepsContracts ==
  Spec => W!ImplementsSettlement /\ D!ImplementsFunding
<1>1. Init => WP!Init /\ DP!Init
  BY WithdrawalPart, DepositPart DEF Init
<1>2. [Next]_vars => [WP!Next]_(WP!vars) /\ [DP!Next]_(DP!vars)
  BY EveryStep, WithdrawalPart, DepositPart
<1>3. WP!Spec => WP!ImplementsSettlement
  BY PartAssumptions, WP!SettlementRefinement
<1>4. DP!Spec => DP!ImplementsFunding
  BY PartAssumptions, DP!FundingRefinement
<1>5. WP!ImplementsSettlement => W!ImplementsSettlement
  <2>1. WP!Contract!Init => W!Contract!Init
    BY DEF WP!Contract!Init, W!Contract!Init
  <2>2. [WP!Contract!Next]_(WP!Contract!book) => [W!Contract!Next]_(W!Contract!book)
    BY DEF WP!Contract!Next, W!Contract!Next, WP!Contract!book, W!Contract!book,
      WP!Contract!Order, W!Contract!Order, WP!Contract!Decide, W!Contract!Decide,
      WP!Contract!Record, W!Contract!Record, WP!Contract!Complete, W!Contract!Complete,
      WP!Contract!Reverse, W!Contract!Reverse
  <2> QED
    BY <2>1, <2>2, PTL DEF WP!ImplementsSettlement, W!ImplementsSettlement,
      WP!Contract!Spec, W!Contract!Spec
<1>6. DP!ImplementsFunding => D!ImplementsFunding
  <2>1. DP!Contract!Init => D!Contract!Init
    BY DEF DP!Contract!Init, D!Contract!Init
  <2>2. [DP!Contract!Next]_(DP!Contract!book) => [D!Contract!Next]_(D!Contract!book)
    BY DEF DP!Contract!Next, D!Contract!Next, DP!Contract!book, D!Contract!book,
      DP!Contract!Checkout, D!Contract!Checkout, DP!Contract!Record, D!Contract!Record,
      DP!Contract!Settle, D!Contract!Settle
  <2> QED
    BY <2>1, <2>2, PTL DEF DP!ImplementsFunding, D!ImplementsFunding,
      DP!Contract!Spec, D!Contract!Spec
<1> QED
  BY <1>1, <1>2, <1>3, <1>4, <1>5, <1>6, PTL DEF Spec, WP!Spec, DP!Spec
=============================================================================
