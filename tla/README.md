# Wendian in TLA+

Wendian is a NestJS wallet service: customers fund a wallet through a payment
gateway (Flutterwave), move money to each other, and withdraw to a bank. It
keeps its state in MySQL (Knex), its background jobs in BullMQ and its one-time
codes in a cache. This directory holds TLA+ modules for the parts that
change state, TLC configurations that check them on small instances, and
proofs checked by TLAPS that hold for every instance. Source paths below are
relative to `src/` of the repository (`src/src/...` in `PROJECT.json`).

## 1. The system

| Part | State | Operations | Interacts with |
|---|---|---|---|
| Wallet ledger (`wallet/wallet.service.ts`, `transactions/transactions.service.ts`) | `wallets.balance`, rows of `transactions` and `transfers` | transfer, withdrawal debit, deposit credit, reversal | MySQL row locks |
| Withdrawals | payout at the gateway, WITHDRAWAL row, REFUND row, job | `walletWithdrawal`, `verifyWithdrawal`, `webhookHandler`, processor | gateway, BullMQ, ledger |
| Deposits | checkout at the gateway, DEPOSIT row, job | `fundWallet`, `verifyFundingPayment` from job, webhook and client | gateway, BullMQ, ledger |
| Accounts (`users/services/auth.service.ts`, `users.service.ts`) | `users` row, code in the cache, token, mail job | register, log in, resend, forgot, reset, rename | cache, BullMQ, Karma |
| Wallet creation (`users.service.ts`, `wallet.service.ts`) | `wallets`, `virtual_accounts` rows, account at the gateway | `createWallet`, `handleWalletCreation` | gateway inside a transaction, Karma |
| Search (`db/repositories/base.repository.ts`) | none | `findPaged` | every writer of the table |
| Bank list (`app.service.ts`) | `banks` | `getBanks` fills an empty table | gateway |
| Guards, tokens, validators, hashing | none, but who holds a token | decide from a request | |
| Mail | none but its queue | two kinds of mail | SMTP |
| File storage, dashboard, interceptors, setup | none | I/O and layout | |

What is hard here is what happens between two awaits. Nearly every operation
reads without a lock, calls a gateway, and writes later. Several actors do the
same thing to the same row: a job with ten attempts, a webhook, and the
customer. The process may die at any await; MySQL then rolls back, BullMQ runs
a stalled job again, and the gateway keeps what it was asked to do. The list of
hazards, each at its line, is under `hazards` in `PROJECT.json`; the properties
below are stated for them.

What makes each part correct:

* ledger: the balance is the net of the rows; a wallet is never overdrawn;
  a transfer appears on both sides at once; a payout is given back once;
  locks never stop everybody;
* withdrawals and deposits: a row is settled once, as the gateway settled it,
  and the money moves exactly when the row says so; every job comes to an end,
  and a row that stays PENDING does so for a reason that can be told;
* accounts: an email is registered once, a username is unique and changes only
  by its owner, an account opens only to a password chosen with a code sent to
  its email, a reset needs a code issued to the same email and not older than
  it says, a spent code is gone;
* wallet creation: one wallet and one account per user, no orphans but those
  of calls that the gateway heard and that failed;
* bank list: everybody is served one list, however many first calls race, and
  an account opened once the list is there carries the code of its bank;
* a wallet as a whole: withdrawals and deposits of one wallet leave it as if
  they had been posted one after the other, and neither keeps the other waiting
  for ever;
* search: a client that walks the pages misses nothing and sees nothing twice,
  as far as offsets can promise that.

## 2. The modules

A handler (request, verification, walk) is one call of the service. The event
loop interleaves handlers at their awaits, so an action is what the code does
between two awaits that matter, with every state change of that stretch. Every
mapped definition, and the lines it stands for, is in `PROJECT.json` under
`map`. An operator introduced by a comment `Mutant of X` is a plausible mistake
in `X`: it is used by no specification, only to show that a property depends on
what `X` does.

**Jobs** is BullMQ as the code uses it: a job record with a state, attempts left
and whether it has stalled. Delays only mean "later".

**WalletLedger** holds the balances and the calls that write them. `LockFrom`, `LockTo`
and `CommitTransfer` are `walletTransfer`; note that `seenFrom` and `seenTo`,
the balances it writes from, are set when the call begins (`CallTransfer`,
`ReadTo`) and not when the rows are locked, as in the code. `InsertWithdrawal`
takes the shared lock of the foreign key and `CommitWithdrawal` upgrades it,
after `PayoutOrdered`. `LockWallet`, `CommitDeposit`, `LockRow`,
`CommitReversal` are the crediting calls, which write the row they locked.
`audit` is the net of the rows that count: those a transfer or a withdrawal
inserts, a DEPOSIT row once it is COMPLETED, a WITHDRAWAL row unless it is
FAILED. The DEPOSIT rows (`deposits`, one per member of `Payments`) exist when
the calls begin, PENDING. `CallDeposit` tests the status without a lock and
before the gateway is asked, and `CommitDeposit` does not test it again: it
credits the wallet and sets the row to COMPLETED, and if the row was that
already (`Repeats`) the money is there once more and `audit` is what it was.
`DeadlockVictim` and `StatementFails` roll back. The history variables `lost`
and `fresh` record whether a commit overwrote another. Statements of one
transaction that need no further lock are one action with its commit.

**Ledger** is the contract: a committed call is one entry that moves history and
balance alike, except on tainted wallets; or a deposit credited once more
(`Repeat`), which adds money and no entry, and taints the wallet. `WalletLedger`
implements it with `tainted <- Tainted`: a stale debit has overwritten a commit
of the wallet, or one of its DEPOSIT rows was credited by two verifications.

**Withdrawals** goes from the request to the settlement: `PayoutAccepted` (or refused, or the answer
lost), `InsertRow`, `Debit`, `Enqueue`; then verifications, by the job
(`StartJob`) or a webhook (`DeliverHook`): `Fetch`, `LockRow`, `Complete`,
`StillPending`, `Reverse` or `Ignored`, `Report`. `CallFails` and `Crash` may
strike at any of them. The row is looked up by `external_reference` alone, over
all users and types of row: the model takes the identifiers of transfers as
distinct, and as different from those of charges. **Settlement** is its
contract. `PendingHasACause` lists the ways in which a debited withdrawal may
stay PENDING, with `GivenUp` for the job whose attempts are used up, whose
worker was lost twice, or which met a status that no branch names.

**Deposits** does the same for `fundWallet` and `verifyFundingPayment`, whose
read (`ReadPending`) takes no lock and whose `Credit` does not look at the
status again. **Funding** is the contract of a payment that is credited or not:
Deposits implements it whoever asks, a second credit of a payment being a
stutter; that the second credit exists is what `deposit_credited_once` shows,
and `CreditedOncePerAsker` says how far it goes.

**Wallet** runs Withdrawals and Deposits on one wallet. Both are instances whose actions
it conjoins with what the code makes them share: the wallet row (exclusive for
a credit from its read to its commit, for a debit and for a reversal, shared
for the foreign key of an inserted row), the scan of `verifyWithdrawal`, which
locks every row of `transactions`, the one worker of the queue (`@Processor`
with no concurrency), and the process that crashes. It adds the balance, the
balance a debit or a credit has read (`seen`), and `lost`, set when a debit
overwrites a balance it had not read. It implements **Ledger** with the balance as
it is and the rows of both components as its history (`OnTheBooks`): COMPLETED
DEPOSIT rows, each once however often it was credited, less the WITHDRAWAL rows
that are not FAILED. `DeadlockVictim` is the
one cycle of waits: a credit holds the wallet and wants its row, a reversal
holds the rows and wants the wallet.

**Accounts** is registration, login, codes, resets and renames, with the two unique
indexes, the cache, the mail queue and the guard that lets only the holder of a
token rename. `now` counts quarters of an hour; an entry of the cache carries
the time it was stored, and `Lifetime` is what the code passes to `cache.set`:
the time of day a quarter of an hour ahead, `Epoch` being the time of day at
the start. A code is named after the call that issued it: the
six digits of production are taken as distinct (outside production every code
is `123456`). `SaveUser` writes back the whole row `LoadUser` read, the
username with it, as the code does. The password of registration
(`defaultPassword`) is one a reset may choose: `resetPassword` and its DTO ask
for eight characters and nothing else. So `TokensAreEarned` does not say that it
opens nothing; it says that it opens an account only if somebody with a code
for the email chose it. `Crash` empties the cache: `app.module.ts:37` returns
the Redis client as `store`, which `@nestjs/cache-manager` 3 does not read (it
reads `stores`), so the codes are in the memory of the process although
`README.md:27` says Redis.

**WalletCreation** keeps the transaction of `handleWalletCreation` open over the gateway
call; the index entry of its uncommitted row (`keylock`) holds the user's other
calls back. `LookUpBank` reads the rows of **Banks**, whose calls (`ReadBanks`, `FetchBanks`,
`InsertBanks` or `BanksClash`) run at the same time, and which is an instance
of its own: one INSERT stores the list or nothing of it, and `Lists` are the
different answers a gateway may give two callers. The history variable `took`
holds the calls whose request for an account the gateway took, so that an
account no row knows can be laid to the call that left it.

**Paging** is `findPaged` over the `transactions` table: a count and an item query,
outside a transaction, while rows are inserted, committed out of order and
settled. MySQL may return ties of the sort in any order, and unsorted rows in
any order at all. The client asks for the next page until one comes back short,
or as far as `totalPages` says.

`MCx` modules give the constants of `x` their values; they add nothing else.

## 3. What is checked

| Run | Module | Instance | Shows |
|---|---|---|---|
| `ledger` | WalletLedger | 2 wallets, 3 calls of any kind, 2 deposits, balances 0..4 | types; balance = net of the rows unless a stale debit overwrote a commit, or more than it if a deposit was credited twice; credits write on what is committed; one reversal per payout; refines Ledger; every call ends |
| `ledger_overdraft` | WalletLedger | 2 wallets, 2 transfers of all that one of them holds | *violated*: no overdraft |
| `withdrawals` | Withdrawals | 2 requests, 1 webhook, 2 attempts, 1 crash | refund exactly when FAILED, as the bank decided; a row that stays PENDING has a cause; refines Settlement; jobs end |
| `payout_recorded` | Withdrawals | 1 request | *violated*: every payout has a row |
| `payout_reversed` | Withdrawals | 1 request, 1 webhook that is delivered | *violated*: a failed payout is reversed |
| `deposits` | Deposits | 2 payments, 1 caller, 2 attempts, 1 crash | no credit without a payment in full, and one per asker; settled rows stay; a completed job has settled; refines Funding; a paid checkout is credited or its job gave up |
| `deposit_credited_once` | Deposits | 1 payment, 1 caller | *violated*: one credit per payment |
| `accounts` | Accounts | 3 emails, 4 calls, 1 tick, 1 crash | tokens are earned; one registration per email; names change by their owners and stay unique; codes issued, spent and mailed; verified for good |
| `codes_expire` | Accounts | 2 calls, 3 ticks | *violated*: a code is accepted within a quarter of an hour |
| `wallet_creation` | WalletCreation, Banks | 2 users, 3 calls, 2 callers of `getBanks`, 2 lists, 1 crash | wallet exactly with its account; orphans only of calls the gateway heard and that failed; owners never get another account; one bank list, and its code on every account opened after it; calls end |
| `paging` | Paging | 3 rows, 7 filters, 5 sorts, pages of 1 and 2 | a walk sorted by id misses a row only after another has left, or, stopping at `totalPages`, one per row that joined; repeats one only after another has joined; a page holds what its total promises |
| `wallet` | Wallet, Withdrawals, Deposits | 1 withdrawal, 1 webhook, 1 deposit, 1 other asker, 1 attempt, 1 crash | types of the composition; refines Ledger; every verification returns and every job ends |

Each property of a passing run has a mutant in `PROJECT.json` that breaks it.

### The disagreements

Five runs state what the documentation says and find the code doing otherwise.

1. *Lost updates and overdraft* (`wallet.service.ts:437`, `:335`, the check at
   `:473`; `README.md:520`, `:544`). Both debits check and write a balance
   computed from a `Wallet` object read before any lock; the rows that
   `walletTransfer` does lock are tested for existence and thrown away. In the
   trace both transfers are from the same wallet and read its balance before
   either commits: each passes the check, the second commit overwrites the
   first, and more was taken out of the wallet than was put in.
2. *Codes live for ever* (`auth.service.ts:86`, `:114`). The lifetime given to
   the cache is a time of day, not a duration.
3. *Payouts without a row* (`wallet.service.ts:311`; `README.md:13`, `:521`). The payout is
   ordered before the balance is tested.
4. *Failed payouts not reversed* (`wallet.service.ts:338`; `README.md:527`). The webhook
   of a payout that fails at once can come before the row is inserted: it
   throws and is forgotten. The job is added after the commit, outside it: in
   the trace that add then fails, and nobody looks at the row again.
5. *Two credits* (`wallet.service.ts:187` to `:243`; the comment at `:188`,
   `README.md:514`). The status is tested before the gateway is asked and not
   again under the lock.

### Bounds

Two wallets and three calls are the smallest ledger with a cycle of waits, a
call that slips between a read and a write, and a third party to see the
result; an amount of 3 is above the opening balances of 2 and 1, and the column
(`DECIMAL(15,2)`, here `0..MaxBalance` with 4) takes the deposit of the first
wallet twice and refuses that of the second its second credit. Two attempts are
one failure and one retry, one crash puts a job in the stalled state once. `wallet` gives a job one
attempt: its retries are those of the components, checked there, and what it is
about, a verification of each kind at every point of the other, needs none. The
balance starts at the amount of one withdrawal, and the credit may come before
it, during it or after it. Two callers of
`getBanks` are the race; their two lists overlap and differ, as the lists of a
gateway that adds a bank do. The clock of `accounts` ticks once, that of
`codes_expire` up to three times: a code two ticks old is more than a quarter
of an hour old whatever the rounding, and is accepted. `accounts` has one
password besides the default one, and calls that choose either. Four calls
in `accounts` are what it takes for a reset to write back a name that its owner
has given up and another has taken. `MaxCrashes`, `MaxAttempts` and `MaxRows`
bound the behaviours; the code's attempts are ten, and no proof depends on the
number.

### Fairness

`WF` on the steps of a call: the event loop resumes a promise whose result is
there, the BullMQ worker takes waiting jobs, and a lock that is released is
granted to who waits for it. `WF` on `DeadlockVictim`: InnoDB's detector runs.
Nothing obliges a customer to pay, a gateway to decide or a webhook to come,
nor any call to fail. `HookedSpec` alone assumes that the webhooks are
delivered, that their verifications meet no failing call and that the process
stays up, to show that not even that reverses a payout. Weak fairness is enough: `WF` on
the step of a waiting call is the grant that comes when its lock stays free,
and calls are finite, so nobody is overtaken for ever. `Accounts` and `Paging`
claim nothing that needs fairness. `Wallet` assumes what its two components do, and
that the detector runs: a waiting credit and a waiting reversal are otherwise
both disabled.

## 4. What is proved

The constants are arbitrary: any sets of wallets, calls, requests, webhooks,
payments, users, rows and pages, any number of attempts, crashes and ticks,
under the assumptions named in the modules (`LedgerAssumption`,
`WithdrawalAssumption`, `DepositAssumption`, `WalletAssumption`,
`CreationAssumption`, `AccountAssumption`, `PagingAssumption`). They are types
and finiteness, and what the tables are at the start: of `WalletLedger`, that a
DEPOSIT row has a wallet and an amount above zero; of `Accounts`, that no
two users share a name, that who holds a token is in the table and verified,
and that the default password is among those a call may carry; of
`WalletCreation`, `ListsOverlap`; of `Paging`, that the sorts are those the DTO
lets through.

| Module | Theorem | States |
|---|---|---|
| WalletLedgerProofs | `LedgerTypeCorrect` | `TypeOK` |
| | `BalanceAgreesWithHistory` | `AuditUnlessLost` |
| | `CreditsUseFreshReads` | `CreditReadsAreFresh` |
| | `ReversedAtMostOnce` | `ReversedOnce` |
| | `LedgerRefinement` | `ImplementsLedger` |
| WithdrawalsProofs | `WithdrawalTypeCorrect`, `RefundedOnceAsSettled`, `PendingWithdrawalsExplained`, `SettlementRefinement` | `TypeOK`, `RefundedAsSettled`, `PendingHasACause`, `ImplementsSettlement` |
| DepositsProofs | `DepositTypeCorrect`, `CreditsFollowPayments`, `CompletedJobsSettle`, `SettledRowsStay` | `TypeOK`, `CreditsAgree`, `DoneMeansSettled`, `SettledIsFinal` |
| | `OneCreditPerAsker`, `FundingRefinement` | `CreditedOncePerAsker`, `ImplementsFunding` |
| WalletCreationProofs | `CreationTypeCorrect`, `WalletAndAccountTogether`, `OrphansAreOfFailures` | `TypeOK`, `WalletHasItsAccount`, `OrphansAreFailures` |
| | `OneBankList`, `CodesAreFound`, `OwnersGetNoOther` | `BanksAgree`, `ListedBanksAreFound`, `NoAccountForOwners` |
| WalletProofs | `WalletIsItsParts`, `WalletKeepsContracts` | the specifications of both parts, and both contracts |
| | `WalletTypeCorrect`, `WalletRefinesLedger` | `TypeOK`, `ImplementsLedger` |
| AccountsProofs | `AccountTypeCorrect`, `TokensAlwaysEarned`, `RegistrationsAreSingle` | `TypeOK`, `TokensAreEarned`, `RegisteredOnce` |
| | `SpentCodesStayGone`, `StoredCodesGetMailed` | `SpentCodesAreGone`, `StoredCodesAreMailed` |
| | `NamesAreTheOwners`, `VerificationIsFinal` | `NamesChangeByOwner`, `VerifiedForGood` |
| PagingProofs | `PagingTypeCorrect`, `WalkSeesWhatStays` | `TypeOK`, `WalkMissesOnlyAfterLeaving` |
| | `TotalSeesWhatWasNotPushed` | `TotalMissesOnlyWhatWasPushed` |
| | `RowsComeOnce`, `PagesHoldTheirTotal` | `RepeatsOnlyAfterJoining`, `PageHoldsItsTotal` |

*Ledger.* `TypeOK` is not inductive: which fields of a call make sense depends
on where the handler is (`PlaceOK`), and which withdrawal a reversal is about
must have committed (`RowsOK`). `LockInv` says which locks each place of the
code holds; `SeenInv` says that a balance read under an exclusive lock is still
the committed one, and that a handler's `fresh` set means what it says. From
these, every commit moves the balance of a wallet it is fresh for by its amount
(`CommitEffect`). `BookInv` says that a DEPOSIT row is COMPLETED exactly when a
call has credited it; hence a commit that adds no row is a second credit, of a
wallet that counts as credited twice from then on (`CommitTwice`), and agreement
and the refinement follow commit by commit, with freshness and the single
reversal from the locks.

*Withdrawals.* `RequestInv` orders what a request has done, `JobInv` ties an
active job to its verification, and `VerifyInv` is the heart: while a
verification is at its settlement it holds the scan's locks, its row is PENDING,
and its answer, if final, is still the payout's status. `RunsOver` says how a
job ends: with the row settled or the payout in a status no branch names, or
with no attempt left, or stalled a second time. With `RequestInv`, which knows
whether a job was added, that leaves the causes `PendingHasACause` lists.

*Deposits.* There is no lock to lean on. `VerifyInv` says that a verification
writes a status only after a final answer of the gateway, and final answers do
not change: hence two verifications may both credit, but never disagree.
`AskersInv` counts who asked: the credits of a payment are at most the callers
that are past their own, and one more for the job unless the job is on its way
to it; the attempts of a job count as one, as each reads the row again.

*Wallet creation.* `PlaceInv` says that a call past its INSERT holds the index entry of
its user, who has no committed wallet, and past the gateway's answer has an
account there; so recording turns exactly one account nobody knew into one that
a row knows. `CountInv` counts the accounts at the gateway and those recorded
call by call; two calls of one user on the way to record would both hold the
one index entry, which is what `OrphansAreFailures` needs. `CodedInv`, for
a user with no wallet and no call past its search when the bank is listed, says
that whoever records for that user has found the bank. `BanksInv` says that what is stored is one whole answer of the
gateway. It needs `ListsOverlap`: two answers share a bank, so the unique index
refuses the second. With answers that share nothing both INSERTs would stand.

*Wallet.* The composition is first shown to satisfy the specifications of its
parts: sharing the wallet row, the scan and the worker takes steps away and
adds none. What is proved of `Withdrawals` and `Deposits` then holds of it and
is cited through the two instances, contracts included. Its own
invariant is about money (`MoneyInv`): a debit has read a balance before its
lock, a credit holds the wallet row and what it read is still the balance, and
no balance exceeds what was credited. One lemma for each way to commit
(`DebitEffect`, `CreditEffect`, `ReversalEffect`) says which entry of the ledger
it is. A credit of a row that is PENDING is an entry, one of a row that is
COMPLETED adds no row (`ByRows`) and is the `Repeat` of the contract; a debit
that writes an old balance taints the wallet, and nothing else does.

*Accounts.* `CallInv` ties each place of the code to a kind of call, and a
rename to a token. Why a token is earned whatever overlaps is in `EarnedInv`:
the save that verifies a user is the one that writes the password of the reset,
and a reset that found its user had presented an issued code. The set of chosen
passwords only grows (`ChosenGrows`), so what was earned stays earned. `RegInv`
adds what makes registrations single: who is past the insert has a row, and the
insert needs there to be none.
`ReadInv` says that a reset writes an old name back only if a rename finished
since it read; `CodeInv` that a stored code was issued to its email and that a
finished reset's is not stored, because a call stores its code once; `MailInv`
that a job is added in the last step of its call.

*Paging.* A page is a set of ranks, and the rank of a row in the order of the
primary key (`RankOfRow`) only grows when a row joins and only shrinks
when one leaves (`RankGrows`, `ShiftKeeps`). Hence the two halves of the
invariant: while no row left, the rows passed over so far have all been seen
or have joined (`MissInv`); while none joined, those seen are still behind the
next offset (`RepeatInv`). The theorem about `totalPages` maps the missed rows
into the ranks past the last page. With a sort that has ties none of this
holds, and `PageHoldsItsTotal` is what is left: the length of a page does not
depend on the order.

`JobsProofs` has the two lemmas about jobs that withdrawals, deposits and mails share. Each invariant was
run through TLC before it was proved.

## 5. What is only model-checked, and what is left out

Model-checked only: liveness (`EveryCallEnds` of the ledger and of wallet creation,
`JobsEnd`, `PaidIsCredited`, `EverythingEnds`), which is out of the prover's
reach, and of course the statements the code violates. Every other property of
a passing run is a theorem.

Left out, and why: the aggregate queries of the dashboard, the claims and
the expiry of tokens (the library's), the roles guard (applied to no
controller), the validators (pure tests of one request; they let every finite
amount of at most two decimals through, and `ledger` has calls with negative
and zero amounts), `verifyAccount` (a request to the gateway passed on), response layout, mail wording and SMTP, file storage (called by
nothing), key conversion, hashing, the framework's throttler and validation
pipe. Money is an integer in the column's range and there is one currency.
The virtual account of a wallet opened before the first `getBanks` has no bank
code, and nothing fills it in; nothing promises it either, and
`ListedBanksAreFound` begins where the bank is listed. A search with a page
or a size below one fails on its own and is not modelled. A bank transfer into a virtual account is acknowledged and not credited
(`transactions.service.ts:150`), so it has no effect to model. Gateway,
MySQL, BullMQ and the cache are modelled from how the code uses them.

## 6. Plan

Done, in this order: the ledger, then withdrawals and deposits, which build
on what it promises of a credit or a debit; then accounts, wallet creation and
search; then the bank list, login and the life of a code, and `Wallet`, which
puts withdrawals and deposits together; then the proofs of `Accounts`, `Wallet` and
`Paging`, so that every safety property has one. To do:

1. the theorems that relate modules: what `WalletLedger` and `Wallet` promise of
   the same call, both being refinements of `Ledger`;
2. read the long proofs again for a reader: shorter leaves, lemmas where two
   proofs use the same argument.
