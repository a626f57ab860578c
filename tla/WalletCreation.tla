--------------------------- MODULE WalletCreation ---------------------------
(***************************************************************************)
(* Opening a wallet: UsersService.createWallet and                         *)
(* WalletService.handleWalletCreation.  The wallet row is inserted first,  *)
(* in a transaction that stays open while the gateway creates the virtual  *)
(* account, and commits with the row of that account.                      *)
(*                                                                         *)
(* A handler is one call, interleaved with the others at its awaits.  Not  *)
(* in this code: the gateway, Karma, and MySQL, of which the model keeps   *)
(* the unique index on wallets.user_id: an INSERT waits for a transaction  *)
(* that holds an uncommitted row of the same user, and is refused once     *)
(* such a row is committed.                                                *)
(*                                                                         *)
(* The account's row carries the code of its bank, looked up by name among *)
(* the rows of module Banks, whose calls run at the same time.             *)
(***************************************************************************)
EXTENDS Naturals, FiniteSets

CONSTANTS
  Users,       \* registered users
  Handlers,    \* calls of createWallet, each run once
  MaxCrashes,  \* crashes of the process in a behaviour
  Nobody,      \* no lock holder, no user
  Askers,      \* calls of getBanks
  Lists,       \* lists of banks the gateway may answer with
  AccountBank  \* the bank at which the gateway opens accounts

VARIABLES
  wallets,   \* users with a wallet row, as committed
  accounts,  \* virtual_accounts rows of a user's wallet, as committed
  opened,    \* virtual accounts the gateway has created for a user
  took,      \* history: calls whose request for an account the gateway took
  keylock,   \* the transaction that holds an uncommitted wallet row of a user
  who,       \* the user a handler's call is for
  pc,        \* the await the handler is at
  crashes,
  coded,     \* users whose account's row has a bank code, as committed
  found,     \* handlers that found the account's bank
  stored, asked, fetched, served  \* the bank list

B == INSTANCE Banks

ASSUME CreationAssumption ==
  /\ Nobody \notin Handlers \cup Users
  /\ IsFiniteSet(Handlers)
  /\ MaxCrashes \in Nat
  /\ B!ListsOverlap

gateway  == <<opened, took>>
bankVars == <<stored, asked, fetched, served>>
vars == <<wallets, accounts, gateway, keylock, who, pc, crashes, coded, found, bankVars>>

Ended == {"done", "failed"}
InTrx == {"insert", "open", "lookup", "record"}

TypeOK ==
  /\ wallets  \subseteq Users
  /\ accounts \in [Users -> Nat]
  /\ opened   \in [Users -> Nat]
  /\ took     \subseteq Handlers
  /\ keylock  \in [Users -> Handlers \cup {Nobody}]
  /\ who      \in [Handlers -> Users \cup {Nobody}]
  /\ pc       \in [Handlers -> {"idle", "karma", "check"} \cup InTrx \cup Ended]
  /\ crashes  \in 0..MaxCrashes
  /\ \A u \in Users : keylock[u] # Nobody =>
       /\ who[keylock[u]] = u
       /\ pc[keylock[u]] \in {"open", "lookup", "record"}
  /\ coded \subseteq wallets
  /\ found \subseteq Handlers
  /\ B!BanksTypeOK

Init ==
  /\ wallets  = {}
  /\ accounts = [u \in Users |-> 0]
  /\ opened   = [u \in Users |-> 0]
  /\ took     = {}
  /\ keylock  = [u \in Users |-> Nobody]
  /\ who      = [h \in Handlers |-> Nobody]
  /\ pc       = [h \in Handlers |-> "idle"]
  /\ crashes  = 0
  /\ coded    = {}
  /\ found    = {}
  /\ B!BanksInit

-----------------------------------------------------------------------------
GoTo(h, point) == pc' = [pc EXCEPT ![h] = point]

(* Mutant of Release: the transaction is neither committed nor rolled back. *)
ReleaseForgotten(h) == UNCHANGED keylock

Release(h) ==
  keylock' = [u \in Users |-> IF keylock[u] = h THEN Nobody ELSE keylock[u]]

(* UnitOfWork.executeInTransaction rolls back, or there is no transaction   *)
(* yet; errorHandler throws on.                                             *)
Throw(h) ==
  /\ Release(h)
  /\ GoTo(h, "failed")
  /\ UNCHANGED <<wallets, accounts, who, crashes, coded, found, bankVars>>

Arrive(h) ==
  /\ pc[h] = "idle"
  /\ \E u \in Users : who' = [who EXCEPT ![h] = u]
  /\ GoTo(h, "karma")
  /\ UNCHANGED <<wallets, accounts, gateway, keylock, crashes, coded, found, bankVars>>

(* checkKarma, in production: listed, not listed, or an error. *)
Karma(h) ==
  /\ pc[h] = "karma"
  /\ \/ /\ GoTo(h, "check")
        /\ UNCHANGED <<wallets, accounts, gateway, keylock, who, crashes, coded, found, bankVars>>
     \/ Throw(h) /\ UNCHANGED gateway

(* findByUserId, with no lock, then findById of the user. *)
NoWalletYet(h) ==
  /\ pc[h] = "check"
  /\ who[h] \notin wallets
  /\ GoTo(h, "insert")
  /\ UNCHANGED <<wallets, accounts, gateway, keylock, who, crashes, coded, found, bankVars>>

Conflict(h) ==
  /\ pc[h] = "check"
  /\ who[h] \in wallets
  /\ Throw(h)
  /\ UNCHANGED gateway

(* Mutant of InsertWallet: no unique index on user_id. *)
InsertWalletUnindexed(h) ==
  /\ pc[h] = "insert"
  /\ GoTo(h, "open")
  /\ UNCHANGED <<wallets, accounts, gateway, keylock, who, crashes, coded, found, bankVars>>

InsertWallet(h) ==
  /\ pc[h] = "insert"
  /\ keylock[who[h]] = Nobody
  /\ who[h] \notin wallets
  /\ keylock' = [keylock EXCEPT ![who[h]] = h]
  /\ GoTo(h, "open")
  /\ UNCHANGED <<wallets, accounts, gateway, who, crashes, coded, found, bankVars>>

(* Committed between the check and the INSERT. *)
DuplicateWallet(h) ==
  /\ pc[h] = "insert"
  /\ keylock[who[h]] = Nobody
  /\ who[h] \in wallets
  /\ Throw(h)
  /\ UNCHANGED gateway

OpenAccount(h) ==
  /\ pc[h] = "open"
  /\ opened' = [opened EXCEPT ![who[h]] = @ + 1]
  /\ took' = took \cup {h}
  /\ GoTo(h, "lookup")
  /\ UNCHANGED <<wallets, accounts, keylock, who, crashes, coded, found, bankVars>>

(* Mutant of AnswerLost: the request is sent again. *)
AnswerRetried(h) ==
  /\ pc[h] = "open"
  /\ opened' = [opened EXCEPT ![who[h]] = @ + 1]
  /\ took' = took \cup {h}
  /\ UNCHANGED <<wallets, accounts, keylock, who, pc, crashes, coded, found, bankVars>>

(* The account exists and its number is lost with the answer. *)
AnswerLost(h) ==
  /\ pc[h] = "open"
  /\ opened' = [opened EXCEPT ![who[h]] = @ + 1]
  /\ took' = took \cup {h}
  /\ Throw(h)

(* Mutant of RecordAccount: the account's row is inserted without trx.      *)
RecordAccountOutside(h) ==
  /\ pc[h] = "record"
  /\ accounts' = [accounts EXCEPT ![who[h]] = @ + 1]
  /\ Release(h)
  /\ \/ wallets' = wallets \cup {who[h]} /\ GoTo(h, "done")
     \/ wallets' = wallets /\ GoTo(h, "failed")
  /\ UNCHANGED <<gateway, who, crashes, coded, found, bankVars>>

(* Mutant of LookUpBank: the name is searched among the codes, in vain. *)
LookUpBankByCode(h) ==
  /\ pc[h] = "lookup"
  /\ GoTo(h, "record")
  /\ UNCHANGED <<wallets, accounts, gateway, keylock, who, crashes, coded, found, bankVars>>

(* bankRepo.findOne by the name of the account's bank, outside the          *)
(* transaction; the answer is used after the next await.                    *)
LookUpBank(h) ==
  /\ pc[h] = "lookup"
  /\ found' = IF AccountBank \in stored THEN found \cup {h} ELSE found
  /\ GoTo(h, "record")
  /\ UNCHANGED <<wallets, accounts, gateway, keylock, who, crashes, coded, bankVars>>

(* The account's row is inserted, with no code if the bank was not found;   *)
(* both rows are committed.                                                 *)
RecordAccount(h) ==
  /\ pc[h] = "record"
  /\ wallets' = wallets \cup {who[h]}
  /\ accounts' = [accounts EXCEPT ![who[h]] = @ + 1]
  /\ coded' = IF h \in found THEN coded \cup {who[h]} ELSE coded
  /\ Release(h)
  /\ GoTo(h, "done")
  /\ UNCHANGED <<gateway, who, crashes, found, bankVars>>

(* A query fails, or the gateway refuses. *)
CallFails(h) == pc[h] \in {"check"} \cup InTrx /\ Throw(h) /\ UNCHANGED gateway

(* The process dies; MySQL rolls its transactions back. *)
Crash ==
  /\ crashes < MaxCrashes
  /\ crashes' = crashes + 1
  /\ pc' = [h \in Handlers |-> IF pc[h] \in {"idle"} \cup Ended THEN pc[h] ELSE "failed"]
  /\ keylock' = [u \in Users |-> Nobody]
  /\ B!BanksCrash
  /\ UNCHANGED <<wallets, accounts, gateway, who, coded, found>>

(* A call of getBanks takes its next step. *)
AskForBanks(a) ==
  /\ B!Ask(a)
  /\ UNCHANGED <<wallets, accounts, gateway, keylock, who, pc, crashes, coded, found>>

Step(h) ==
  \/ Karma(h) \/ NoWalletYet(h) \/ Conflict(h)
  \/ InsertWallet(h) \/ DuplicateWallet(h)
  \/ OpenAccount(h) \/ LookUpBank(h) \/ RecordAccount(h)

Terminating ==
  /\ \A h \in Handlers : pc[h] \in Ended
  /\ \A a \in Askers : asked[a] \in {"served", "failed"}
  /\ UNCHANGED vars

Next ==
  \/ \E h \in Handlers : Arrive(h) \/ Step(h) \/ AnswerLost(h) \/ CallFails(h)
  \/ \E a \in Askers : AskForBanks(a)
  \/ Crash
  \/ Terminating

Spec == Init /\ [][Next]_vars

(* The event loop runs; a lock that is released is granted to a waiter.     *)
Fairness == \A h \in Handlers : WF_vars(Step(h))

FairSpec == Spec /\ Fairness

-----------------------------------------------------------------------------
(* Properties *)

(* However many calls race, a user has a wallet exactly when the user has   *)
(* its virtual account, and has one of each.                                *)
WalletHasItsAccount ==
  \A u \in Users : accounts[u] = IF u \in wallets THEN 1 ELSE 0

(* The calls of u whose request for an account the gateway took, and those  *)
(* of them that recorded it.                                                *)
Took(u)  == {h \in took : who[h] = u}
Known(u) == {h \in Took(u) : pc[h] = "done"}

(* An account at the gateway that no row knows is left by a call that the   *)
(* gateway heard and that failed afterwards, one by each, and by no other:  *)
(* a call that was refused before, by the check or by the index, has none,  *)
(* and of the calls of a user at most one is on its way to record one.      *)
OrphansAreFailures ==
  \A u \in Users :
    /\ opened[u] = Cardinality(Took(u))
    /\ accounts[u] = Cardinality(Known(u))
    /\ \A h \in Took(u) :
         /\ pc[h] \in {"lookup", "record"} \cup Ended
         /\ pc[h] \notin Ended => \A g \in Took(u) : g = h \/ pc[g] = "failed"

(* The gateway is not asked for an account of a user who has a wallet: the  *)
(* wallet row is inserted before the gateway is called, and its index entry *)
(* keeps the other calls of the user out.                                   *)
NoAccountForOwners ==
  [][\A u \in Users : u \in wallets => opened'[u] = opened[u]]_vars

(* Whatever calls of getBanks race, with different answers of the gateway,  *)
(* every list that was served is the stored one, whole; and an account that *)
(* has a bank code has one that is in the list.                             *)
BanksAgree == B!OneList /\ (coded # {} => AccountBank \in stored)

(* Whoever has no wallet yet when the account's bank is listed, and no call *)
(* past its search for the bank, gets the bank code with the account,       *)
(* whoever stored the list and whichever call opens the wallet: only an     *)
(* account opened before the first getBanks may lack it.                    *)
ListedBanksAreFound ==
  \A u \in Users :
    [](/\ AccountBank \in stored /\ u \notin wallets
       /\ \A h \in Handlers : who[h] = u => pc[h] # "record"
       => [](u \in wallets => u \in coded))

(* Nobody waits forever for another's uncommitted row. *)
EveryCallEnds == \A h \in Handlers : pc[h] = "karma" ~> pc[h] \in Ended
=============================================================================
