------------------------ MODULE WalletCreationProofs ------------------------
(***************************************************************************)
(* WalletCreation, for every number of users, calls, callers of getBanks,  *)
(* crashes and lists of banks: types, the wallet exactly with its account, *)
(* the accounts at the gateway nobody knows, that owners never get         *)
(* another, and the one bank list.                                         *)
(***************************************************************************)
EXTENDS WalletCreation, FiniteSetTheorems, TLAPS

USE DEF gateway

Locking == {"open", "lookup", "record"}

(* A call past its INSERT holds the index entry of its user, who has no     *)
(* committed wallet; the gateway has taken the request of every call past   *)
(* that await, and of some that failed.                                     *)
PlaceInv ==
  \A h \in Handlers :
    /\ pc[h] # "idle" => who[h] \in Users
    /\ pc[h] \in Locking => keylock[who[h]] = h /\ who[h] \notin wallets
    /\ pc[h] \in {"lookup", "record"} => h \in took
    /\ h \in took => pc[h] \in {"lookup", "record"} \cup Ended

(* The accounts at the gateway and the recorded ones are counted call by    *)
(* call.                                                                    *)
CountInv ==
  \A u \in Users :
    opened[u] = Cardinality(Took(u)) /\ accounts[u] = Cardinality(Known(u))

(* What is stored is one answer of the gateway, whole; a bank was found in it. *)
BanksInv ==
  /\ stored # {} => stored \in Lists
  /\ found # {} => AccountBank \in stored
  /\ BanksAgree

IInv == TypeOK /\ PlaceInv /\ WalletHasItsAccount /\ CountInv /\ BanksInv

(* A step that opens no account and records none leaves the counts alone.   *)
LEMMA CountKeeps ==
  ASSUME IInv, UNCHANGED <<opened, accounts, took>>,
         \A h \in took : who'[h] = who[h] /\ (pc[h] = "done" <=> pc'[h] = "done")
  PROVE  CountInv'
<1>1. \A u \in Users : Took(u)' = Took(u) /\ Known(u)' = Known(u)
  BY DEF Took, Known
<1> QED
  BY <1>1 DEF IInv, CountInv

(* A step that opens an account at the gateway for a call that had none.    *)
LEMMA CountGrows ==
  ASSUME IInv, NEW h \in Handlers, pc[h] = "open", UNCHANGED <<who, accounts>>,
         opened' = [opened EXCEPT ![who[h]] = @ + 1], took' = took \cup {h},
         \/ pc' = [pc EXCEPT ![h] = "lookup"]
         \/ pc' = [pc EXCEPT ![h] = "failed"]
  PROVE  CountInv'
<1> SUFFICES ASSUME NEW u \in Users
             PROVE  opened'[u] = Cardinality(Took(u)') /\ accounts[u] = Cardinality(Known(u)')
  BY DEF CountInv
<1>1. /\ opened[u] = Cardinality(Took(u)) /\ accounts[u] = Cardinality(Known(u))
      /\ opened \in [Users -> Nat] /\ took \subseteq Handlers /\ h \notin took
      /\ DOMAIN pc = Handlers
  BY DEF IInv, CountInv, TypeOK, PlaceInv, Ended
<1>2. IsFiniteSet(Took(u)) /\ Cardinality(Took(u)) \in Nat
  BY <1>1, CreationAssumption, FS_Subset, FS_CardinalityType DEF Took
<1>3. Known(u)' = Known(u)
  BY <1>1 DEF Took, Known
<1>4. CASE u = who[h]
  <2>1. h \notin Took(u) /\ Took(u)' = Took(u) \cup {h}
    BY <1>1, <1>4 DEF Took
  <2>2. Cardinality(Took(u)') = Cardinality(Took(u)) + 1
    BY <1>2, <2>1, FS_AddElement
  <2>3. opened'[u] = opened[u] + 1
    BY <1>1, <1>4
  <2> QED
    BY <1>1, <1>3, <2>2, <2>3
<1>5. CASE u # who[h]
  <2>1. Took(u)' = Took(u) /\ opened'[u] = opened[u]
    BY <1>1, <1>5 DEF Took
  <2> QED
    BY <1>1, <1>3, <2>1
<1> QED
  BY <1>4, <1>5

(* A call that throws lets go of its entry and leaves the rows alone.       *)
LEMMA ThrowKeeps ==
  ASSUME IInv, NEW h \in Handlers, pc[h] \notin {"idle"} \cup Ended, Throw(h),
         opened' \in [Users -> Nat],
         took' = took \/ (took' = took \cup {h} /\ pc[h] = "open"),
         UNCHANGED <<coded, found, bankVars>>
  PROVE  TypeOK' /\ PlaceInv' /\ WalletHasItsAccount' /\ BanksInv'
<1>1. TypeOK'
  BY CreationAssumption DEF IInv, TypeOK, Throw, Release, GoTo, InTrx, Ended, bankVars, B!BanksTypeOK, B!Banks
<1>2. PlaceInv'
  BY DEF IInv, TypeOK, PlaceInv, Throw, Release, GoTo, InTrx, Ended, Locking
<1>3. WalletHasItsAccount'
  BY DEF IInv, WalletHasItsAccount, Throw
<1>4. BanksInv'
  BY DEF IInv, BanksInv, BanksAgree, B!OneList, bankVars
<1> QED
  BY <1>1, <1>2, <1>3, <1>4

(* A refusal, which has opened no account. *)
LEMMA RefusalKeeps ==
  ASSUME IInv, NEW h \in Handlers, pc[h] \notin {"idle"} \cup Ended, Throw(h),
         UNCHANGED <<gateway, coded, found, bankVars>>
  PROVE  IInv'
<1>1. opened' \in [Users -> Nat]
  BY DEF IInv, TypeOK
<1>2. CountInv'
  BY CountKeeps DEF Throw, GoTo, IInv, TypeOK, Ended
<1> QED
  BY <1>1, <1>2, ThrowKeeps DEF IInv

-----------------------------------------------------------------------------
(* A step of createWallet that neither opens an account nor records one.    *)
LEMMA QuietStepKeeps ==
  ASSUME IInv, NEW h \in Handlers,
         Arrive(h) \/ NoWalletYet(h) \/ InsertWallet(h) \/ LookUpBank(h)
  PROVE  IInv'
<1>1. TypeOK'
  BY CreationAssumption DEF IInv, TypeOK, Arrive, NoWalletYet, InsertWallet,
    LookUpBank, GoTo, InTrx, Ended, bankVars, B!BanksTypeOK, B!Banks
<1>2. PlaceInv'
  BY CreationAssumption DEF IInv, TypeOK, PlaceInv, Arrive, NoWalletYet,
    InsertWallet, LookUpBank, GoTo, InTrx, Ended, Locking
<1>3. WalletHasItsAccount'
  BY DEF IInv, WalletHasItsAccount, Arrive, NoWalletYet, InsertWallet, LookUpBank
<1>4. BanksInv'
  BY DEF IInv, BanksInv, BanksAgree, B!OneList, bankVars, Arrive, NoWalletYet,
    InsertWallet, LookUpBank
<1>5. CountInv'
  BY CountKeeps DEF IInv, TypeOK, PlaceInv, Arrive, NoWalletYet, InsertWallet,
    LookUpBank, GoTo, Ended
<1> QED
  BY <1>1, <1>2, <1>3, <1>4, <1>5 DEF IInv

(* The gateway opens an account; its answer arrives or is lost.             *)
LEMMA OpenKeeps ==
  ASSUME IInv, NEW h \in Handlers, OpenAccount(h) \/ AnswerLost(h)
  PROVE  IInv'
<1>1. CountInv'
  BY CountGrows DEF OpenAccount, AnswerLost, Throw, GoTo
<1>2. who[h] \in Users
  BY DEF IInv, PlaceInv, OpenAccount, AnswerLost
<1>3. opened' \in [Users -> Nat]
  <2>1. opened' = [opened EXCEPT ![who[h]] = @ + 1]
    BY DEF OpenAccount, AnswerLost
  <2>2. opened \in [Users -> Nat]
    BY DEF IInv, TypeOK
  <2> QED
    BY <1>2, <2>1, <2>2
<1>4. CASE OpenAccount(h)
  <2>1. TypeOK'
    BY <1>4, <1>3 DEF IInv, TypeOK, OpenAccount, GoTo, InTrx, Ended, bankVars,
      B!BanksTypeOK, B!Banks
  <2>2. PlaceInv'
    BY <1>4 DEF IInv, TypeOK, PlaceInv, OpenAccount, GoTo, Locking
  <2>3. WalletHasItsAccount' /\ BanksInv'
    BY <1>4 DEF IInv, WalletHasItsAccount, BanksInv, BanksAgree, B!OneList,
      OpenAccount, bankVars
  <2> QED
    BY <1>1, <2>1, <2>2, <2>3 DEF IInv
<1>5. CASE AnswerLost(h)
  BY <1>1, <1>5, <1>3, ThrowKeeps DEF IInv, AnswerLost, Throw, Ended
<1> QED
  BY <1>4, <1>5

(* The commit: the call's account is known from now on.                     *)
LEMMA RecordKeeps ==
  ASSUME IInv, NEW h \in Handlers, RecordAccount(h)
  PROVE  IInv'
<1>1. /\ who[h] \in Users /\ keylock[who[h]] = h /\ who[h] \notin wallets
      /\ accounts[who[h]] = 0
  BY DEF IInv, PlaceInv, Locking, WalletHasItsAccount, RecordAccount
<1>2. TypeOK'
  BY <1>1 DEF IInv, TypeOK, RecordAccount, Release, GoTo, InTrx, Ended, bankVars,
    B!BanksTypeOK, B!Banks
<1>3. PlaceInv'
  BY <1>1 DEF IInv, TypeOK, PlaceInv, RecordAccount, Release, GoTo, Locking, Ended
<1>4. WalletHasItsAccount'
  BY <1>1 DEF IInv, TypeOK, WalletHasItsAccount, RecordAccount
<1>5. BanksInv'
  BY DEF IInv, BanksInv, BanksAgree, B!OneList, RecordAccount, bankVars
<1>6. CountInv'
  <2> SUFFICES ASSUME NEW u \in Users
               PROVE  opened[u] = Cardinality(Took(u)') /\ accounts'[u] = Cardinality(Known(u)')
    BY DEF CountInv, RecordAccount
  <2>1. /\ opened[u] = Cardinality(Took(u)) /\ accounts[u] = Cardinality(Known(u))
        /\ took \subseteq Handlers /\ h \in took /\ pc[h] = "record" /\ DOMAIN pc = Handlers
        /\ accounts \in [Users -> Nat]
    BY DEF IInv, CountInv, TypeOK, PlaceInv, RecordAccount
  <2>2. IsFiniteSet(Known(u)) /\ Cardinality(Known(u)) \in Nat
    BY <2>1, CreationAssumption, FS_Subset, FS_CardinalityType DEF Took, Known
  <2>3. Took(u)' = Took(u)
    BY DEF Took, RecordAccount
  <2>4. CASE u = who[h]
    <3>1. h \notin Known(u) /\ Known(u)' = Known(u) \cup {h}
      BY <2>1, <2>4 DEF Took, Known, RecordAccount, GoTo
    <3>2. Cardinality(Known(u)') = Cardinality(Known(u)) + 1
      BY <2>2, <3>1, FS_AddElement
    <3>3. accounts'[u] = accounts[u] + 1
      BY <2>1, <2>4 DEF RecordAccount
    <3> QED
      BY <2>1, <2>3, <3>2, <3>3
  <2>5. CASE u # who[h]
    <3>1. Known(u)' = Known(u) /\ accounts'[u] = accounts[u]
      BY <2>1, <2>5 DEF Took, Known, RecordAccount, GoTo
    <3> QED
      BY <2>1, <2>3, <3>1
  <2> QED
    BY <2>4, <2>5
<1> QED
  BY <1>2, <1>3, <1>4, <1>5, <1>6 DEF IInv

(* A list is stored only where nothing is: two answers of the gateway have  *)
(* a bank in common, and the index lets none be stored twice.               *)
LEMMA BanksKeep ==
  ASSUME IInv, NEW a \in Askers, AskForBanks(a)
  PROVE  IInv'
<1>1. B!BanksTypeOK'
  BY CreationAssumption DEF IInv, TypeOK, AskForBanks, B!BanksTypeOK, B!Banks,
    B!ListsOverlap, B!Ask, B!ReadBanks, B!FetchBanks, B!InsertBanks,
    B!BanksClash, B!BanksFail, B!Serve, B!Refuse, B!Move
<1>2. BanksInv'
  <2>1. CASE UNCHANGED stored
    BY <2>1 DEF IInv, TypeOK, BanksInv, BanksAgree, AskForBanks, B!BanksTypeOK,
      B!OneList, B!Ask, B!ReadBanks, B!FetchBanks, B!InsertBanks,
      B!BanksClash, B!BanksFail, B!Serve, B!Refuse, B!Move
  <2>2. CASE B!InsertBanks(a)
    <3>1. fetched[a] \in Lists
      BY <2>2 DEF IInv, TypeOK, B!BanksTypeOK, B!InsertBanks
    <3>2. stored = {} /\ stored' = fetched[a]
      BY <2>2, <3>1, CreationAssumption DEF IInv, BanksInv, B!ListsOverlap, B!InsertBanks
    <3>3. \A b \in Askers : asked[b] # "served"
      BY <3>2 DEF IInv, TypeOK, BanksInv, BanksAgree, B!OneList, B!BanksTypeOK
    <3>4. B!OneList'
      BY <2>2, <3>2, <3>3 DEF IInv, TypeOK, B!BanksTypeOK, B!OneList, B!InsertBanks,
        B!Serve, B!Move
    <3>5. found = {} /\ coded = {} /\ UNCHANGED <<found, coded>>
      BY <3>2 DEF IInv, BanksInv, BanksAgree, AskForBanks
    <3> QED
      BY <3>1, <3>2, <3>4, <3>5 DEF BanksInv, BanksAgree
  <2> QED
    BY <2>1, <2>2 DEF AskForBanks, B!Ask, B!ReadBanks, B!FetchBanks,
      B!BanksClash, B!BanksFail, B!Refuse
<1>3. CountInv'
  BY CountKeeps DEF AskForBanks
<1> QED
  BY <1>1, <1>2, <1>3 DEF IInv, TypeOK, PlaceInv, WalletHasItsAccount, AskForBanks

(* Every step keeps the invariant. *)
LEMMA StepKeeps == IInv /\ [Next]_vars => IInv'
<1> SUFFICES ASSUME IInv, [Next]_vars PROVE IInv'
  OBVIOUS
<1>1. ASSUME NEW h \in Handlers,
             Arrive(h) \/ Step(h) \/ AnswerLost(h) \/ CallFails(h)
      PROVE  IInv'
  <2>1. CASE Arrive(h) \/ NoWalletYet(h) \/ InsertWallet(h) \/ LookUpBank(h)
    BY <2>1, QuietStepKeeps
  <2>2. CASE OpenAccount(h) \/ AnswerLost(h)
    BY <2>2, OpenKeeps
  <2>3. CASE RecordAccount(h)
    BY <2>3, RecordKeeps
  <2>4. CASE Conflict(h) \/ DuplicateWallet(h) \/ CallFails(h)
    BY <2>4, RefusalKeeps DEF Conflict, DuplicateWallet, CallFails, Throw, InTrx, Ended
  <2>5. CASE Karma(h)
    <3>1. CASE Throw(h) /\ UNCHANGED gateway
      BY <2>5, <3>1, RefusalKeeps DEF Karma, Throw, Ended
    <3>2. CASE /\ GoTo(h, "check")
               /\ UNCHANGED <<wallets, accounts, gateway, keylock, who, crashes,
                              coded, found, bankVars>>
      <4>1. TypeOK' /\ PlaceInv' /\ WalletHasItsAccount' /\ BanksInv'
        BY <2>5, <3>2 DEF Karma, GoTo, IInv, TypeOK, PlaceInv, WalletHasItsAccount,
          BanksInv, BanksAgree, B!OneList, bankVars, Locking, InTrx, Ended,
          B!BanksTypeOK, B!Banks
      <4>2. CountInv'
        BY <2>5, <3>2, CountKeeps DEF Karma, GoTo, IInv, TypeOK
      <4> QED
        BY <4>1, <4>2 DEF IInv
    <3> QED
      BY <2>5, <3>1, <3>2 DEF Karma
  <2> QED
    BY <1>1, <2>1, <2>2, <2>3, <2>4, <2>5 DEF Step
<1>2. CASE \E a \in Askers : AskForBanks(a)
  BY <1>2, BanksKeep
<1>3. CASE Crash
  <2>1. B!BanksTypeOK'
    BY <1>3 DEF IInv, TypeOK, Crash, B!BanksTypeOK, B!Banks, B!BanksCrash
  <2>2. TypeOK'
    BY <1>3, <2>1, CreationAssumption DEF IInv, TypeOK, Crash, InTrx, Ended
  <2>3. PlaceInv' /\ WalletHasItsAccount'
    BY <1>3 DEF IInv, TypeOK, PlaceInv, WalletHasItsAccount, Crash, Ended, Locking
  <2>4. BanksInv'
    BY <1>3 DEF IInv, TypeOK, BanksInv, BanksAgree, Crash, B!BanksTypeOK, B!OneList, B!BanksCrash
  <2>5. CountInv'
    BY <1>3, CountKeeps DEF IInv, TypeOK, Crash, Ended
  <2> QED
    BY <2>2, <2>3, <2>4, <2>5 DEF IInv
<1>4. CASE UNCHANGED vars
  <2>1. TypeOK' /\ PlaceInv' /\ WalletHasItsAccount' /\ BanksInv'
    BY <1>4 DEF vars, bankVars, IInv, TypeOK, PlaceInv, WalletHasItsAccount,
      BanksInv, BanksAgree, B!OneList, B!BanksTypeOK
  <2>2. CountInv'
    BY <1>4, CountKeeps DEF vars
  <2> QED
    BY <2>1, <2>2 DEF IInv
<1> QED
  BY <1>1, <1>2, <1>3, <1>4 DEF Next, Terminating

-----------------------------------------------------------------------------
(* The invariant the properties rest on. *)
THEOREM Invariance == Spec => []IInv
<1>1. Init => IInv
  <2> SUFFICES ASSUME Init PROVE IInv
    OBVIOUS
  <2>1. TypeOK
    BY CreationAssumption DEF Init, TypeOK, B!BanksInit, B!BanksTypeOK
  <2>2. PlaceInv /\ WalletHasItsAccount /\ BanksInv
    BY DEF Init, PlaceInv, Locking, WalletHasItsAccount, BanksInv, BanksAgree,
           B!BanksInit, B!OneList
  <2>3. CountInv
    <3>1. \A u \in Users : Took(u) = {} /\ Known(u) = {}
      BY DEF Init, Took, Known
    <3> QED
      BY <3>1, FS_EmptySet DEF Init, CountInv
  <2> QED
    BY <2>1, <2>2, <2>3 DEF IInv
<1> QED
  BY <1>1, StepKeeps, PTL DEF Spec

(* Every variable keeps its type, and an index entry its holder.            *)
THEOREM CreationTypeCorrect == Spec => []TypeOK
<1>1. IInv => TypeOK
  BY DEF IInv
<1> QED
  BY <1>1, Invariance, PTL

(* However many calls race and fail, a wallet row is committed with exactly *)
(* one account row, and no account row without a wallet.                    *)
THEOREM WalletAndAccountTogether == Spec => []WalletHasItsAccount
<1>1. IInv => WalletHasItsAccount
  BY DEF IInv
<1> QED
  BY <1>1, Invariance, PTL

(* The accounts at the gateway that no row knows belong, one each, to calls *)
(* that the gateway heard and that failed since, and to the one call of a   *)
(* user that is about to record it.                                         *)
THEOREM OrphansAreOfFailures == Spec => []OrphansAreFailures
<1>1. IInv => OrphansAreFailures
  <2> SUFFICES ASSUME IInv, NEW u \in Users
               PROVE  /\ opened[u] = Cardinality(Took(u))
                      /\ accounts[u] = Cardinality(Known(u))
                      /\ \A h \in Took(u) :
                           /\ pc[h] \in {"lookup", "record"} \cup Ended
                           /\ pc[h] \notin Ended =>
                                \A g \in Took(u) : g = h \/ pc[g] = "failed"
    BY DEF OrphansAreFailures
  <2>1. \A h \in Took(u) :
          /\ h \in Handlers /\ who[h] = u /\ pc[h] \in {"lookup", "record"} \cup Ended
          /\ pc[h] \notin Ended => keylock[u] = h /\ u \notin wallets
    BY DEF IInv, TypeOK, PlaceInv, Took, Ended, Locking
  <2>2. ASSUME NEW g \in Took(u), pc[g] = "done" PROVE u \in wallets
    <3>1. g \in Known(u)
      BY <2>2 DEF Known
    <3>2. Cardinality(Known(u)) # 0
      <4>1. IsFiniteSet(Known(u))
        BY <2>1, CreationAssumption, FS_Subset DEF Known
      <4> QED
        BY <3>1, <4>1, FS_EmptySet
    <3> QED
      BY <3>2 DEF IInv, CountInv, WalletHasItsAccount
  <2> QED
    BY <2>1, <2>2 DEF IInv, CountInv, Ended
<1> QED
  BY <1>1, Invariance, PTL

(* Whoever is served the bank list, stored or fetched, is served the same,  *)
(* and the codes of accounts are in it.                                     *)
THEOREM OneBankList == Spec => []BanksAgree
<1>1. IInv => BanksAgree
  BY DEF IInv, BanksInv
<1> QED
  BY <1>1, Invariance, PTL

(* The gateway is never asked for an account of a user who has a wallet.    *)
THEOREM OwnersGetNoOther == Spec => NoAccountForOwners
<1>1. IInv /\ [Next]_vars =>
        [\A u \in Users : u \in wallets => opened'[u] = opened[u]]_vars
  <2> SUFFICES ASSUME IInv, Next, NEW u \in Users, u \in wallets
               PROVE  opened'[u] = opened[u]
    OBVIOUS
  <2>1. CASE UNCHANGED opened
    BY <2>1
  <2>2. ASSUME NEW h \in Handlers, OpenAccount(h) \/ AnswerLost(h)
        PROVE  opened'[u] = opened[u]
    <3>1. who[h] # u
      BY <2>2 DEF IInv, PlaceInv, Locking, OpenAccount, AnswerLost
    <3> QED
      BY <2>2, <3>1 DEF IInv, TypeOK, OpenAccount, AnswerLost
  <2> QED
    BY <2>1, <2>2 DEF Next, Step, Arrive, Karma, NoWalletYet, Conflict,
      InsertWallet, DuplicateWallet, LookUpBank, RecordAccount, CallFails,
      AskForBanks, Crash, Terminating, vars
<1> QED
  BY <1>1, Invariance, PTL DEF Spec, NoAccountForOwners

(* The bank is listed, every call of u past the search has found it, and    *)
(* the wallet of u, if there is one, has its code.                          *)
CodedInv(u) ==
  /\ AccountBank \in stored
  /\ \A h \in Handlers : who[h] = u /\ pc[h] = "record" => h \in found
  /\ u \in wallets => u \in coded

LEMMA CodedStep ==
  ASSUME NEW u \in Users, IInv, CodedInv(u), [Next]_vars
  PROVE  CodedInv(u)'
<1>a. DOMAIN pc = Handlers /\ DOMAIN who = Handlers
  BY DEF IInv, TypeOK
<1>1. AccountBank \in stored'
  BY DEF CodedInv, Next, Step, Arrive, Karma, NoWalletYet, Conflict, InsertWallet,
    DuplicateWallet, OpenAccount, AnswerLost, LookUpBank, RecordAccount, CallFails, Throw,
    AskForBanks, Crash, Terminating, vars, bankVars, B!Ask, B!ReadBanks, B!FetchBanks,
    B!InsertBanks, B!BanksClash, B!BanksFail, B!BanksCrash, B!Serve, B!Refuse, B!Move
<1>2. ASSUME NEW h \in Handlers, Arrive(h) PROVE CodedInv(u)'
  BY <1>1, <1>2, <1>a DEF CodedInv, Arrive, GoTo
<1>3. ASSUME NEW h \in Handlers,
             \/ Karma(h) \/ NoWalletYet(h) \/ Conflict(h) \/ InsertWallet(h)
             \/ DuplicateWallet(h) \/ OpenAccount(h) \/ AnswerLost(h) \/ CallFails(h)
      PROVE  CodedInv(u)'
  BY <1>1, <1>3, <1>a
     DEF CodedInv, Karma, NoWalletYet, Conflict, InsertWallet, DuplicateWallet, OpenAccount,
         AnswerLost, CallFails, Throw, GoTo
<1>4. ASSUME NEW h \in Handlers, LookUpBank(h) PROVE CodedInv(u)'
  BY <1>1, <1>4, <1>a DEF CodedInv, LookUpBank, GoTo
<1>5. ASSUME NEW h \in Handlers, RecordAccount(h) PROVE CodedInv(u)'
  BY <1>1, <1>5, <1>a DEF CodedInv, RecordAccount, GoTo
<1>6. ASSUME NEW a \in Askers, AskForBanks(a) PROVE CodedInv(u)'
  BY <1>1, <1>6 DEF CodedInv, AskForBanks
<1>7. CASE Crash
  BY <1>1, <1>7 DEF CodedInv, Crash, Ended
<1>8. CASE UNCHANGED vars
  BY <1>1, <1>8 DEF CodedInv, vars
<1> QED
  BY <1>2, <1>3, <1>4, <1>5, <1>6, <1>7, <1>8 DEF Next, Step, Terminating

(* Once the account's bank is listed, no wallet is opened without its code, *)
(* except by a call that had searched for it before.                        *)
THEOREM CodesAreFound == Spec => ListedBanksAreFound
<1> SUFFICES ASSUME NEW u \in Users
             PROVE  Spec =>
                      [](/\ AccountBank \in stored /\ u \notin wallets
                         /\ \A h \in Handlers : who[h] = u => pc[h] # "record"
                         => [](u \in wallets => u \in coded))
  BY DEF ListedBanksAreFound
<1>1. /\ AccountBank \in stored /\ u \notin wallets
      /\ \A h \in Handlers : who[h] = u => pc[h] # "record"
      => CodedInv(u)
  BY DEF CodedInv
<1>2. IInv /\ CodedInv(u) /\ [Next]_vars => CodedInv(u)'
  BY CodedStep
<1>3. CodedInv(u) => (u \in wallets => u \in coded)
  BY DEF CodedInv
<1> QED
  BY <1>1, <1>2, <1>3, Invariance, PTL DEF Spec
=============================================================================
