------------------------------- MODULE Banks -------------------------------
(***************************************************************************)
(* The bank list: AppService.getBanks.  The first call fetches the list    *)
(* from the gateway and stores it; later calls serve the stored rows.      *)
(* There is no transaction and no lock between the reads and the INSERT,   *)
(* so several first calls may fetch and store at the same time.            *)
(*                                                                         *)
(* Not in this code: the gateway, whose list may differ from one answer to *)
(* the next, and MySQL, of which the model keeps that one INSERT of many   *)
(* rows stores all of them or none, and the unique index on bank_code.     *)
(***************************************************************************)
EXTENDS Naturals

CONSTANTS
  Askers,  \* calls of getBanks, each run once
  Lists    \* lists the gateway may answer with

(* The gateway does not replace all its banks between two answers; assumed  *)
(* where the module is used.                                                *)
ListsOverlap ==
  /\ {} \notin Lists
  /\ \A l, m \in Lists : l \cap m # {}

VARIABLES
  stored,   \* the banks rows
  asked,    \* the await a call is at
  fetched,  \* the gateway's answer to it
  served    \* the list it returned

bankVars == <<stored, asked, fetched, served>>

Banks == UNION Lists

BanksTypeOK ==
  /\ stored  \subseteq Banks
  /\ asked   \in [Askers -> {"read", "fetch", "insert", "served", "failed"}]
  /\ fetched \in [Askers -> {{}} \cup Lists]
  /\ served  \in [Askers -> SUBSET Banks]
  /\ \A a \in Askers : fetched[a] # {} <=> asked[a] = "insert"
  /\ \A a \in Askers : served[a] # {} <=> asked[a] = "served"

BanksInit ==
  /\ stored  = {}
  /\ asked   = [a \in Askers |-> "read"]
  /\ fetched = [a \in Askers |-> {}]
  /\ served  = [a \in Askers |-> {}]

-----------------------------------------------------------------------------
Move(a, point) == asked' = [asked EXCEPT ![a] = point]

(* A call ends, and its answer from the gateway is forgotten. *)
Serve(a, list) ==
  /\ served' = [served EXCEPT ![a] = list]
  /\ fetched' = [fetched EXCEPT ![a] = {}]
  /\ Move(a, "served")

Refuse(a) ==
  /\ fetched' = [fetched EXCEPT ![a] = {}]
  /\ Move(a, "failed")
  /\ UNCHANGED <<stored, served>>

(* findAll: rows, if there are any, are the answer. *)
ReadBanks(a) ==
  /\ asked[a] = "read"
  /\ \/ stored # {} /\ Serve(a, stored) /\ UNCHANGED stored
     \/ stored = {} /\ Move(a, "fetch") /\ UNCHANGED <<stored, fetched, served>>

FetchBanks(a) ==
  /\ asked[a] = "fetch"
  /\ \E l \in Lists : fetched' = [fetched EXCEPT ![a] = l]
  /\ Move(a, "insert")
  /\ UNCHANGED <<stored, served>>

(* Mutant of InsertBanks: rows already there are skipped, the others added. *)
InsertMissingBanks(a) ==
  /\ asked[a] = "insert"
  /\ stored' = stored \cup fetched[a]
  /\ Serve(a, fetched[a])

InsertBanks(a) ==
  /\ asked[a] = "insert"
  /\ stored \cap fetched[a] = {}
  /\ stored' = stored \cup fetched[a]
  /\ Serve(a, fetched[a])

(* Another first call has stored one of the codes. *)
BanksClash(a) ==
  /\ asked[a] = "insert"
  /\ stored \cap fetched[a] # {}
  /\ Refuse(a)

(* A query or the gateway fails, or the gateway's list is empty. *)
BanksFail(a) == asked[a] \in {"read", "fetch", "insert"} /\ Refuse(a)

Ask(a) ==
  ReadBanks(a) \/ FetchBanks(a) \/ InsertBanks(a) \/ BanksClash(a)
  \/ BanksFail(a)

(* The process dies: its calls are gone, before an INSERT or after it. *)
BanksCrash ==
  /\ asked' = [a \in Askers |-> IF asked[a] \in {"read", "served"} THEN asked[a] ELSE "failed"]
  /\ fetched' = [a \in Askers |-> {}]
  /\ UNCHANGED <<stored, served>>

-----------------------------------------------------------------------------
(* However many first calls race, and whatever different lists the gateway  *)
(* gives them, every list that was ever served is the stored one, whole.    *)
(* Module WalletCreation states it, with the codes the accounts took.       *)
OneList == \A a \in Askers : asked[a] = "served" => served[a] = stored
=============================================================================
