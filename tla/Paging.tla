------------------------------- MODULE Paging -------------------------------
(***************************************************************************)
(* BaseRepository.findPaged, behind every search endpoint: one query for   *)
(* the total and one for the items of a page, outside a transaction, while *)
(* other calls insert and settle rows of the table.  The table is          *)
(* transactions: ids rise in the order of the INSERTs, rows appear in the  *)
(* order of the commits, a row is never deleted, and its status changes    *)
(* once.  A client asks for page 1, 2, ... until a page comes back short,  *)
(* or until it has asked for as many as totalPages says.                   *)
(*                                                                         *)
(* MySQL orders rows as ORDER BY says and leaves ties open, so a query     *)
(* returns any order of its rows that agrees with the sorts.               *)
(***************************************************************************)
EXTENDS Naturals, FiniteSets, Sequences, SequencesExt

CONSTANTS
  Requests,   \* [filters, sorts, size, by] a client may search with, and
              \* what it stops by: a "short" page or the "total"
  MaxRows     \* rows ever inserted

ASSUME PagingAssumption ==
  /\ MaxRows \in Nat
  /\ \A r \in Requests :
       /\ r.size \in Nat \ {0} /\ r.by \in {"short", "total"}
       /\ r.sorts \in Seq([key : STRING, direction : {"ASC", "DESC"}])

VARIABLES
  rows,      \* committed rows: id -> status
  lastId,    \* the last id given out
  inflight,  \* ids whose INSERT is not committed
  request,   \* what the client searches for
  page,      \* the page it is at
  total,     \* total of the last count
  items,     \* items of the last page
  pc,        \* the query findPaged is at
  start,     \* rows that matched when the walk began
  seen,      \* rows on an earlier page, or on this one
  gone,      \* rows that stopped matching since the walk began
  joined,    \* rows that began to match since then
  repeated   \* rows on two pages

client == <<request, page, total, items, pc, start, seen, repeated>>
vars == <<rows, lastId, inflight, request, page, total, items, pc, start, seen,
          gone, joined, repeated>>

(* The statuses, in the order of the column's collation. *)
COMPLETED == 1
FAILED    == 2
PENDING   == 3

-----------------------------------------------------------------------------
(* The query *)

Column(id, st, key) == IF key = "id" THEN id ELSE st

(* One filter: a list that is empty filters nothing; for LIKE and ILIKE,    *)
(* values stands for the column values the text occurs in.                  *)
Passes(v, f) ==
  CASE f.operator = "EQUALS"       -> v = f.value
    [] f.operator = "NOT_EQUALS"   -> v # f.value
    [] f.operator = "GREATER_THAN" -> v > f.value
    [] f.operator = "LESS_THAN"    -> v < f.value
    [] f.operator = "BETWEEN"      -> f.value <= v /\ v <= f.valueTo
    [] f.operator = "IN"           -> f.values = {} \/ v \in f.values
    [] f.operator \in {"LIKE", "ILIKE"} -> v \in f.values

(* applyFilters: the conditions are joined with AND. *)
Matching(table, filters) ==
  {id \in DOMAIN table :
     \A f \in Range(filters) : Passes(Column(id, table[id], f.key), f)}

(* applySorts: the first sort key in which two rows differ decides. *)
Precedes(table, a, b, sorts) ==
  \E i \in DOMAIN sorts :
    LET at(id, k) == Column(id, table[id], sorts[k].key)
        less == IF sorts[i].direction = "ASC" THEN at(a, i) < at(b, i)
                                              ELSE at(a, i) > at(b, i)
    IN  less /\ \A j \in 1..(i - 1) : at(a, j) = at(b, j)

Orders(table, S, sorts) ==
  {s \in SetToSeqs(S) :
     \A i, j \in DOMAIN s : i < j => ~Precedes(table, s[j], s[i], sorts)}

(* Mutants of Offset: pages counted from 0; pages that overlap by a row. *)
OffsetFromZero(n, size) == n * size
OffsetOverlaps(n, size) == (n - 1) * (size - 1)

Offset(n, size) == (n - 1) * size

(* Mutant of PageOf: no LIMIT. *)
PageOfUnlimited(s, n, size) == SubSeq(s, Offset(n, size) + 1, Len(s))

PageOf(s, n, size) ==
  SubSeq(s, Offset(n, size) + 1,
            IF Len(s) < Offset(n, size) + size THEN Len(s) ELSE Offset(n, size) + size)

(* Mutant of TotalOf: counted before the filters are applied. *)
TotalOfTable(table, filters) == Cardinality(DOMAIN table)

TotalOf(table, filters) == Cardinality(Matching(table, filters))

(* Mutant of TotalPages: rounded down. *)
TotalPagesRoundedDown(n, size) == n \div size

(* Math.ceil(total / size) *)
TotalPages(n, size) == (n + size - 1) \div size

-----------------------------------------------------------------------------
Matched == Matching(rows, request.filters)

TypeOK ==
  /\ DOMAIN rows \subseteq 1..lastId
  /\ \A id \in DOMAIN rows : rows[id] \in {COMPLETED, FAILED, PENDING}
  /\ lastId \in 0..MaxRows
  /\ inflight = (1..lastId) \ DOMAIN rows
  /\ request \in Requests
  /\ page \in 1..(MaxRows + 1)
  /\ total \in 0..MaxRows
  /\ pc \in {"idle", "count", "items", "done"}
  /\ Len(items) <= request.size
  /\ Range(items) \subseteq seen
  /\ start \cup seen \cup gone \cup joined \subseteq DOMAIN rows
  /\ repeated \subseteq seen

Init ==
  /\ rows = << >> /\ lastId = 0 /\ inflight = {}
  /\ request \in Requests
  /\ page = 1 /\ total = 0 /\ items = << >> /\ pc = "idle"
  /\ start = {} /\ seen = {} /\ gone = {} /\ joined = {} /\ repeated = {}

(* What a change of the table does to the rows the client is walking over. *)
Shift(table) ==
  IF pc = "idle" THEN UNCHANGED <<gone, joined>>
  ELSE LET now == Matching(table, request.filters)
       IN  gone' = gone \cup (Matched \ now) /\ joined' = joined \cup (now \ Matched)

(* A call inserts a row and commits it, at once or at the end of its        *)
(* transaction, where a later row may have committed first.                 *)
Insert ==
  /\ lastId < MaxRows
  /\ lastId' = lastId + 1
  /\ inflight' = inflight \cup {lastId + 1}
  /\ UNCHANGED <<rows, gone, joined>> /\ UNCHANGED client

CommitRow ==
  /\ \E id \in inflight, st \in {PENDING, COMPLETED} :
       /\ rows' = [i \in DOMAIN rows \cup {id} |-> IF i = id THEN st ELSE rows[i]]
       /\ inflight' = inflight \ {id}
  /\ Shift(rows')
  /\ UNCHANGED lastId /\ UNCHANGED client

Settle ==
  /\ \E id \in DOMAIN rows, st \in {COMPLETED, FAILED} :
       /\ rows[id] = PENDING
       /\ rows' = [rows EXCEPT ![id] = st]
  /\ Shift(rows')
  /\ UNCHANGED <<lastId, inflight>> /\ UNCHANGED client

(* The client begins its walk. *)
Search ==
  /\ pc = "idle"
  /\ pc' = "count"
  /\ start' = Matched
  /\ UNCHANGED <<rows, lastId, inflight, request, page, total, items, seen, gone,
                 joined, repeated>>

(* getTotalCount *)
Count ==
  /\ pc = "count"
  /\ total' = TotalOf(rows, request.filters)
  /\ pc' = "items"
  /\ UNCHANGED <<rows, lastId, inflight, request, page, items, start, seen, gone,
                 joined, repeated>>

LastPage(list) ==
  IF request.by = "short" THEN Len(list) < request.size
                          ELSE page >= TotalPages(total, request.size)

(* getPagedItems, and the answer, by which the client stops or goes on. *)
Items ==
  /\ pc = "items"
  /\ \E s \in Orders(rows, Matched, request.sorts) :
       items' = PageOf(s, page, request.size)
  /\ seen' = seen \cup Range(items')
  /\ repeated' = repeated \cup (seen \cap Range(items'))
  /\ IF LastPage(items') THEN pc' = "done"  /\ page' = page
                         ELSE pc' = "count" /\ page' = page + 1
  /\ UNCHANGED <<rows, lastId, inflight, request, total, start, gone, joined>>

Terminating ==
  /\ pc = "done" /\ lastId = MaxRows /\ inflight = {}
  /\ \A id \in DOMAIN rows : rows[id] # PENDING
  /\ UNCHANGED vars

Next == Insert \/ CommitRow \/ Settle \/ Search \/ Count \/ Items \/ Terminating

Spec == Init /\ [][Next]_vars

-----------------------------------------------------------------------------
(* Properties *)

(* Sorted by the primary key: no two rows tie, and none moves when settled. *)
SortedById == request.sorts # << >> /\ request.sorts[1].key = "id"

(* A walk that began when a row matched, and found it matching to the end,  *)
(* has seen the row, whatever was inserted or committed out of order in     *)
(* between, unless a row before it stopped matching and moved the pages up. *)
WalkMissesOnlyAfterLeaving ==
  pc = "done" /\ request.by = "short" /\ SortedById /\ gone = {} => start \subseteq seen

(* A walk that stops by totalPages, which was counted before the last page  *)
(* was read, misses more: also rows that others pushed to a later page than *)
(* the total foretold.  Each such row takes one that joined.                *)
TotalMissesOnlyWhatWasPushed ==
  pc = "done" /\ request.by = "total" /\ SortedById /\ gone = {} =>
    Cardinality(start \ seen) <= Cardinality(joined)

(* A row comes back on two pages only after another row has joined the      *)
(* result during the walk.                                                  *)
RepeatsOnlyAfterJoining ==
  SortedById /\ joined = {} => repeated = {}

(* The total is counted first and rows do not leave on their own: a page    *)
(* has at least the items its total promises, until a row has left the      *)
(* result.  (The item query made before the count would break this.)        *)
PageHoldsItsTotal ==
  [][Items /\ gone = {} =>
       \/ Len(items') = request.size
       \/ Offset(page, request.size) + Len(items') >= total]_vars
=============================================================================
