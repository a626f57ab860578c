---------------------------- MODULE PagingProofs ----------------------------
(***************************************************************************)
(* Paging, for every table, filter, sort and page size.  A row of a result *)
(* sorted by the primary key is told by its rank, the number of rows ahead *)
(* of it: a page holds the rows of a range of ranks, ranks rise only when  *)
(* rows join and fall only when rows leave, and so a walk repeats a row    *)
(* only after one joined and misses one only after one left.               *)
(***************************************************************************)
EXTENDS Paging, FiniteSetTheorems, SequenceTheorems, TLAPS

(* a is before b in the order of the first sort, by id. *)
Before(a, b) == IF request.sorts[1].direction = "ASC" THEN a < b ELSE b < a

Ahead(S, x) == {y \in S : Before(y, x)}

Rank(x) == Cardinality(Ahead(Matched, x))

-----------------------------------------------------------------------------
(* Orders and pages *)

(* What a query may return is an enumeration of its rows.                   *)
LEMMA OrderIsWhole ==
  ASSUME NEW S, IsFiniteSet(S), NEW s \in Orders(rows, S, request.sorts)
  PROVE  /\ Cardinality(S) \in Nat
         /\ s \in [1..Cardinality(S) -> S] /\ Len(s) = Cardinality(S)
         /\ \A x \in S : \E i \in 1..Cardinality(S) : s[i] = x
         /\ \A i, j \in 1..Cardinality(S) : i # j => s[i] # s[j]
<1> DEFINE n == Cardinality(S)
<1>1. n \in Nat /\ IsFiniteSet(1..n) /\ Cardinality(1..n) = n
  BY FS_CardinalityType, FS_Interval
<1>2. s \in SetToSeqs(S)
  BY DEF Orders
<1>3. /\ s \in [1..n -> S]
      /\ \A i, j \in 1..n : i # j => s[i] # s[j]
  BY <1>2 DEF SetToSeqs
<1>4. Len(s) = n
  BY <1>1, <1>3
<1>5. s \in Injection(1..n, S)
  BY <1>3 DEF Injection, IsInjective
<1>6. s \in Surjection(1..n, S)
  BY <1>1, <1>5, FS_Injection
<1>7. \A x \in S : \E i \in 1..n : s[i] = x
  BY <1>6 DEF Surjection
<1> QED
  BY <1>1, <1>3, <1>4, <1>7

(* Sorted by the primary key first, it has no ties.                         *)
LEMMA OrderIsSorted ==
  ASSUME NEW S \in SUBSET Nat, IsFiniteSet(S), SortedById, request \in Requests,
         NEW s \in Orders(rows, S, request.sorts)
  PROVE  \A i, j \in 1..Cardinality(S) : i < j => Before(s[i], s[j])
<1> DEFINE n == Cardinality(S)
<1>1. /\ n \in Nat /\ s \in [1..n -> S]
      /\ \A i, j \in 1..n : i # j => s[i] # s[j]
  BY OrderIsWhole
<1> HIDE DEF n
<1> SUFFICES ASSUME NEW i \in 1..n, NEW j \in 1..n, i < j
             PROVE  Before(s[i], s[j])
  BY DEF n
<1>2. s[i] \in Nat /\ s[j] \in Nat /\ s[i] # s[j]
  <2>1. i # j
    BY <1>1
  <2> QED
    BY <1>1, <2>1
<1>3. ~Precedes(rows, s[j], s[i], request.sorts)
  BY <1>1 DEF Orders
<1>4. 1 \in DOMAIN request.sorts /\ 1..(1 - 1) = {}
  BY PagingAssumption DEF SortedById
<1>5. /\ request.sorts[1].key = "id"
      /\ Column(s[j], rows[s[j]], "id") = s[j] /\ Column(s[i], rows[s[i]], "id") = s[i]
  BY DEF SortedById, Column
<1>6. ASSUME Before(s[j], s[i]) PROVE Precedes(rows, s[j], s[i], request.sorts)
  <2> SUFFICES \E k \in {1} :
        LET at(id, l) == Column(id, rows[id], request.sorts[l].key)
            less == IF request.sorts[k].direction = "ASC" THEN at(s[j], k) < at(s[i], k)
                                                          ELSE at(s[j], k) > at(s[i], k)
        IN  less /\ \A l \in 1..(k - 1) : at(s[j], l) = at(s[i], l)
    BY <1>4 DEF Precedes
  <2> QED
    BY <1>2, <1>4, <1>5, <1>6 DEF Before
<1> QED
  BY <1>2, <1>3, <1>6 DEF Before

(* The i-th row has i - 1 rows ahead of it.                                 *)
LEMMA RankOfRow ==
  ASSUME NEW S \in SUBSET Nat, IsFiniteSet(S), SortedById, request \in Requests,
         NEW s \in Orders(rows, S, request.sorts), NEW i \in 1..Cardinality(S)
  PROVE  Cardinality(Ahead(S, s[i])) = i - 1
<1> DEFINE n == Cardinality(S)
           f == [j \in 1..(i - 1) |-> s[j]]
<1>1. /\ n \in Nat /\ s \in [1..n -> S]
      /\ \A x \in S : \E j \in 1..n : s[j] = x
      /\ \A j, k \in 1..n : j < k => Before(s[j], s[k])
  BY OrderIsWhole, OrderIsSorted
<1> HIDE DEF n
<1>2. i \in 1..n
  BY DEF n
<1>3. \A j \in 1..n : s[j] \in Nat
  BY <1>1
<1>4. \A j, k \in 1..n : s[j] = s[k] => j = k
  <2> SUFFICES ASSUME NEW j \in 1..n, NEW k \in 1..n, s[j] = s[k], j < k
               PROVE  FALSE
    BY <1>1
  <2> QED
    BY <1>1, <1>3 DEF Before
<1>5. \A j \in 1..n : Before(s[j], s[i]) <=> j < i
  BY <1>1, <1>2, <1>3 DEF Before
<1>6. f \in [1..(i - 1) -> Ahead(S, s[i])]
  BY <1>1, <1>2, <1>5 DEF Ahead
<1>7. \A x \in Ahead(S, s[i]) : \E j \in 1..(i - 1) : f[j] = x
  BY <1>1, <1>2, <1>5 DEF Ahead
<1>8. \A j, k \in 1..(i - 1) : f[j] = f[k] => j = k
  BY <1>1, <1>2, <1>4
<1> HIDE DEF f
<1>9. f \in Bijection(1..(i - 1), Ahead(S, s[i]))
  BY <1>6, <1>7, <1>8 DEF Bijection, Injection, Surjection, IsInjective
<1> QED
  BY <1>1, <1>2, <1>9, FS_CountingElements DEF ExistsBijection

(* A page is full, or the last of its rows, or past them.                   *)
LEMMA PageLength ==
  ASSUME NEW S, IsFiniteSet(S), request \in Requests, page \in Nat \ {0},
         NEW s \in Orders(rows, S, request.sorts)
  PROVE  LET n == Cardinality(S)
             o == Offset(page, request.size)
             p == PageOf(s, page, request.size)
         IN  /\ n \in Nat /\ o \in Nat
             /\ p \in Seq(S)
             /\ Len(p) = IF n <= o THEN 0
                         ELSE IF n < o + request.size THEN n - o ELSE request.size
             /\ \A i \in 1..Len(p) : p[i] = s[o + i]
<1> DEFINE n == Cardinality(S)
           size == request.size
           o == Offset(page, size)
           last == IF n < o + size THEN n ELSE o + size
           p == PageOf(s, page, size)
<1>1. n \in Nat /\ s \in [1..n -> S] /\ Len(s) = n
  BY OrderIsWhole
<1>2. size \in Nat \ {0}
  BY PagingAssumption
<1>3. o \in Nat
  BY <1>2 DEF Offset
<1>4. p = SubSeq(s, o + 1, last)
  BY <1>1 DEF PageOf
<1> HIDE DEF n, size, o, p
<1>5. o + 1 \in Int /\ last \in Int /\ last <= n
  BY <1>1, <1>2, <1>3
<1> HIDE DEF last
<1>6. \A i \in (o + 1)..last : s[i] \in S
  BY <1>1, <1>3, <1>5
<1>7. /\ p \in Seq(S)
      /\ Len(p) = IF o + 1 <= last THEN last - (o + 1) + 1 ELSE 0
      /\ \A i \in 1..(last - (o + 1) + 1) : p[i] = s[o + 1 + i - 1]
  BY <1>4, <1>5, <1>6, SubSeqProperties
<1>8. Len(p) = IF n <= o THEN 0 ELSE IF n < o + size THEN n - o ELSE size
  BY <1>1, <1>2, <1>3, <1>7 DEF last
<1>9. \A i \in 1..Len(p) : p[i] = s[o + i]
  BY <1>3, <1>5, <1>7
<1> QED
  BY <1>1, <1>3, <1>7, <1>8, <1>9 DEF n, size, o, p

(* Sorted by the primary key, it holds the rows of a range of ranks.        *)
LEMMA PageOfRanks ==
  ASSUME NEW S \in SUBSET Nat, IsFiniteSet(S), SortedById, request \in Requests,
         page \in Nat \ {0}, NEW s \in Orders(rows, S, request.sorts), NEW x \in S
  PROVE  LET o == Offset(page, request.size)
         IN  /\ Cardinality(Ahead(S, x)) \in 0..(Cardinality(S) - 1)
             /\ x \in Range(PageOf(s, page, request.size))
                  <=> Cardinality(Ahead(S, x)) \in o..(o + request.size - 1)
<1> DEFINE n == Cardinality(S)
           size == request.size
           o == Offset(page, size)
           p == PageOf(s, page, size)
<1>1. /\ n \in Nat /\ s \in [1..n -> S]
      /\ \A y \in S : \E i \in 1..n : s[i] = y
      /\ \A i, j \in 1..n : i # j => s[i] # s[j]
  BY OrderIsWhole
<1>2. /\ o \in Nat /\ p \in Seq(S)
      /\ Len(p) = IF n <= o THEN 0 ELSE IF n < o + size THEN n - o ELSE size
      /\ \A i \in 1..Len(p) : p[i] = s[o + i]
  BY PageLength
<1>3. size \in Nat \ {0}
  BY PagingAssumption
<1>4. PICK k \in 1..n : s[k] = x
  BY <1>1
<1>5. Cardinality(Ahead(S, x)) = k - 1
  BY <1>4, RankOfRow
<1>6. Range(p) = {p[i] : i \in 1..Len(p)}
  BY <1>2, LenProperties DEF Range
<1> HIDE DEF n, size, o, p
<1>7. ASSUME x \in Range(p) PROVE k - 1 \in o..(o + size - 1)
  <2>1. PICK i \in 1..Len(p) : p[i] = x
    BY <1>6, <1>7
  <2>2. s[o + i] = x /\ o + i \in 1..n /\ i <= size
    BY <1>1, <1>2, <1>3, <2>1
  <2>3. k = o + i
    BY <1>1, <1>4, <2>2
  <2> QED
    BY <1>2, <1>3, <2>2, <2>3, <1>1
<1>8. ASSUME k - 1 \in o..(o + size - 1) PROVE x \in Range(p)
  <2>1. k - o \in 1..Len(p) /\ o + (k - o) = k
    BY <1>1, <1>2, <1>3, <1>8
  <2> QED
    BY <1>2, <1>4, <1>6, <2>1
<1> QED
  BY <1>1, <1>5, <1>7, <1>8 DEF n, size, o, p

-----------------------------------------------------------------------------
(* The walk *)

(* Rows of the result were there at the start or have joined; those of the  *)
(* start are still in it or have gone.  What was counted has at least the   *)
(* rows of the start, and at most those the items are taken from.           *)
WalkInv ==
  /\ pc = "idle" =>
       page = 1 /\ seen = {} /\ start = {} /\ gone = {} /\ joined = {} /\ repeated = {}
  /\ pc # "idle" => start \subseteq Matched \cup gone /\ Matched \subseteq start \cup joined
  /\ pc = "items" /\ gone = {} => total \in Cardinality(start)..Cardinality(Matched)

(* Unless rows have left, those not yet seen are still to come; unless rows *)
(* have joined, those seen will not come again.                             *)
MissInv ==
  pc \in {"count", "items"} /\ SortedById /\ gone = {} =>
    \A x \in start \ seen : Rank(x) >= Offset(page, request.size)

RepeatInv ==
  pc \in {"count", "items"} /\ SortedById /\ joined = {} =>
    \A x \in seen \cap Matched : Rank(x) < Offset(page, request.size)

IInv ==
  /\ TypeOK /\ WalkInv /\ MissInv /\ RepeatInv
  /\ WalkMissesOnlyAfterLeaving /\ TotalMissesOnlyWhatWasPushed
  /\ RepeatsOnlyAfterJoining

(* The result is a finite set of ids.                                       *)
Finite ==
  /\ Matched \subseteq DOMAIN rows /\ DOMAIN rows \subseteq Nat
  /\ IsFiniteSet(Matched) /\ IsFiniteSet(DOMAIN rows)
  /\ Cardinality(Matched) \in 0..MaxRows

LEMMA MatchedType == TypeOK => Finite
<1> SUFFICES ASSUME TypeOK PROVE Finite
  OBVIOUS
<1>1. lastId \in Nat /\ MaxRows \in Nat /\ lastId <= MaxRows
  BY PagingAssumption DEF TypeOK
<1>2. IsFiniteSet(1..lastId) /\ Cardinality(1..lastId) = lastId
  BY <1>1, FS_Interval
<1>3. Matched \subseteq DOMAIN rows /\ DOMAIN rows \subseteq 1..lastId
  BY DEF Matched, Matching, TypeOK
<1>4. /\ IsFiniteSet(Matched) /\ IsFiniteSet(DOMAIN rows)
      /\ Cardinality(Matched) \in Nat /\ Cardinality(Matched) <= lastId
  BY <1>2, <1>3, FS_Subset, FS_CardinalityType
<1> QED
  BY <1>1, <1>3, <1>4 DEF Finite

LEMMA PageType ==
  ASSUME TypeOK
  PROVE  /\ request.size \in Nat \ {0} /\ page \in Nat \ {0}
         /\ Offset(page, request.size) \in Nat
         /\ Offset(page + 1, request.size) = Offset(page, request.size) + request.size
         /\ page - 1 <= Offset(page, request.size)
<1>1. request.size \in Nat \ {0} /\ page \in Nat \ {0}
  BY PagingAssumption DEF TypeOK
<1>2. \A n, d \in Nat \ {0} :
        /\ (n - 1) * d \in Nat /\ ((n + 1) - 1) * d = (n - 1) * d + d
        /\ n - 1 <= (n - 1) * d
  OBVIOUS
<1> QED
  BY <1>1, <1>2 DEF Offset

(* More rows, more rows ahead.                                              *)
LEMMA RankGrows ==
  ASSUME NEW T, IsFiniteSet(T), NEW S \in SUBSET T, NEW x
  PROVE  /\ Cardinality(Ahead(S, x)) \in Nat /\ Cardinality(Ahead(T, x)) \in Nat
         /\ Cardinality(Ahead(S, x)) <= Cardinality(Ahead(T, x))
<1>1. Ahead(S, x) \subseteq Ahead(T, x) /\ Ahead(T, x) \subseteq T
  BY DEF Ahead
<1> QED
  BY <1>1, FS_Subset, FS_CardinalityType

(* A change of the table under the walk: what left is in gone, what came is *)
(* in joined.                                                               *)
LEMMA ShiftKeeps ==
  ASSUME IInv, TypeOK', Shift(rows'), UNCHANGED client
  PROVE  IInv'
<1> USE DEF client
<1>1. CASE pc = "idle"
  <2>1. /\ gone' = gone /\ joined' = joined /\ repeated' = repeated /\ pc' = pc
        /\ page' = page /\ seen' = seen /\ start' = start
    BY <1>1 DEF Shift
  <2> QED
    BY <1>1, <2>1 DEF IInv, WalkInv, MissInv, RepeatInv, WalkMissesOnlyAfterLeaving,
      TotalMissesOnlyWhatWasPushed, RepeatsOnlyAfterJoining
<1>2. CASE pc # "idle"
  <2>1. /\ gone' = gone \cup (Matched \ Matched') /\ joined' = joined \cup (Matched' \ Matched)
        /\ UNCHANGED <<request, page, total, items, pc, start, seen, repeated>>
    BY <1>2 DEF Shift, Matched
  <2>2. Finite /\ Finite' /\ Offset(page, request.size) \in Nat
    <3>1. TypeOK' => Finite'
      BY MatchedType, PTL
    <3> QED
      BY <3>1, MatchedType, PageType DEF IInv
  <2>3. /\ IsFiniteSet(Matched) /\ IsFiniteSet(Matched')
        /\ Cardinality(Matched) \in Nat /\ Cardinality(Matched') \in Nat
        /\ IsFiniteSet(joined) /\ IsFiniteSet(joined')
        /\ joined \subseteq joined' /\ IsFiniteSet(start)
    BY <2>1, <2>2, FS_Subset DEF Finite, IInv, TypeOK
  <2>4. SortedById' = SortedById /\ \A S, x : Ahead(S, x)' = Ahead(S, x)
    BY <2>1 DEF SortedById, Ahead, Before
  <2>5. gone' = {} => gone = {} /\ Matched \subseteq Matched'
    BY <2>1
  <2>6. joined' = {} => joined = {} /\ Matched' \subseteq Matched
    BY <2>1
  <2>7. WalkInv'
    <3>1. start' \subseteq Matched' \cup gone' /\ Matched' \subseteq start' \cup joined'
      BY <1>2, <2>1 DEF IInv, WalkInv
    <3>2. ASSUME pc = "items", gone' = {}
          PROVE  total \in Cardinality(start)..Cardinality(Matched')
      <4>1. total \in Cardinality(start)..Cardinality(Matched)
        BY <2>5, <3>2 DEF IInv, WalkInv
      <4>2. Cardinality(Matched) <= Cardinality(Matched') /\ Cardinality(start) \in Nat
        BY <2>3, <2>5, <3>2, FS_Subset, FS_CardinalityType
      <4> QED
        BY <2>3, <4>1, <4>2
    <3> QED
      BY <1>2, <2>1, <3>1, <3>2 DEF WalkInv
  <2>8. MissInv'
    <3> SUFFICES ASSUME pc \in {"count", "items"}, SortedById, gone' = {},
                        NEW x \in start \ seen
                 PROVE  Cardinality(Ahead(Matched', x)) >= Offset(page, request.size)
      BY <2>1, <2>4 DEF MissInv, Rank
    <3>1. Cardinality(Ahead(Matched, x)) >= Offset(page, request.size)
      BY <2>5 DEF IInv, MissInv, Rank
    <3> QED
      BY <2>2, <2>3, <2>5, <3>1, RankGrows
  <2>9. RepeatInv'
    <3> SUFFICES ASSUME pc \in {"count", "items"}, SortedById, joined' = {},
                        NEW x \in seen \cap Matched'
                 PROVE  Cardinality(Ahead(Matched', x)) < Offset(page, request.size)
      BY <2>1, <2>4 DEF RepeatInv, Rank
    <3>1. Cardinality(Ahead(Matched, x)) < Offset(page, request.size)
      BY <2>6 DEF IInv, RepeatInv, Rank
    <3> QED
      BY <2>2, <2>3, <2>6, <3>1, RankGrows
  <2>10. WalkMissesOnlyAfterLeaving'
    BY <2>1, <2>4, <2>5 DEF IInv, WalkMissesOnlyAfterLeaving
  <2>11. TotalMissesOnlyWhatWasPushed'
    <3>1. /\ Cardinality(joined) <= Cardinality(joined')
          /\ Cardinality(joined) \in Nat /\ Cardinality(joined') \in Nat
          /\ Cardinality(start \ seen) \in Nat
      BY <2>3, FS_Subset, FS_CardinalityType, FS_Difference
    <3> QED
      BY <2>1, <2>4, <2>5, <3>1 DEF IInv, TotalMissesOnlyWhatWasPushed
  <2>12. RepeatsOnlyAfterJoining'
    BY <2>1, <2>4, <2>6 DEF IInv, RepeatsOnlyAfterJoining
  <2> QED
    BY <2>7, <2>8, <2>9, <2>10, <2>11, <2>12 DEF IInv
<1> QED
  BY <1>1, <1>2

-----------------------------------------------------------------------------
(* The page that is read *)

(* Math.ceil(total / size): it is no more than the total, and so many pages *)
(* hold the total.                                                          *)
LEMMA CeilingDivides ==
  ASSUME NEW n \in Nat, NEW d \in Nat \ {0}
  PROVE  /\ TotalPages(n, d) \in Nat /\ TotalPages(n, d) <= n
         /\ \A k \in Nat : k >= TotalPages(n, d) => n <= k * d
<1> DEFINE q == (n + d - 1) \div d
           m == (n + d - 1) % d
<1>1. n + d - 1 \in Nat
  OBVIOUS
<1>2. q \in Nat /\ m \in 0..(d - 1) /\ n + d - 1 = d * q + m
  BY <1>1
<1> HIDE DEF q, m
<1>3. q <= n
  <2> SUFFICES ASSUME q >= n + 1 PROVE FALSE
    BY <1>2
  <2>1. d * q >= d * (n + 1)
    BY <1>2
  <2>2. d * (n + 1) >= d + n
    BY <1>1
  <2> QED
    BY <1>2, <2>1, <2>2
<1>4. ASSUME NEW k \in Nat, k >= q PROVE n <= k * d
  <2>1. d * q <= k * d
    BY <1>2, <1>4
  <2> QED
    BY <1>2, <2>1
<1> QED
  BY <1>2, <1>3, <1>4 DEF TotalPages, q

(* What the query for the items returns, and what it makes of the walk.     *)
LEMMA ItemsRead ==
  ASSUME IInv, Items
  PROVE  /\ items' \in Seq(Matched)
         /\ Len(items') = IF Cardinality(Matched) <= Offset(page, request.size) THEN 0
                          ELSE IF Cardinality(Matched) < Offset(page, request.size) + request.size
                          THEN Cardinality(Matched) - Offset(page, request.size)
                          ELSE request.size
         /\ SortedById =>
              /\ \A x \in Matched :
                   /\ Rank(x) \in 0..(Cardinality(Matched) - 1)
                   /\ x \in Range(items') <=>
                        Rank(x) \in Offset(page, request.size)
                                      ..(Offset(page, request.size) + request.size - 1)
              /\ \A x, y \in Matched : Rank(x) = Rank(y) => x = y
<1>1. PICK s \in Orders(rows, Matched, request.sorts) :
        items' = PageOf(s, page, request.size)
  BY DEF Items
<1>2. /\ Matched \in SUBSET Nat /\ IsFiniteSet(Matched)
      /\ request \in Requests /\ page \in Nat \ {0}
  BY MatchedType, PageType DEF Finite, IInv, TypeOK
<1>3. /\ items' \in Seq(Matched)
      /\ Len(items') = IF Cardinality(Matched) <= Offset(page, request.size) THEN 0
                       ELSE IF Cardinality(Matched) < Offset(page, request.size) + request.size
                       THEN Cardinality(Matched) - Offset(page, request.size)
                       ELSE request.size
  BY <1>1, <1>2, PageLength
<1>4. ASSUME SortedById, NEW x \in Matched
      PROVE  /\ Rank(x) \in 0..(Cardinality(Matched) - 1)
             /\ x \in Range(items') <=>
                  Rank(x) \in Offset(page, request.size)
                                ..(Offset(page, request.size) + request.size - 1)
  BY <1>1, <1>2, <1>4, PageOfRanks DEF Rank
<1>5. ASSUME SortedById, NEW x \in Matched, NEW y \in Matched, Rank(x) = Rank(y)
      PROVE  x = y
  <2>1. PICK i \in 1..Cardinality(Matched), j \in 1..Cardinality(Matched) :
          s[i] = x /\ s[j] = y
    BY <1>1, <1>2, OrderIsWhole
  <2>2. Rank(x) = i - 1 /\ Rank(y) = j - 1
    BY <1>1, <1>2, <1>5, <2>1, RankOfRow DEF Rank
  <2>3. i \in Int /\ j \in Int
    <3>1. Cardinality(Matched) \in Nat
      BY <1>2, FS_CardinalityType
    <3> QED
      BY <3>1
  <2>4. i - 1 = j - 1
    BY <1>5, <2>2, Zenon
  <2>5. i = j
    BY <2>3, <2>4
  <2> QED
    BY <2>1, <2>5
<1> QED
  BY <1>3, <1>4, <1>5

(* A page that a client does not stop at is within the rows.                *)
LEMMA PageBound ==
  ASSUME IInv, Items, ~LastPage(items')
  PROVE  page <= MaxRows
<1>1. /\ Cardinality(Matched) \in 0..MaxRows
      /\ request.size \in Nat \ {0} /\ page \in Nat \ {0}
      /\ Offset(page, request.size) \in Nat /\ page - 1 <= Offset(page, request.size)
      /\ MaxRows \in Nat /\ total \in 0..MaxRows
  BY MatchedType, PageType, PagingAssumption DEF Finite, IInv, TypeOK
<1>2. CASE request.by = "short"
  BY <1>1, <1>2, ItemsRead DEF LastPage
<1>3. CASE request.by # "short"
  <2>1. total \in Nat
    BY <1>1
  <2>2. TotalPages(total, request.size) \in Nat /\ TotalPages(total, request.size) <= total
    BY <1>1, <2>1, CeilingDivides
  <2>3. ~(page >= TotalPages(total, request.size))
    BY <1>3 DEF LastPage
  <2> QED
    BY <1>1, <2>2, <2>3
<1> QED
  BY <1>2, <1>3

(* A page read keeps the invariant: the next one begins where it ends.      *)
LEMMA ItemsKeep ==
  ASSUME IInv, Items
  PROVE  IInv'
<1> DEFINE o == Offset(page, request.size)
           size == request.size
           n == Cardinality(Matched)
<1>1. /\ n \in 0..MaxRows /\ IsFiniteSet(Matched) /\ Matched \subseteq DOMAIN rows
      /\ IsFiniteSet(DOMAIN rows)
      /\ size \in Nat \ {0} /\ page \in Nat \ {0} /\ o \in Nat
      /\ Offset(page + 1, size) = o + size
      /\ MaxRows \in Nat /\ request \in Requests
  BY MatchedType, PageType, PagingAssumption DEF Finite, IInv, TypeOK
<1>2. /\ pc = "items" /\ seen' = seen \cup Range(items')
      /\ repeated' = repeated \cup (seen \cap Range(items'))
      /\ UNCHANGED <<rows, lastId, inflight, request, total, start, gone, joined>>
      /\ \/ LastPage(items') /\ pc' = "done" /\ page' = page
         \/ ~LastPage(items') /\ pc' = "count" /\ page' = page + 1
  BY DEF Items
<1>3. /\ items' \in Seq(Matched) /\ Range(items') \subseteq Matched
      /\ Len(items') = IF n <= o THEN 0 ELSE IF n < o + size THEN n - o ELSE size
  <2>1. \A t \in Seq(Matched) : Range(t) \subseteq Matched
    BY LenProperties DEF Range
  <2> QED
    BY <2>1, ItemsRead
<1>4. SortedById =>
        /\ \A x \in Matched :
             Rank(x) \in 0..(n - 1) /\ (x \in Range(items') <=> Rank(x) \in o..(o + size - 1))
        /\ \A x, y \in Matched : Rank(x) = Rank(y) => x = y
  BY ItemsRead
<1>5. /\ Matched' = Matched /\ SortedById' = SortedById
      /\ \A x \in Matched : Rank(x)' = Rank(x)
  BY <1>2 DEF Matched, SortedById, Rank, Ahead, Before
<1> HIDE DEF o, size, n
<1>6. TypeOK'
  <2>1. page' \in 1..(MaxRows + 1)
    BY <1>1, <1>2, PageBound DEF IInv, TypeOK
  <2>2. Len(items') <= size
    BY <1>1, <1>3
  <2> QED
    BY <1>1, <1>2, <1>3, <2>1, <2>2 DEF IInv, TypeOK, size
<1>7. WalkInv'
  BY <1>2, <1>5 DEF IInv, WalkInv
<1>8. ASSUME SortedById, gone = {}, NEW x \in start \ seen'
      PROVE  x \in Matched /\ Rank(x) >= o + size /\ Rank(x) \in 0..(n - 1)
  <2>1. x \in Matched /\ x \in start \ seen /\ x \notin Range(items')
    BY <1>2, <1>8 DEF IInv, WalkInv
  <2>2. Rank(x) >= o
    BY <1>2, <1>8, <2>1 DEF IInv, MissInv, o
  <2>3. Rank(x) \in 0..(n - 1) /\ Rank(x) \notin o..(o + size - 1)
    BY <1>4, <1>8, <2>1
  <2> QED
    BY <1>1, <2>1, <2>2, <2>3
<1>9. ASSUME SortedById, joined = {}, NEW x \in Matched
      PROVE  /\ x \in seen' => Rank(x) < o + size
             /\ x \in Range(items') => x \notin seen
  <2>1. x \in seen => Rank(x) < o
    BY <1>2, <1>9 DEF IInv, RepeatInv, o
  <2>2. Rank(x) \in 0..(n - 1) /\ (x \in Range(items') <=> Rank(x) \in o..(o + size - 1))
    BY <1>4, <1>9
  <2> QED
    BY <1>1, <1>2, <2>1, <2>2
<1>10. MissInv'
  <2> SUFFICES ASSUME pc' = "count", SortedById, gone = {}, NEW x \in start \ seen'
               PROVE  Rank(x)' >= Offset(page', size)
    BY <1>2, <1>5 DEF MissInv, size
  <2> QED
    BY <1>1, <1>2, <1>5, <1>8
<1>11. RepeatInv'
  <2> SUFFICES ASSUME pc' = "count", SortedById, joined = {}, NEW x \in seen' \cap Matched
               PROVE  Rank(x)' < Offset(page', size)
    BY <1>2, <1>5 DEF RepeatInv, size
  <2> QED
    BY <1>1, <1>2, <1>5, <1>9
<1>12. WalkMissesOnlyAfterLeaving'
  <2> SUFFICES ASSUME pc' = "done", request.by = "short", SortedById, gone = {},
                      NEW x \in start \ seen'
               PROVE  FALSE
    BY <1>2, <1>5 DEF WalkMissesOnlyAfterLeaving
  <2>1. Len(items') < size
    BY <1>2 DEF LastPage, size
  <2> QED
    BY <1>1, <1>3, <1>8, <2>1
<1>13. TotalMissesOnlyWhatWasPushed'
  <2> DEFINE missed == start \ seen'
             rank == [x \in missed |-> Rank(x)]
  <2> SUFFICES ASSUME pc' = "done", request.by = "total", SortedById, gone = {}
               PROVE  Cardinality(missed) <= Cardinality(joined)
    BY <1>2, <1>5 DEF TotalMissesOnlyWhatWasPushed
  <2>1. total <= o + size
    <3>1. page >= TotalPages(total, size) /\ total \in Nat
      BY <1>1, <1>2, PagingAssumption DEF LastPage, size, IInv, TypeOK
    <3>2. total <= page * size
      BY <1>1, <3>1, CeilingDivides
    <3>3. page * size = o + size
      BY <1>1 DEF o, size, Offset
    <3> QED
      BY <3>2, <3>3
  <2>2. /\ IsFiniteSet(start) /\ IsFiniteSet(joined)
        /\ Cardinality(start) \in Nat /\ Cardinality(joined) \in Nat
        /\ n <= Cardinality(start) + Cardinality(joined)
    <3>1. IsFiniteSet(start) /\ IsFiniteSet(joined)
      BY <1>1, FS_Subset DEF IInv, TypeOK
    <3>2. Matched \subseteq start \cup joined
      BY <1>2 DEF IInv, WalkInv
    <3>3. /\ IsFiniteSet(start \cup joined)
          /\ Cardinality(start \cup joined)
               = Cardinality(start) + Cardinality(joined) - Cardinality(start \cap joined)
          /\ Cardinality(start \cap joined) \in Nat
      BY <3>1, FS_Union, FS_Intersection, FS_CardinalityType
    <3>4. n <= Cardinality(start \cup joined)
      BY <3>2, <3>3, FS_Subset DEF n
    <3> QED
      BY <1>1, <3>1, <3>3, <3>4, FS_CardinalityType
  <2>3. Cardinality(start) <= total /\ total \in Nat
    BY <1>2, <2>2 DEF IInv, WalkInv, TypeOK
  <2>4. \A x \in missed : x \in Matched /\ Rank(x) \in (o + size)..(n - 1)
    BY <1>1, <1>8
  <2>5. rank \in Injection(missed, (o + size)..(n - 1))
    BY <1>4, <2>4 DEF Injection, IsInjective
  <2>6. Cardinality(missed) <= Cardinality((o + size)..(n - 1))
    BY <1>1, <2>5, FS_Interval, FS_Injection
  <2>7. Cardinality((o + size)..(n - 1))
          = IF o + size > n - 1 THEN 0 ELSE (n - 1) - (o + size) + 1
    BY <1>1, FS_Interval
  <2>8. Cardinality(missed) \in Nat
    BY <2>2, FS_Subset, FS_CardinalityType
  <2> HIDE DEF missed, rank
  <2> QED
    BY <1>1, <2>1, <2>2, <2>3, <2>6, <2>7, <2>8
<1>14. RepeatsOnlyAfterJoining'
  <2> SUFFICES ASSUME SortedById, joined = {} PROVE repeated' = {}
    BY <1>2, <1>5 DEF RepeatsOnlyAfterJoining
  <2>1. repeated = {}
    BY DEF IInv, RepeatsOnlyAfterJoining
  <2> QED
    BY <1>2, <1>3, <1>9, <2>1
<1> QED
  BY <1>6, <1>7, <1>10, <1>11, <1>12, <1>13, <1>14 DEF IInv

-----------------------------------------------------------------------------
(* The theorems *)

LEMMA IInvStep == IInv /\ [Next]_vars => IInv'
<1> SUFFICES ASSUME IInv, [Next]_vars PROVE IInv'
  OBVIOUS
<1> USE DEF client
<1>1. CASE Insert
  <2>1. TypeOK'
    BY <1>1, PagingAssumption DEF Insert, IInv, TypeOK
  <2>2. /\ UNCHANGED <<request, page, total, pc, start, seen, repeated, gone, joined>>
        /\ Matched' = Matched
    BY <1>1 DEF Insert, Matched
  <2>3. SortedById' = SortedById /\ \A x : Rank(x)' = Rank(x)
    BY <2>2 DEF SortedById, Rank, Ahead, Before
  <2> QED
    BY <2>1, <2>2, <2>3
       DEF IInv, WalkInv, MissInv, RepeatInv, WalkMissesOnlyAfterLeaving,
           TotalMissesOnlyWhatWasPushed, RepeatsOnlyAfterJoining
<1>2. CASE CommitRow
  <2>1. PICK id \in inflight, st \in {PENDING, COMPLETED} :
          /\ rows' = [i \in DOMAIN rows \cup {id} |-> IF i = id THEN st ELSE rows[i]]
          /\ inflight' = inflight \ {id}
    BY <1>2 DEF CommitRow
  <2>2. Shift(rows') /\ UNCHANGED lastId /\ UNCHANGED client
    BY <1>2 DEF CommitRow
  <2>3. DOMAIN rows' = DOMAIN rows \cup {id} /\ id \in (1..lastId) \ DOMAIN rows
    BY <2>1 DEF IInv, TypeOK
  <2>4. \A i \in DOMAIN rows' : rows'[i] \in {COMPLETED, FAILED, PENDING}
    BY <2>1, <2>3 DEF IInv, TypeOK
  <2>5. gone' \cup joined' \subseteq DOMAIN rows'
    BY <2>2, <2>3 DEF Shift, Matched, Matching, IInv, TypeOK
  <2>6. TypeOK'
    BY <2>1, <2>2, <2>3, <2>4, <2>5 DEF IInv, TypeOK
  <2> QED
    BY <2>2, <2>6, ShiftKeeps
<1>3. CASE Settle
  <2>1. PICK id \in DOMAIN rows, st \in {COMPLETED, FAILED} :
          rows' = [rows EXCEPT ![id] = st]
    BY <1>3 DEF Settle
  <2>2. Shift(rows') /\ UNCHANGED <<lastId, inflight>> /\ UNCHANGED client
    BY <1>3 DEF Settle
  <2>3. DOMAIN rows' = DOMAIN rows
    BY <2>1
  <2>4. \A i \in DOMAIN rows' : rows'[i] \in {COMPLETED, FAILED, PENDING}
    BY <2>1, <2>3 DEF IInv, TypeOK
  <2>5. gone' \cup joined' \subseteq DOMAIN rows'
    BY <2>2, <2>3 DEF Shift, Matched, Matching, IInv, TypeOK
  <2>6. TypeOK'
    BY <2>2, <2>3, <2>4, <2>5 DEF IInv, TypeOK
  <2> QED
    BY <2>2, <2>6, ShiftKeeps
<1>4. CASE Search
  <2>1. /\ pc = "idle" /\ pc' = "count" /\ start' = Matched
        /\ UNCHANGED <<rows, lastId, inflight, request, page, total, items, seen,
                       gone, joined, repeated>>
    BY <1>4 DEF Search
  <2>2. page = 1 /\ seen = {} /\ gone = {} /\ joined = {} /\ repeated = {}
    BY <2>1 DEF IInv, WalkInv
  <2>3. /\ Matched' = Matched /\ SortedById' = SortedById
        /\ \A x : Rank(x)' = Rank(x)
    BY <2>1 DEF Matched, SortedById, Rank, Ahead, Before
  <2>4. Matched \subseteq DOMAIN rows /\ IsFiniteSet(Matched)
    BY MatchedType DEF IInv, Finite
  <2>5. \A x : Rank(x) \in Nat
    BY <2>4, RankGrows DEF Rank
  <2>6. Offset(page, request.size) = 0
    BY <2>2, PageType DEF Offset, IInv
  <2>7. TypeOK' /\ WalkInv'
    BY <2>1, <2>2, <2>3, <2>4 DEF IInv, TypeOK, WalkInv
  <2>8. MissInv' /\ RepeatInv'
    BY <2>1, <2>2, <2>3, <2>5, <2>6 DEF MissInv, RepeatInv
  <2> QED
    BY <2>1, <2>2, <2>7, <2>8
       DEF IInv, WalkMissesOnlyAfterLeaving, TotalMissesOnlyWhatWasPushed,
           RepeatsOnlyAfterJoining
<1>5. CASE Count
  <2>1. /\ pc = "count" /\ pc' = "items" /\ total' = Cardinality(Matched)
        /\ UNCHANGED <<rows, lastId, inflight, request, page, items, start, seen,
                       gone, joined, repeated>>
    BY <1>5 DEF Count, TotalOf, Matched
  <2>2. /\ Matched' = Matched /\ SortedById' = SortedById
        /\ \A x : Rank(x)' = Rank(x)
    BY <2>1 DEF Matched, SortedById, Rank, Ahead, Before
  <2>3. IsFiniteSet(Matched) /\ Cardinality(Matched) \in 0..MaxRows
    BY MatchedType DEF IInv, Finite
  <2>4. gone = {} => Cardinality(start) \in Nat /\ Cardinality(start) <= Cardinality(Matched)
    BY <2>1, <2>3, FS_Subset, FS_CardinalityType DEF IInv, WalkInv
  <2>5. gone = {} => Cardinality(Matched) \in Cardinality(start)..Cardinality(Matched)
    BY <2>3, <2>4
  <2>6. TypeOK' /\ WalkInv'
    BY <2>1, <2>2, <2>3, <2>5 DEF IInv, TypeOK, WalkInv
  <2>7. MissInv' /\ RepeatInv'
    BY <2>1, <2>2 DEF IInv, MissInv, RepeatInv
  <2> QED
    BY <2>1, <2>2, <2>6, <2>7
       DEF IInv, WalkMissesOnlyAfterLeaving, TotalMissesOnlyWhatWasPushed,
           RepeatsOnlyAfterJoining
<1>6. CASE Terminating \/ UNCHANGED vars
  <2>1. UNCHANGED vars
    BY <1>6 DEF Terminating
  <2> QED
    BY <2>1 DEF vars, IInv, TypeOK, WalkInv, MissInv, RepeatInv, Matched, SortedById,
       Rank, Ahead, Before, WalkMissesOnlyAfterLeaving, TotalMissesOnlyWhatWasPushed,
       RepeatsOnlyAfterJoining
<1> QED
  BY <1>1, <1>2, <1>3, <1>4, <1>5, <1>6, ItemsKeep DEF Next

LEMMA IInvHolds == Spec => []IInv
<1>1. Init => IInv
  <2> SUFFICES ASSUME Init PROVE IInv
    OBVIOUS
  <2>1. TypeOK
    BY PagingAssumption DEF Init, TypeOK, Range
  <2> QED
    BY <2>1 DEF Init, IInv, WalkInv, MissInv, RepeatInv, WalkMissesOnlyAfterLeaving,
       TotalMissesOnlyWhatWasPushed, RepeatsOnlyAfterJoining
<1> QED
  BY <1>1, IInvStep, PTL DEF Spec

(* The walk's variables have their types: no page is longer than its size,  *)
(* and no client asks for pages beyond the rows.                            *)
THEOREM PagingTypeCorrect == Spec => []TypeOK
<1>1. IInv => TypeOK
  BY DEF IInv
<1> QED
  BY <1>1, IInvHolds, PTL

(* Sorted by the primary key, a walk that stops at a short page has seen    *)
(* every row that was there all along, unless rows before it left.          *)
THEOREM WalkSeesWhatStays == Spec => []WalkMissesOnlyAfterLeaving
<1>1. IInv => WalkMissesOnlyAfterLeaving
  BY DEF IInv
<1> QED
  BY <1>1, IInvHolds, PTL

(* A walk that stops by totalPages misses no more rows than have joined.    *)
THEOREM TotalSeesWhatWasNotPushed == Spec => []TotalMissesOnlyWhatWasPushed
<1>1. IInv => TotalMissesOnlyWhatWasPushed
  BY DEF IInv
<1> QED
  BY <1>1, IInvHolds, PTL

(* No row comes twice unless rows have joined the result.                   *)
THEOREM RowsComeOnce == Spec => []RepeatsOnlyAfterJoining
<1>1. IInv => RepeatsOnlyAfterJoining
  BY DEF IInv
<1> QED
  BY <1>1, IInvHolds, PTL

(* Whatever the sorts, a page has the items its total promises, unless rows *)
(* have left between the two queries or before.                             *)
THEOREM PagesHoldTheirTotal == Spec => PageHoldsItsTotal
<1>1. IInv /\ [Next]_vars =>
        [Items /\ gone = {} =>
           \/ Len(items') = request.size
           \/ Offset(page, request.size) + Len(items') >= total]_vars
  <2> SUFFICES ASSUME IInv, Items, gone = {}
               PROVE  \/ Len(items') = request.size
                      \/ Offset(page, request.size) + Len(items') >= total
    OBVIOUS
  <2>1. /\ Cardinality(Matched) \in Nat /\ total \in Nat
        /\ request.size \in Nat \ {0} /\ Offset(page, request.size) \in Nat
    BY MatchedType, PageType, PagingAssumption DEF IInv, Finite, TypeOK
  <2>2. total <= Cardinality(Matched)
    <3>1. IsFiniteSet(start)
      BY MatchedType, FS_Subset DEF IInv, Finite, TypeOK
    <3>2. total \in Cardinality(start)..Cardinality(Matched) /\ Cardinality(start) \in Nat
      BY <3>1, FS_CardinalityType DEF Items, IInv, WalkInv
    <3> QED
      BY <2>1, <3>2
  <2> QED
    BY <2>1, <2>2, ItemsRead
<1> QED
  BY <1>1, IInvHolds, PTL DEF Spec, PageHoldsItsTotal
=============================================================================
