------------------------------ MODULE MCPaging ------------------------------
(* Small instances of Paging: searches as the endpoints get them. *)
EXTENDS Paging, TLC

Filter(key, op, value) ==
  [key |-> key, operator |-> op, value |-> value, valueTo |-> value + 1,
   values |-> {value}]

ById(direction) == <<[key |-> "id", direction |-> direction]>>
ByStatus        == <<[key |-> "status", direction |-> "DESC"]>>

MCFilters ==
  {<< >>,
   <<Filter("status", "EQUALS", PENDING)>>,
   <<Filter("status", "NOT_EQUALS", PENDING)>>,
   <<Filter("status", "IN", FAILED), Filter("id", "GREATER_THAN", 1)>>,
   <<[Filter("status", "IN", FAILED) EXCEPT !.values = {}]>>,
   <<Filter("id", "BETWEEN", 2)>>,
   <<Filter("id", "LESS_THAN", 3), Filter("status", "LIKE", COMPLETED)>>}

MCSorts == {<< >>, ById("ASC"), ById("DESC"), ByStatus, ByStatus \o ById("ASC")}

MCRequests ==
  [filters : MCFilters, sorts : MCSorts, size : 1..2, by : {"short", "total"}]
=============================================================================
