--------------------------- MODULE MC_HashMapBook ---------------------------
(* Two threads, two ids, one price: the ids rank the orders of a side.   *)
EXTENDS HashMapBook

MCPrices == {Price(1, 50)}
\* Each thread calls for its own id, as the harness's threads do with
\* their stride of the order vector.
MCOwnsDisjoint == [t \in Threads |-> IF t = "t1" THEN {1} ELSE {2}]
\* Both threads call for both ids.
MCOwnsShared == [t \in Threads |-> Ids]
=============================================================================
