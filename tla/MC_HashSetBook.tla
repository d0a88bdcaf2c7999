--------------------------- MODULE MC_HashSetBook ---------------------------
(* Two threads, two ids, one price: the ids rank the orders of a side.   *)
EXTENDS HashSetBook

MCPrices == {Price(1, 50)}
\* Each thread calls for its own id, as the harness's threads do with
\* their stride of the order vector.
MCOwnsDisjoint == [t \in Threads |-> IF t = "t1" THEN {1} ELSE {2}]
\* t1 calls for id 1; the other threads only call ShowTop10.
MCOwnsRemover == [t \in Threads |-> IF t = "t1" THEN {1} ELSE {}]

=============================================================================
