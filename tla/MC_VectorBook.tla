---------------------------- MODULE MC_VectorBook ----------------------------
(* Two threads, two ids, one price, three slots (0 stays empty).         *)
EXTENDS VectorBook

MCPrices == {Price(1, 50)}
\* Each thread calls for its own id, as the harness's threads do with
\* their stride of the order vector.
MCOwnsDisjoint == [t \in Threads |-> IF t = "t1" THEN {1} ELSE {2}]
\* Two prices: an id can be re-added with other fields.
MCPricesTwo == {Price(1, 50), Price(1, 60)}
\* t1 only calls ShowTop10; t2 calls for every id.
MCOwnsWriter == [t \in Threads |-> IF t = "t1" THEN {} ELSE Ids]

(***************************************************************************)
(* A history variable: stored is every order an Add has begun to store   *)
(* in its slot.  It only observes.                                         *)
(***************************************************************************)
VARIABLE stored

StoredNext ==
    stored' = stored \cup {arg'[u] : u \in {u \in Threads : pc'[u] = "AddStore"}}

StoredSpec == stored = {} /\ Init /\ [][Next /\ StoredNext]_<<vars, stored>> /\ Fairness

\* Every order ShowTop10 lists is one some Add stored in its slot: never an
\* emptied slot (spec.md 4.5 collects only slots whose id is not the
\* sentinel) and never a mix of two stores' fields.
ListedWereStored ==
    \A t \in Threads : Range(top[t].bids) \cup Range(top[t].asks) \subseteq stored
=============================================================================
