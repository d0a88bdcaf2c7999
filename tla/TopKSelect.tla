---------------------------- MODULE TopKSelect ----------------------------
(***************************************************************************)
(* The FindTop10 loop of src/include/ConcurrentOrderBook_HashMap.h as a    *)
(* state machine, one action per iteration, checked against TopRef on     *)
(* every input vector of at most MaxLen orders.                           *)
(***************************************************************************)
EXTENDS TopK, Functions

CONSTANTS Ids, Prices, Counts, MaxLen, Sides

Orders == {Order(id, p, c, t) : id \in Ids, p \in Prices, c \in Counts, t \in Types}

\* The vectors FindTop10 is called on: copies of one side's live orders, so
\* one type and pairwise distinct ids (the hash map is keyed by id).
Inputs(t) ==
    UNION { { [k \in 1..n |-> Order(ids[k], pc[k][1], pc[k][2], t)] :
                ids \in {f \in [1..n -> Ids] : IsInjective(f)},
                pc \in [1..n -> Prices \X Counts] } : n \in 0..MaxLen }

VARIABLES v, side, i, res

vars == <<v, side, i, res>>

Init ==
    /\ side \in Sides
    /\ v \in Inputs(side)
    /\ i = 0
    /\ res = {}

\* for(; i < std::min(10, size); ++i) res.insert(v[i]);
Seed ==
    /\ i < K /\ i < Len(v)
    /\ res' = SeedStep(res, v[i + 1])
    /\ i' = i + 1
    /\ UNCHANGED <<v, side>>

\* for(; i < size; ++i) if(Cmp(v[i], *std::prev(res.end()))) {...}
Scan ==
    /\ K <= i /\ i < Len(v)
    /\ res' = ScanStep(res, v[i + 1], side)
    /\ i' = i + 1
    /\ UNCHANGED <<v, side>>

Next == Seed \/ Scan

Spec == Init /\ [][Next]_vars

\* The loop invariant of FindTop10: after i iterations the candidate set is
\* exactly the best min(K, i) of v[0 .. i-1], whatever order the hash map
\* iterated them in.  So at most K candidates are held (O(N log K)), the
\* switch from seeding to evicting at min(10, size) loses nothing, and the
\* returned list is the best min(K, size) orders, best first.
PrefixSelected == BestFirst(res, side) = TopRef(ToSet(SubSeq(v, 1, i)), side)

\* Both comparators are strict total orders on the orders of one side, so
\* std::set<Order, Comparator> and the eviction test are well defined
\* (the open question of the comparators' shared tie-break), on every
\* vector FindTop10 is called with.
ComparatorsStrict ==
    LET S == ToSet(v) IN
    /\ \A a \in S : ~Ahead(side, a, a)
    /\ \A a, b \in S : a # b => (Ahead(side, a, b) # Ahead(side, b, a))
    /\ \A a, b, c \in S : Ahead(side, a, b) /\ Ahead(side, b, c) => Ahead(side, a, c)

=============================================================================
