-------------------------------- MODULE TopK --------------------------------
(***************************************************************************)
(* FindTop10<Comparator>(v): the bounded selection of the best K orders,   *)
(* src/include/ConcurrentOrderBook_HashMap.h (and its copy in              *)
(* src/src/dobyte.cpp).  res is the std::set<Order, Comparator>: a set     *)
(* whose listing is best first.  FindTop10 folds the loop body SelectStep *)
(* over the vector; TopKSelect runs the same body as a state machine, and  *)
(* the book modules call FindTop10.                                        *)
(***************************************************************************)
EXTENDS OrderValue, Naturals, Sequences, FiniteSets, SequencesExt

CONSTANT K      \* the literal 10 of FindTop10

ASSUME K \in Nat \ {0}

\* *std::prev(res.end()): the element every other one ranks ahead of.
Worst(res, side) == CHOOSE w \in res : \A p \in res \ {w} : Ahead(side, p, w)

\* Loop 1 body: res.insert(v[i]) for i < min(10, size).
SeedStep(res, o) == res \cup {o}

\* Variant: inserts the better order without evicting the worst.
ScanStepNoEvict(res, o, side) ==
    IF Ahead(side, o, Worst(res, side)) THEN res \cup {o} ELSE res

\* Loop 2 body: if(Cmp(v[i], worst)) { erase worst; insert v[i]; }
ScanStep(res, o, side) ==
    IF Ahead(side, o, Worst(res, side))
    THEN (res \ {Worst(res, side)}) \cup {o}
    ELSE res

\* One iteration at index i (0-based), whichever loop it falls in.
SelectStep(res, v, i, side) ==
    IF i < K THEN SeedStep(res, v[i + 1]) ELSE ScanStep(res, v[i + 1], side)

\* return {res.begin(), res.end()}: the kept orders, best first.
BestFirst(res, side) == SetToSortSeq(res, LAMBDA a, b : Ahead(side, a, b))

RECURSIVE SelectFrom(_, _, _, _)
SelectFrom(res, v, i, side) ==
    IF i = Len(v) THEN res
    ELSE SelectFrom(SelectStep(res, v, i, side), v, i + 1, side)

FindTop10(v, side) == BestFirst(SelectFrom({}, v, 0, side), side)

(***************************************************************************)
(* The reference: the orders that fewer than K others rank ahead of,       *)
(* listed best first.  Independent of the order v lists them in.           *)
(***************************************************************************)
TopRef(S, side) ==
    BestFirst({o \in S : Cardinality({p \in S : Ahead(side, p, o)}) < K}, side)

=============================================================================
