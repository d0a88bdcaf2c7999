-------------------------- MODULE MC_HashSetBookTop --------------------------
(* Two threads, two ids, one price, each thread calling for its own id    *)
(* and both calling ShowTop10.                                             *)
EXTENDS HashSetBook

MCPrices == {Price(1, 50)}
MCOwnsDisjoint == [t \in Threads |-> IF t = "t1" THEN {1} ELSE {2}]

(***************************************************************************)
(* A history variable: changed[t] records whether either set has been      *)
(* written since t's last ShowTop10 took the bids' shared lock.  It only   *)
(* observes.                                                               *)
(***************************************************************************)
VARIABLE changed

ChangedNext ==
    changed' = [t \in Threads |->
                  IF pc[t] = "Idle" /\ pc'[t] = "ShowB" THEN FALSE
                  ELSE changed[t] \/ order_book' # order_book]

TopSpec == changed = [t \in Threads |-> FALSE] /\ Init /\ [][Next /\ ChangedNext]_<<vars, changed>> /\ Fairness

\* A ShowTop10 that no set insert or erase overlapped, and after which
\* nothing was written, returns the oracle's best K of each side: the
\* skip-list walk under the shared lock, bounded at K, then the same on
\* the asks, reads each side whole (spec.md section 8, Top10 matches the
\* oracle once concurrent writers are done).
UndisturbedWalkIsOracle ==
    \A t \in Threads :
        pc[t] = "Idle" /\ ~changed[t] =>
            top[t] = [bids |-> TopRef(order_book[BUY], BUY),
                      asks |-> TopRef(order_book[SELL], SELL)]
=============================================================================
