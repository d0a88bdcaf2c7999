-------------------------- MODULE MC_VectorBookTop --------------------------
(* One reader thread, two ids, one price, three slots.                   *)
EXTENDS VectorBook

MCPrices == {Price(1, 50)}
MCOwnsDisjoint == [t \in Threads |-> IF t = "t1" THEN {1} ELSE {2}]

(***************************************************************************)
(* A history variable: changed[t] records whether any slot has been        *)
(* written, or a store has been in progress, since t's last ShowTop10      *)
(* began.  It only observes.                                               *)
(***************************************************************************)
VARIABLE changed

StoreInFlight == \E u \in Threads : pc'[u] = "AddStore"

ChangedNext ==
    changed' = [t \in Threads |->
                  IF pc[t] = "Idle" /\ pc'[t] = "ChkB" THEN StoreInFlight
                  ELSE changed[t] \/ slots' # slots \/ StoreInFlight]

TopSpec == changed = [t \in Threads |-> FALSE] /\ Init /\ [][Next /\ ChangedNext]_<<vars, changed>> /\ Fairness

\* A ShowTop10 that no write overlapped, and after which nothing was
\* written, returns the oracle's best K of each side (spec.md section 8:
\* Top10 matches the oracle; concurrent inserts followed by a barrier and a
\* single ShowTop10 converge).
UndisturbedScanIsOracle ==
    \A t \in Readers :
        pc[t] = "Idle" /\ ~changed[t] =>
            top[t] = [bids |-> TopRef(LiveOrders(BUY), BUY),
                      asks |-> TopRef(LiveOrders(SELL), SELL)]
=============================================================================
