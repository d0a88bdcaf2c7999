------------------------- MODULE MC_HashSetBookSnap -------------------------
(* One thread walks ShowTop10 while another Adds; K = 2 and four ids.    *)
EXTENDS HashSetBook

MCPrices == {Price(1, 50)}
\* t1 only calls ShowTop10; t2 calls for every id.
MCOwnsWriter == [t \in Threads |-> IF t = "t1" THEN {} ELSE Ids]

(***************************************************************************)
(* A history variable for the bids walk of ShowTop10: snaps[t] holds the   *)
(* best K of the bids as they were at each state since t took the shared  *)
(* lock.  It only observes; the book's behaviours are unchanged.           *)
(***************************************************************************)
VARIABLE snaps

SnapsInit == snaps = [t \in Threads |-> {}]

SnapsNext ==
    snaps' = [t \in Threads |->
                CASE pc'[t] = "ShowB" /\ pc[t] = "Idle" -> {TopRef(order_book'[BUY], BUY)}
                  [] pc'[t] = "ShowB" -> snaps[t] \cup {TopRef(order_book'[BUY], BUY)}
                  [] OTHER -> snaps[t]]

SnapSpec == Init /\ SnapsInit /\ [][Next /\ SnapsNext]_<<vars, snaps>> /\ Fairness

\* The bids list of a ShowTop10 equals the best K bids at some instant of
\* its walk (spec.md section 1, "a coherent snapshot of the book at some
\* instant"), although Adds insert into the set while it is walked.
BidsWalkIsSnapshot ==
    \A t \in Threads : pc[t] = "ShowA" => out_b[t] \in snaps[t]
=============================================================================
