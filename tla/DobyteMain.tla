----------------------------- MODULE DobyteMain -----------------------------
(***************************************************************************)
(* main() of src/src/dobyte.cpp: the copy of OrderBookTesting there        *)
(* (HarnessCore) driving Strategy C, ConcurrentOrderBook_VectorFixSize     *)
(* (VectorBook), with test.TestAll(), test.MeasureOneThread() and          *)
(* test.MeasureConcurrentThreads().  Each harness thread is a book thread; *)
(* the book is called as the harness calls it, with no caller discipline.  *)
(***************************************************************************)
EXTENDS HarnessCore

CONSTANTS Capacity,   \* the vector's size, 100000 by default
          NoThread

VARIABLES slots, map, acc, barg, bcaller, pos, copy, copy_b

bvars == <<slots, map, acc, bpc, barg, bcaller, pos, copy, copy_b, top>>
vars == <<hvars, bvars>>

Book == INSTANCE VectorBook WITH Threads <- HThreads,
            Prices <- Prices \cup {Price(j, 10) : j \in 0 .. MaxN},
            Owns <- [t \in HThreads |-> Ids], Readers <- HThreads, DupFields <- TRUE,
            pc <- bpc, arg <- barg, caller <- bcaller

\* OrderBookImpl obj: every slot empty, map_ empty; no call is running.
NewBook ==
    /\ slots' = [x \in Types |-> [i \in Book!Slots |-> Book!EmptyOrder(x)]]
    /\ map' = <<>>
    /\ top' = [t \in HThreads |-> Book!NoList]
    /\ UNCHANGED <<acc, bpc, barg, bcaller, pos, copy, copy_b>>

\* The book starts the call c of thread t.
Invoke(t, c) ==
    CASE c.op = "New"   -> NewBook
      [] c.op = "Add"   -> Book!Add(t, c.o)
      [] c.op = "Top10" -> Book!ShowBegin(t)
      [] OTHER          -> Book!Call(t, c.o, c.op)

Accept(t) ==
    /\ call[t] # NoCall
    /\ Invoke(t, call[t])
    /\ call' = [call EXCEPT ![t] = NoCall]
    /\ UNCHANGED <<r, s, mem, size, kept, idx, wst, failed>>

BookStep(t) == Book!Steps(t) /\ UNCHANGED hvars

Init == HarnessInit /\ Book!Init

Next ==
    \/ MainStep /\ UNCHANGED bvars
    \/ BarrierOpen /\ UNCHANGED bvars
    \/ \E w \in Workers : WorkerStep(w) /\ UNCHANGED bvars
    \/ \E t \in HThreads : Accept(t) \/ BookStep(t)

Fairness ==
    /\ WF_vars(MainStep /\ UNCHANGED bvars) /\ WF_vars(BarrierOpen /\ UNCHANGED bvars)
    /\ \A w \in Workers : WF_vars(WorkerStep(w) /\ UNCHANGED bvars)
    /\ \A t \in HThreads : WF_vars(Accept(t)) /\ WF_vars(BookStep(t))

Spec == Init /\ [][Next]_vars /\ Fairness

-----------------------------------------------------------------------------

\* Whenever no call runs, map_ and the slots agree (VectorBook's
\* MapSlotsAgree) under the calls main() itself makes: the Measure loops'
\* reads and Add's ignored map_.insert result included.
MapSlotsAgree == Book!MapSlotsAgree
=============================================================================
