---------------------------- MODULE MainHashSet ----------------------------
(***************************************************************************)
(* The first half of main() in src/src/Main.cpp:                           *)
(*   OrderBookTesting<ConcurrentOrderBook_HashSet> test; test.TestAll();    *)
(*   test.MeasureOneThread(); test.MeasureConcurrentThreads();             *)
(* HarnessCore driving Strategy B itself (HashSetBook) rather than the     *)
(* contract: each harness thread is a book thread, may call for any id,    *)
(* and its Adds are the harness's, with no caller discipline.              *)
(***************************************************************************)
EXTENDS HarnessCore

CONSTANT NoThread

VARIABLES order_book, index, acc, sh_readers, barg, bcaller, probe, out, out_b

bvars == <<order_book, index, acc, sh_readers, bpc, barg, bcaller, probe, out, out_b, top>>
vars == <<hvars, bvars>>

Book == INSTANCE HashSetBook WITH Threads <- HThreads,
            Prices <- Prices \cup {Price(j, 10) : j \in 0 .. MaxN},
            Owns <- [t \in HThreads |-> Ids], DupFields <- TRUE,
            pc <- bpc, arg <- barg, caller <- bcaller

\* OrderBookImpl obj: both sets and both indexes empty; no call is running,
\* so no accessor and no shared lock is held.
NewBook ==
    /\ order_book' = [x \in Types |-> {}]
    /\ index' = [x \in Types |-> <<>>]
    /\ top' = [t \in HThreads |-> Book!NoList]
    /\ UNCHANGED <<acc, sh_readers, bpc, barg, bcaller, probe, out, out_b>>

\* The book starts the call c of thread t.
Invoke(t, c) ==
    CASE c.op = "New"   -> NewBook
      [] c.op = "Add"   -> Book!Add(t, c.o)
      [] c.op = "Top10" -> Book!ShowBegin(t)
      [] OTHER          -> Book!Call(t, c.o, c.op)

Accept(t) ==
    /\ call[t] # NoCall
    /\ Invoke(t, call[t])
    /\ call' = [call EXCEPT ![t] = NoCall]
    /\ UNCHANGED <<r, s, mem, size, kept, idx, wst, failed>>

BookStep(t) == Book!Steps(t) /\ UNCHANGED hvars

Init == HarnessInit /\ Book!Init

Next ==
    \/ MainStep /\ UNCHANGED bvars
    \/ BarrierOpen /\ UNCHANGED bvars
    \/ \E w \in Workers : WorkerStep(w) /\ UNCHANGED bvars
    \/ \E t \in HThreads : Accept(t) \/ BookStep(t)

Fairness ==
    /\ WF_vars(MainStep /\ UNCHANGED bvars) /\ WF_vars(BarrierOpen /\ UNCHANGED bvars)
    /\ \A w \in Workers : WF_vars(WorkerStep(w) /\ UNCHANGED bvars)
    /\ \A t \in HThreads : WF_vars(Accept(t)) /\ WF_vars(BookStep(t))

Spec == Init /\ [][Next]_vars /\ Fairness

-----------------------------------------------------------------------------

\* Whenever no call runs, every element of Strategy B's sets is the one its
\* id indexes (HashSetBook's SetIndexed), under the calls main() makes: the
\* Measure loops' reads past orders.size() and Add's set insert, which is
\* not undone when the index insert fails, included.
SetIndexed == Book!SetIndexed
=============================================================================
