---------------------------- MODULE MainHashMap ----------------------------
(***************************************************************************)
(* The second half of main() in src/src/Main.cpp:                          *)
(*   OrderBookTesting<ConcurrentOrderBook_HashMap> test1; test1.TestAll();  *)
(*   test1.MeasureOneThread(); test1.MeasureConcurrentThreads();           *)
(* HarnessCore driving Strategy A itself (HashMapBook): each harness       *)
(* thread is a book thread, may call for any id, and its Adds are the      *)
(* harness's, with no caller discipline.                                   *)
(***************************************************************************)
EXTENDS HarnessCore

CONSTANT NoThread

VARIABLES storage, acc, barg, bcaller, probe, copy_b

bvars == <<storage, acc, bpc, barg, bcaller, probe, copy_b, top>>
vars == <<hvars, bvars>>

Book == INSTANCE HashMapBook WITH Threads <- HThreads,
            Prices <- Prices \cup {Price(j, 10) : j \in 0 .. MaxN},
            Owns <- [t \in HThreads |-> Ids],
            pc <- bpc, arg <- barg, caller <- bcaller

\* OrderBookImpl obj: both hash maps empty; no call is running, so no
\* accessor is held.
NewBook ==
    /\ storage' = [x \in Types |-> <<>>]
    /\ top' = [t \in HThreads |-> Book!NoList]
    /\ UNCHANGED <<acc, bpc, barg, bcaller, probe, copy_b>>

\* The book starts the call c of thread t.
Invoke(t, c) ==
    CASE c.op = "New"   -> NewBook
      [] c.op = "Add"   -> Book!Add(t, c.o)
      [] c.op = "Top10" -> Book!ShowCopyBids(t)
      [] OTHER          -> Book!Call(t, c.o, c.op)

Accept(t) ==
    /\ call[t] # NoCall
    /\ Invoke(t, call[t])
    /\ call' = [call EXCEPT ![t] = NoCall]
    /\ UNCHANGED <<r, s, mem, size, kept, idx, wst, failed>>

BookStep(t) == Book!Steps(t) /\ UNCHANGED hvars

Init == HarnessInit /\ Book!Init

Next ==
    \/ MainStep /\ UNCHANGED bvars
    \/ BarrierOpen /\ UNCHANGED bvars
    \/ \E w \in Workers : WorkerStep(w) /\ UNCHANGED bvars
    \/ \E t \in HThreads : Accept(t) \/ BookStep(t)

Fairness ==
    /\ WF_vars(MainStep /\ UNCHANGED bvars) /\ WF_vars(BarrierOpen /\ UNCHANGED bvars)
    /\ \A w \in Workers : WF_vars(WorkerStep(w) /\ UNCHANGED bvars)
    /\ \A t \in HThreads : WF_vars(Accept(t)) /\ WF_vars(BookStep(t))

Spec == Init /\ [][Next]_vars /\ Fairness
=============================================================================
