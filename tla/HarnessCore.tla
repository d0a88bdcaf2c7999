---------------------------- MODULE HarnessCore ----------------------------
(***************************************************************************)
(* The test and benchmark driver OrderBookTesting of                       *)
(* src/include/TestClass.h (copied in src/src/dobyte.cpp) as main() runs   *)
(* it, with the book left open: a thread calls the book by putting the     *)
(* call in its slot call[t], and waits until the book has taken it and its *)
(* program counter bpc[t] is back at "Idle".  MainHashSet, MainHashMap    *)
(* and DobyteMain compose this module with a book.  The program is a list *)
(* of routines, each a list of stages that the main thread works through: *)
(*   Fresh(n)      GenerateOrders(n) into `orders`, a new `obj`, a shuffle *)
(*   Loop(op,a,b)  for(i = a; i < b; ++i) op(orders[i]) on the main thread *)
(*   Parallel(..)  t_count threads: arrive_and_wait, then                  *)
(*                 for(i = a + t; i < b; i += t_count) op(orders[i]); join *)
(*   Shuffle       the second std::shuffle of the Measure functions        *)
(*   Check(src)    obj.ShowTop10() compared with GetTop10 of the expected  *)
(*                 orders; a mismatch returns from the routine.            *)
(* The 1000 repetitions of a test are one here: each builds a fresh obj   *)
(* and vector, so the rounds are independent.  Timing and printing are    *)
(* left out.                                                               *)
(***************************************************************************)
EXTENDS TestOracle

CONSTANTS Ids,           \* id_dist_
          Prices,        \* the generated prices
          Counts,        \* count_dist_
          TCount,        \* t_count = std::max(2, hardware_concurrency())
          SmallN,        \* GenerateOrders(1000, ..)
          LargeN,        \* GenerateOrders(10000, ..)
          ElementsCount, \* elements_count = {1000, 5000, 10000, 50000}
          HalfRange      \* the half_range 500 of the Measure functions

ASSUME TCount >= 2 /\ HalfRange >= 1 /\ \A j \in DOMAIN ElementsCount : ElementsCount[j] > HalfRange

VARIABLES r, s,        \* the routine of Program and its stage
          mem,         \* the storage of `orders`: capacity n, size() = size
          size,        \* orders.size()
          kept,        \* new_orders
          idx,         \* each thread's loop index i; -1 before the stage starts
          wst,         \* the worker threads' state
          failed,      \* a check returned early
          call,        \* each thread's call not yet taken by the book
          bpc,         \* the book's program counter of each thread (read only)
          top          \* each thread's last ShowTop10 result (read only)

hvars == <<r, s, mem, size, kept, idx, wst, failed, call>>

Workers == 0 .. TCount - 1
Main == TCount
HThreads == Workers \cup {Main}

\* GenerateRandomOrder: any id, price, count and type of the distributions.
Pool == {Order(i, p, c, t) : i \in Ids, p \in Prices, c \in Counts, t \in Types}

MaxN == Max({SmallN, LargeN} \cup {ElementsCount[j] + HalfRange : j \in DOMAIN ElementsCount})

\* The orders the harness hands the book: drawn, or repriced to Price(i, 10).
HOrders == {Order(i, p, c, t) : i \in Ids, c \in Counts, t \in Types,
                                p \in Prices \cup {Price(j, 10) : j \in 0 .. MaxN}}

\* A call: OrderBookImpl obj ("New"), Add, Remove, Change or ShowTop10.
Calls == {"New", "Add", "Remove", "Change", "Top10"}
AnyOrder == CHOOSE o \in Pool : TRUE
Req(op, o) == [op |-> op, o |-> o]
NoCall == Req("None", AnyOrder)

\* Thread t calls op(o) on obj.
Issue(t, op, o) == call' = [call EXCEPT ![t] = Req(op, o)]

\* Thread t's last call has returned.
Returned(t) == call[t] = NoCall /\ bpc[t] = "Idle"

\* Loop bounds read from the vectors when the loop starts.
SIZE == -1   \* orders.size()
HALF == -2   \* old_size = size / 2
KEPT == -3   \* std::min(size, new_orders.size())

Bound(b) ==
    CASE b = SIZE -> size
      [] b = HALF -> size \div 2
      [] b = KEPT -> IF size < Len(kept) THEN size ELSE Len(kept)
      [] OTHER    -> b

Stage(kind, op, from, to, src, n) ==
    [kind |-> kind, op |-> op, from |-> from, to |-> to, src |-> src, n |-> n]
Fresh(n)               == Stage("Fresh", "", 0, 0, "", n)
Loop(op, from, to)     == Stage("Loop", op, from, to, "", 0)
Parallel(op, from, to) == Stage("Parallel", op, from, to, "", 0)
Shuffle                == Stage("Shuffle", "", 0, 0, "", 0)
Check(src)             == Stage("Check", "", 0, 0, src, 0)

TestAddAndTop10 == <<Fresh(SmallN), Loop("Add", 0, SIZE), Check("orders")>>

TestEraseAndTop10 ==
    <<Fresh(SmallN), Loop("Add", 0, SIZE), Loop("EraseOrKeep", 0, SIZE), Check("kept")>>

TestChangeAndTop10 ==
    <<Fresh(SmallN), Loop("Add", 0, SIZE), Loop("ChangeOrKeep", 0, SIZE), Check("kept")>>

\* The second loop runs for i in [old_size, min(size, new_orders.size())),
\* and new_orders.size() = old_size there: its body never runs.
TestInsertEraseChangeTop10 ==
    <<Fresh(LargeN), Loop("AddKeep", 0, HALF), Loop("Mixed", HALF, KEPT)>>

ConcurrentTestAddAndTop10 == <<Fresh(LargeN), Parallel("Add", 0, SIZE), Check("orders")>>

ConcurrentTestEraseAndTop10 ==
    <<Fresh(SmallN), Loop("Add", 0, SIZE), Parallel("Remove", 0, SIZE), Check("empty")>>

ConcurrentTestChangeAndTop10 ==
    <<Fresh(SmallN), Loop("Add", 0, SIZE), Parallel("RepriceChange", 0, SIZE), Check("orders")>>

TestAll ==
    <<TestAddAndTop10, TestEraseAndTop10, TestChangeAndTop10, TestInsertEraseChangeTop10,
      ConcurrentTestAddAndTop10, ConcurrentTestEraseAndTop10, ConcurrentTestChangeAndTop10>>

MeasureOneThreadAdd(c, h) == <<Fresh(c + h), Loop("Add", 0, c - h), Loop("Add", c - h, c + h)>>

MeasureOneThreadRemove(c, h) ==
    <<Fresh(c + h), Loop("Add", 0, c + h), Shuffle, Loop("Remove", 0, 2 * h)>>

MeasureOneThreadChange(c, h) ==
    <<Fresh(c + h), Loop("Add", 0, c + h), Shuffle, Loop("Reprice", 0, 2 * h),
      Loop("Change", 0, 2 * h)>>

MeasureOneThreadTop10(c, h) == <<Fresh(c + h), Loop("Add", 0, c + h), Loop("Top10", 0, 2 * h)>>

\* for(size_t count: elements_count) the four MeasureOneThread functions.
MeasureOneThread ==
    FlattenSeq([j \in DOMAIN ElementsCount |->
        LET c == ElementsCount[j] IN
        <<MeasureOneThreadAdd(c, HalfRange), MeasureOneThreadRemove(c, HalfRange),
          MeasureOneThreadChange(c, HalfRange), MeasureOneThreadTop10(c, HalfRange)>>])

MeasureConcurrentThreadsAdd(c, h) ==
    <<Fresh(c + h), Loop("Add", 0, c - h), Parallel("Add", c - h, c + h)>>

MeasureConcurrentThreadsRemove(c, h) ==
    <<Fresh(c + h), Loop("Add", 0, c + h), Shuffle, Parallel("Remove", 0, 2 * h)>>

MeasureConcurrentThreadsChange(c, h) ==
    <<Fresh(c + h), Loop("Add", 0, c + h), Shuffle, Loop("Reprice", 0, 2 * h),
      Parallel("Change", 0, 2 * h)>>

MeasureConcurrentThreadsTop10(c, h) ==
    <<Fresh(c + h), Loop("Add", 0, c + h), Parallel("Top10", 0, 2 * h)>>

\* for(size_t count: elements_count) the four MeasureConcurrentThreads functions.
MeasureConcurrentThreads ==
    FlattenSeq([j \in DOMAIN ElementsCount |->
        LET c == ElementsCount[j] IN
        <<MeasureConcurrentThreadsAdd(c, HalfRange), MeasureConcurrentThreadsRemove(c, HalfRange),
          MeasureConcurrentThreadsChange(c, HalfRange), MeasureConcurrentThreadsTop10(c, HalfRange)>>])

\* main(): test.TestAll(); test.MeasureOneThread(); test.MeasureConcurrentThreads().
Program == TestAll \o MeasureOneThread \o MeasureConcurrentThreads

Done == r > Len(Program)
Cur == Program[r][s]

\* Leave the stage: the next one, or the next routine after the last.
NextStage ==
    /\ IF s < Len(Program[r]) THEN r' = r /\ s' = s + 1 ELSE r' = r + 1 /\ s' = 1
    /\ idx' = [idx EXCEPT ![Main] = -1]

\* The vectors push_back of GenerateRandomOrder then std::sort by id can hold.
SortedDraws(n) == {d \in [1 .. n -> Pool] : \A k \in 1 .. n - 1 : d[k].id <= d[k + 1].id}

\* Positions std::unique keeps: the first of each run of equal ids.
Firsts(d) == {k \in DOMAIN d : k = 1 \/ d[k].id # d[k - 1].id}

\* std::unique moves the kept orders to the front and writes nothing past
\* them; v.erase only shrinks size(), so the storage past it keeps d's tail.
UniqueStore(d) ==
    LET F == SetToSortSeq(Firsts(d), <) IN
    [k \in DOMAIN d |-> IF k <= Len(F) THEN d[F[k]] ELSE d[k]]

\* std::shuffle of orders.begin() .. orders.end(): a permutation of the
\* first m places of the storage.
Permuted(v, m, p) == [k \in DOMAIN v |-> IF k <= m THEN v[p[k]] ELSE v[k]]

\* Variant: new_orders outlives the round.
NewRoundKeepsKept ==
    /\ Issue(Main, "New", AnyOrder)
    /\ UNCHANGED kept

\* The round's locals: a new OrderBookImpl obj and a new new_orders.
NewRound ==
    /\ Issue(Main, "New", AnyOrder)
    /\ kept' = <<>>

\* auto orders = GenerateOrders(n, ..); OrderBookImpl obj; std::shuffle(..).
FreshStep ==
    /\ ~Done /\ Cur.kind = "Fresh"
    /\ \E d \in SortedDraws(Cur.n) :
         LET m == Cardinality(Firsts(d)) IN
         /\ size' = m
         /\ \E p \in SetToSeqs(1 .. m) : mem' = Permuted(UniqueStore(d), m, p)
    /\ NewRound
    /\ NextStage
    /\ UNCHANGED <<wst, failed>>

\* The Measure functions' second std::shuffle, after the first loop.
ShuffleStep ==
    /\ ~Done /\ Cur.kind = "Shuffle"
    /\ \E p \in SetToSeqs(1 .. size) : mem' = Permuted(mem, size, p)
    /\ NextStage
    /\ UNCHANGED <<size, kept, wst, failed, call>>

\* One loop body on thread t, reading orders[i] (storage place i + 1).
Do(t, op, i) ==
    LET o == mem[i + 1] IN
    CASE op \in {"Add", "Remove", "Change"} ->
            Issue(t, op, o) /\ UNCHANGED <<mem, kept>>
      [] op = "Top10" ->
            Issue(t, "Top10", AnyOrder) /\ UNCHANGED <<mem, kept>>
      [] op = "Reprice" ->
            \* orders[i].price_ = Price(i, 10)
            mem' = [mem EXCEPT ![i + 1].price = Price(i, 10)] /\ UNCHANGED <<kept, call>>
      [] op = "RepriceChange" ->
            \* orders[i].price_ = Price(t, 10); obj.Change(orders[i])
            LET c == [o EXCEPT !.price = Price(t, 10)] IN
            mem' = [mem EXCEPT ![i + 1] = c] /\ Issue(t, "Change", c) /\ UNCHANGED kept
      [] op = "AddKeep" ->
            Issue(t, "Add", o) /\ kept' = Append(kept, o) /\ UNCHANGED mem
      [] op = "EraseOrKeep" ->
            \* if(to_erase[i]) obj.Remove(..) else new_orders.push_back(orders[i])
            \/ Issue(t, "Remove", o) /\ UNCHANGED <<mem, kept>>
            \/ kept' = Append(kept, o) /\ UNCHANGED <<mem, call>>
      [] op = "ChangeOrKeep" ->
            \* changed_order = GenerateRandomOrder(..) with orders[i]'s id
            \/ \E g \in Pool :
                 LET c == [g EXCEPT !.id = o.id] IN
                 kept' = Append(kept, c) /\ Issue(t, "Change", c) /\ UNCHANGED mem
            \/ kept' = Append(kept, o) /\ UNCHANGED <<mem, call>>

LoopStart ==
    /\ ~Done /\ Cur.kind = "Loop" /\ idx[Main] = -1 /\ Returned(Main)
    /\ idx' = [idx EXCEPT ![Main] = Bound(Cur.from)]
    /\ UNCHANGED <<r, s, mem, size, kept, wst, failed, call>>

\* The next iteration waits for the previous call to return.
LoopStep ==
    /\ ~Done /\ Cur.kind = "Loop"
    /\ idx[Main] >= 0 /\ idx[Main] < Bound(Cur.to) /\ Returned(Main)
    /\ Do(Main, Cur.op, idx[Main])
    /\ idx' = [idx EXCEPT ![Main] = @ + 1]
    /\ UNCHANGED <<r, s, size, wst, failed>>

LoopEnd ==
    /\ ~Done /\ Cur.kind = "Loop"
    /\ idx[Main] >= 0 /\ idx[Main] >= Bound(Cur.to) /\ Returned(Main)
    /\ NextStage
    /\ UNCHANGED <<mem, size, kept, wst, failed, call>>

\* threads.emplace_back(..) for t < t_count: each thread starts at from + t.
Spawn ==
    /\ ~Done /\ Cur.kind = "Parallel" /\ idx[Main] = -1 /\ Returned(Main)
    /\ idx' = [t \in HThreads |-> IF t = Main THEN 0 ELSE Bound(Cur.from) + t]
    /\ wst' = [w \in Workers |-> "Start"]
    /\ UNCHANGED <<r, s, mem, size, kept, failed, call>>

\* sync_point.arrive_and_wait(): the arrival.
Arrive(w) ==
    /\ wst[w] = "Start"
    /\ wst' = [wst EXCEPT ![w] = "Wait"]
    /\ UNCHANGED <<r, s, mem, size, kept, idx, failed, call>>

\* Variant: the barrier expects one arrival more than there are threads.
BarrierOpenOneMore ==
    /\ Cardinality({w \in Workers : wst[w] = "Wait"}) = TCount + 1
    /\ wst' = [w \in Workers |-> "Run"]
    /\ UNCHANGED <<r, s, mem, size, kept, idx, failed, call>>

\* std::barrier sync_point(t_count): the phase completes on t_count arrivals.
BarrierOpen ==
    /\ \A w \in Workers : wst[w] = "Wait"
    /\ wst' = [w \in Workers |-> "Run"]
    /\ UNCHANGED <<r, s, mem, size, kept, idx, failed, call>>

WorkStep(w) ==
    /\ wst[w] = "Run" /\ idx[w] < Bound(Cur.to) /\ Returned(w)
    /\ Do(w, Cur.op, idx[w])
    /\ idx' = [idx EXCEPT ![w] = @ + TCount]
    /\ UNCHANGED <<r, s, size, wst, failed>>

WorkEnd(w) ==
    /\ wst[w] = "Run" /\ idx[w] >= Bound(Cur.to) /\ Returned(w)
    /\ wst' = [wst EXCEPT ![w] = "Done"]
    /\ UNCHANGED <<r, s, mem, size, kept, idx, failed, call>>

\* Variant: main compares without joining the workers.
JoinEarly ==
    /\ ~Done /\ Cur.kind = "Parallel" /\ idx[Main] = 0
    /\ \E w \in Workers : wst[w] # "Off"
    /\ wst' = [w \in Workers |-> "Off"]
    /\ NextStage
    /\ UNCHANGED <<mem, size, kept, failed, call>>

\* for(auto& t: threads) t.join();
Join ==
    /\ ~Done /\ Cur.kind = "Parallel" /\ idx[Main] = 0
    /\ \A w \in Workers : wst[w] = "Done"
    /\ wst' = [w \in Workers |-> "Off"]
    /\ NextStage
    /\ UNCHANGED <<mem, size, kept, failed, call>>

\* The orders a check ranks with GetTop10.
Expected(src) ==
    CASE src = "orders" -> SubSeq(mem, 1, size)
      [] src = "kept"   -> kept
      [] src = "empty"  -> <<>>

\* auto result = obj.ShowTop10();
CheckShow ==
    /\ ~Done /\ Cur.kind = "Check" /\ idx[Main] = -1
    /\ Issue(Main, "Top10", AnyOrder)
    /\ idx' = [idx EXCEPT ![Main] = 0]
    /\ UNCHANGED <<r, s, mem, size, kept, wst, failed>>

\* if(result.top10_bids_ != .. || result.top10_asks_ != ..) return;
CheckCompare ==
    LET E == Expected(Cur.src) IN
    /\ ~Done /\ Cur.kind = "Check" /\ idx[Main] = 0 /\ Returned(Main)
    /\ IF top[Main].bids = GetTop10(E, BUY) /\ top[Main].asks = GetTop10(E, SELL)
       THEN NextStage /\ UNCHANGED failed
       ELSE failed' = TRUE /\ r' = r + 1 /\ s' = 1 /\ idx' = [idx EXCEPT ![Main] = -1]
    /\ UNCHANGED <<mem, size, kept, wst, call>>

\* The harness's part of the initial state; bpc and top are the book's.
HarnessInit ==
    /\ r = 1 /\ s = 1
    /\ mem = <<>> /\ size = 0 /\ kept = <<>>
    /\ idx = [t \in HThreads |-> -1]
    /\ wst = [w \in Workers |-> "Off"]
    /\ failed = FALSE
    /\ call = [t \in HThreads |-> NoCall]

MainStep ==
    FreshStep \/ ShuffleStep \/ LoopStart \/ LoopStep \/ LoopEnd \/ Spawn \/ Join
    \/ CheckShow \/ CheckCompare

WorkerStep(w) == Arrive(w) \/ WorkStep(w) \/ WorkEnd(w)

-----------------------------------------------------------------------------

TypeOK ==
    /\ r \in 1 .. Len(Program) + 1 /\ s \in 1 .. 5
    /\ mem \in Seq(HOrders) /\ size \in 0 .. Len(mem)
    /\ kept \in Seq(HOrders) /\ Len(kept) <= size
    /\ idx \in [HThreads -> -1 .. MaxN + TCount]
    /\ wst \in [Workers -> {"Off", "Start", "Wait", "Run", "Done"}]
    /\ failed \in BOOLEAN
    /\ call \in [HThreads -> {NoCall} \cup {Req(op, o) : op \in Calls, o \in HOrders}]

\* Every comparison of TestAll succeeds against a book that keeps the
\* contract: the harness's bookkeeping (orders after the repricing threads,
\* new_orders after the erase or change loop) and its GetTop10 oracle agree
\* with what ShowTop10 returns once the worker threads are joined, so a
\* failing test reports a book bug and not a harness bug.
TestsPass == ~failed

\* main returns: every barrier opens, every worker ends its stride loop and
\* is joined, and every routine of TestAll and of the two Measure functions
\* runs to its end.
HarnessTerminates == <>Done

====
