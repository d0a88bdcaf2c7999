# TLA+ models of the OrderBook

This directory holds TLA+ models of the in-memory limit order book in
`src/`, the TLC configurations that check them, and `PROJECT.json`, which
lists the components, the runs, the source lines each definition models,
the findings and the hazards.

## 1. Inventory

### Components

| Component | Source | State | Operations |
|---|---|---|---|
| Order value model | `src/include/Order.h`, `src/src/Order.cpp` (copied in `src/src/dobyte.cpp`) | none: value types `Id`, `Price`, `Count`, `Type`, `Order` | `Price(int, frac)` throws when `frac > 99`; `operator==` on (price, count, id); `operator<` (asks) and `operator>` (bids): price first, then the *larger* count, then the *larger* id, the same tie-break in both |
| Top-K selector `FindTop10` | `src/include/ConcurrentOrderBook_HashMap.h:47-63`, copy in `dobyte.cpp:212-228` | local `std::set<Order, Cmp> res` | seed `res` with the first `min(10, n)` orders, then for each further order evict `*prev(res.end())` if the order ranks ahead of it |
| Strategy A, `ConcurrentOrderBook_HashMap` | `src/include/ConcurrentOrderBook_HashMap.h`, `src/src/ConcurrentOrderBook_HashMap.cpp` | `bids_`, `asks_`: `tbb::concurrent_hash_map<id, Order>`; `sh_mutex_b`, `sh_mutex_a`: `std::shared_mutex` | `Add` (shared lock, `insert`), `Remove` (`find` with accessor on bids, shared lock, `erase`; else the same on asks), `Change` (= `Remove`; `Add`), `ShowTop10` (exclusive lock, copy bids; exclusive lock, copy asks; `FindTop10` on each) |
| Strategy B, `ConcurrentOrderBook_HashSet` | `src/include/ConcurrentOrderBook_HashSet.h`, `src/src/ConcurrentOrderBook_HashSet.cpp` | per side a `ConcurrentOrderedBookPrototype` (`tbb::concurrent_set<Order, Cmp>` + `shared_mutex`) and an index `concurrent_hash_map<id, set::iterator>` | `Add` (set insert under shared lock, then index insert), `Remove` (index `find` with accessor, set `unsafe_erase` under exclusive lock, index `erase`; bids then asks), `Change` (= `Remove`; `Add`), `ShowTop10` (per side: shared lock, first 10 of the set) |
| Strategy C, `ConcurrentOrderBook_VectorFixSize` | `src/src/dobyte.cpp:139-234` | `bids_`, `asks_`: `concurrent_vector<Order>` of fixed size (default 100000), slot = id, id 0 = empty; `map_`: `concurrent_hash_map<id, Type>` | `Add` (`map_.insert`, result ignored; write slot), `Remove` (`find` with accessor; clear slot id; `erase`), `Change`, `ShowTop10` (no lock: scan every slot, keep those with id != 0, `FindTop10`) |
| Test/benchmark harness `OrderBookTesting` | `src/include/TestClass.h`, `dobyte.cpp:237-1180` | random generators | `GenerateOrders` (distinct ids 1..1e5), the oracle `GetTop10` (selection sort), sequential tests, concurrent tests where thread t handles orders t, t+T, t+2T, ..., latency measurements |
| Entry points | `src/src/Main.cpp`, `dobyte.cpp:1183-` | none | run the tests and print timings |

### How the parts interact

The three strategies are interchangeable behind `Add / Remove / Change /
ShowTop10`; the harness drives any of them. A and C call `FindTop10` on copies
of their storage; B keeps its sides sorted and reads the first 10. All
sharing is through one book object called from several OS threads: TBB
containers synchronise their own entries (hash-map accessors are per-entry
write locks held across calls), and each side has a `std::shared_mutex` that
mutations take in shared mode and A's `ShowTop10` (and B's erase) take in
exclusive mode. Nothing spans the two sides or the two halves of `Change`.

### What is hard

* Interleavings: `Change` is `Remove` then `Add` with nothing held in between;
  `Remove` probes bids then asks; `ShowTop10` reads the two sides at different
  instants (A, B) or reads slots one at a time with no lock at all (C).
* Locks held across steps: hash-map accessors held from `find` to `erase`,
  while the side's mutex is acquired; B's `ShowTop10` iterates under a
  *shared* lock that concurrent `Add`s also hold.
* Partial failure: B's `Add` inserts into the set and then into the index;
  when the second insert fails the first is not undone. C's `Add` ignores
  the result of `map_.insert`.
* Check-then-use: C's `ShowTop10` tests `id != 0` and then copies the slot.
* Boundaries: the top-K switch at `min(10, n)`; C's capacity against the
  harness's ids `1..100000`; id 0 as C's empty marker.

### What makes each component correct

* Comparators: strict total orders on the orders of one side, so that
  `std::set` and the eviction test are defined.
* `FindTop10`: returns exactly the best `min(10, n)` orders, best first,
  whatever order its input lists them in, keeping at most 10 candidates.
* Every strategy: at most one live order per id across both sides at
  quiescent states; every call returns (with one thread per id nothing
  contends, so this is only at stake where ids are shared); each side of a `ShowTop10` result is
  the best 10 of that side at one instant; `Change` replaces the order;
  B: every index entry refers to an element of its set and every element is
  indexed; C: slots written only inside the capacity, `map_` and the slots
  agree.

## 2. Plan

Modules, in the order they are built (most important behaviour first):

1. `OrderValue` — value model and comparators (pure operators). **Done.**
2. `TopK` — `FindTop10` as the fold `SelectFrom` of its loop body, with the
   reference `TopRef`; `TopKSelect` runs the two loops as actions. **Done.**
3. `AbstractBook` — the contract every strategy promises: per-side id maps,
   atomic `Add`, `Remove` effective at one step, `Change` = two steps,
   `ShowTop10` = best K of bids at one instant and of asks at a later one.
   **Done.**
4. `HashMapBook` — Strategy A, threads with per-step program counters,
   shown to refine `AbstractBook`. **Done.**
5. `HashSetBook` — Strategy B: set and index per side, the accessor, the
   rwlock that `ShowTop10` holds shared while it walks the set element by
   element; refinement to `AbstractBook`, index soundness, orphaned set
   elements, non-snapshot `ShowTop10`, writer starvation. **Done.**
6. `VectorBook` — Strategy C: slots, `map_`, unlocked two-read scan;
   capacity bound, sentinel id, map/slot agreement, refinement, the
   scan against the oracle when no write overlaps it. **Done.**
7. `TestOracle` — the harness's `GetTop10` selection sort, a second
   reference that `topk` checks `FindTop10` against. **Done.**
8. `HarnessCore` — `OrderBookTesting` as `main()` runs it: every test and
   measurement routine, the worker threads, barrier and join, against a
   book called through one call slot per thread. **Done.** `MainHashSet`
   and `MainHashMap` compose it with Strategies B and A, the two halves of
   `Main.cpp`'s `main()`.
9. `DobyteMain` — `main()` of `dobyte.cpp`: the same driver composed with
   `VectorBook`, so Strategy C receives exactly the calls the harness
   makes. **Done.**

Runs and bounds are listed in section 4.

## 3. Modules and how they map to the code

### `OrderValue`
`Price` is a record `[integer_part, fractional_part]`, `Order` a record
`[id, price, count, type]`. `Less` is `operator<`, `Greater` is `operator>`,
`TieAhead` is the tie-break line both share, `Ahead(side, a, b)` picks the
comparator a side uses (`greater` for bids, `less` for asks). They are
built, as in `Order.cpp`, from `PriceLess`/`PriceGreater`/`PriceEq` and the
`operator>` of `Id` and `Count` (`IdGreater`, `CountGreater`); ids and
counts are naturals.

### `TopK` and `TopKSelect`
`res` is the `std::set`: a set whose listing (`BestFirst`) is sorted by the
comparator. `Worst` is `*std::prev(res.end())`. `SeedStep` and `ScanStep`
are the two loop bodies; `FindTop10` folds them. `TopKSelect` has variables
`v` (the vector), `side`, `i` (the loop index) and `res`; `Seed` and `Scan`
are the two loops. `TopRef` is the independent reference: the orders that
fewer than K others rank ahead of, sorted.

### `AbstractBook`
Variables `book` (side -> id -> order), per-thread `pc`, `arg`, `caller`,
`shownBids` and `top`. Written from spec.md sections 4-6, not from code; it
is the specification the strategies are checked against.

### `HashMapBook` (Strategy A)
`storage[BUY]` is `bids_`, `storage[SELL]` is `asks_`; `acc[side][id]` is the
thread holding the TBB accessor on that entry. Each thread has `pc`, `arg`,
`caller` (`Remove` or `Change`), `probe` (the side `Remove` is probing),
`copy_b` and `top` (its last result). Actions: `Add` (whole `Add`: shared
lock + `insert` is atomic), `Call` (invocation of `Remove` or `Change`),
`RemFindHit` (`find(a, id)` succeeds and locks the entry; blocked while
another thread holds it), `RemFindMiss` (`find` fails: `a.release()` and
probe asks, or return), `RemErase` (shared lock + `erase(a)`), `ChgAdd`
(Change's `Add`), `ShowCopyBids`, `ShowCopyAsks` (second copy and both
`FindTop10`s). The mutexes have no variable: every critical section in A is
one step, and a shared/exclusive conflict between two one-step critical
sections only orders them, which interleaving already does.

Callers: `Owns[t]` is the set of ids thread t calls for; a thread `Add`s an
id only when it is not live on the other side (spec.md section 3 makes live
ids unique a caller obligation). `MCOwnsDisjoint` gives each thread its own
id, as the harness's concurrent tests do (thread t takes every T-th order);
`MCOwnsShared` lets both threads call for both ids, which the contract
allows (spec.md section 5(a)) but no test exercises.

### `HashSetBook` (Strategy B)
`order_book[s]` is the `concurrent_set` of side s (`bids_`/`asks_`),
`index[s]` the id -> iterator map (`orders_bids_`/`orders_asks_`), with
the iterator modelled by the element it points at; `acc` the index
accessors; `sh_readers[s]` the threads holding the side's `sh_mutex_` in
shared mode for a `ShowTop10` walk (the other holders, `Add`'s insert and
`unsafe_erase` in exclusive mode, hold it for one step only). Actions:
`Add` (the set insert, `AddSet`; on a duplicate under the comparator the
call returns false), `AddIdx` (the index insert, which does not undo the
set insert when it fails), `Call`, `RemFindHit`/`RemFindMiss` (index
`find` on bids, then asks), `RemSet` (`bids_.Remove(it)`: waits until no
walk holds the lock, then erases), `RemIdx` (index `erase`, releasing the
accessor), `ChgAdd`, `ShowBegin` (shared lock on bids), `ShowNext`
(`push_back(*It)`, `++It`: the first element ranked behind the last one
read, in the set as it is now), `ShowDone` (the loop ends at `end()` or
after the K-th element; release, and go on to the asks or return).
`CallerMayAdd` is the callers' discipline, applied in `Next` and not in
`Add`, so that the harness compositions can make any `Add`; with `DupFields = FALSE` an Add
of a live id repeats the same order (a retry), which exercises the set's
duplicate rejection without creating an orphan.

The refinement to `AbstractBook` (`MutationsImplementAbstractBook`) covers
`Add`, `Remove` and `Change`: the mapping hides `ShowTop10`, whose walk is
not a snapshot (`hashset_top_snapshot`). `Remove` takes effect at `RemSet`
(or at a miss on the asks), `Add` and `Change`'s `Add` at the set
insert; the book is read from the sets.

`MC_HashSetBookSnap` adds a history variable `snaps`: the best K bids at
every state of a thread's bids walk, so that "the result was the top at
some instant of the walk" is a state invariant. `MC_HashSetBookTop` adds
`changed[t]`: whether either set was written since t's last walk took the
bids' lock, so that "an undisturbed walk returns the oracle" is one too.

### `VectorBook` (Strategy C)
`slots[s]` is `bids_`/`asks_` over `0 .. Capacity-1` (the vector's size),
`map` is `map_` (id -> side) and `acc` its accessors. `Add` is the
`map_.insert` (`MapInsert`: a no-op when the id is mapped, its result
unused), then the write `bids_[id] = std::move(order)`, a member-wise
store that is not atomic: `AddSlot` begins it and `AddStore` completes it
(no bounds check: an id outside `Slots` writes past `end()`, which no scan
reads, so the slots are unchanged). While a store into a slot is under way
a read of that slot (`ReadSlot`) may take each field, id, price and count,
from the old value or from the one being stored. `Call`, `RemFindHit`/`RemFindMiss` (`find(a, id)`), `RemClear`
(`id_.val_ = 0` on the side `map_` names), `RemErase` (`erase(a)`),
`ChgAdd`. `ShowTop10` has no lock: `ShowBegin`, then per slot `ScanCheck`
(reads `It->id_`) and `ScanCopy` (`push_back(*It)`, a second read),
`ScanEnd` (bids done: start the asks; asks done: `FindTop10` of both
copies). Both scan reads go through `ReadSlot`. `Readers` are the threads
that call `ShowTop10`.

`MC_VectorBookTop` adds a history variable `changed[t]`: whether any slot
was written, or any store was under way, since t's last `ShowTop10` began.
The refinement to `AbstractBook` covers `Add`, `Remove` and `Change` only
(their effect steps are `AddStore` and `RemClear`); the unlocked scan is
checked instead by `UndisturbedScanIsOracle` and, when disturbed, by
`vector_top_toctou`. `MC_VectorBook` adds a history variable `stored`: every
order some `Add` has begun to store, so that "every listed order is one
that was stored" (`ListedWereStored`) is a state invariant.

### `TestOracle`
`GetTop10(v_mix, type)`: `SelectSeq` keeps one type, `SelectPrefix` is the
outer loop over `i < min(10, size)` and `SwapPass` the inner loop that
swaps every later order ranking ahead of `v[i]` into place (`SwapAt` is
`std::swap`).

### `HarnessCore`
`OrderBookTesting` as `main()` runs it: `TestAll()`, `MeasureOneThread()`,
`MeasureConcurrentThreads()`. `Program` is the list of routines, each a
list of stages: `Fresh(n)` (`GenerateOrders(n)`, a new book, a shuffle),
`Loop(op, a, b)` (a `for` loop on the main thread), `Parallel(op, a, b)`
(`t_count` threads: `arrive_and_wait`, then thread t takes `a + t`,
`a + t + t_count`, ...; `join`), `Shuffle` and `Check(src)` (`ShowTop10`
compared with `GetTop10` of the orders expected; a mismatch returns from
the routine). Loop bounds written `orders.size()`, `size / 2` and
`std::min(size, new_orders.size())` are the codes `SIZE`, `HALF` and
`KEPT`, read when the loop starts. `GenerateOrders` is modelled by what it
does: `n` draws of `GenerateRandomOrder` (`Pool`), sorted by id
(`SortedDraws`), `std::unique` on the id, which keeps the first order of
each id and leaves the sorted tail past `size()` in storage
(`UniqueStore`, the variable `mem`), `erase`, then `std::shuffle`
(`Permuted`). The repricing loops (`Price(i, 10)`) and the keep/erase
branches of `TestInsertEraseChangeTop10` are arms of `Do`.

The book is left open. A harness thread t calls `obj` by writing the call
into its slot `call[t]` (`Issue`: `New` for `OrderBookImpl obj`, `Add`,
`Remove`, `Change`, `Top10`), and waits until the book has taken the call
and the book's program counter `bpc[t]` is back at `"Idle"` (`Returned`);
`Check` then reads the result from the book's `top[t]`. `HarnessCore` owns
`call` and only reads `bpc` and `top`; a composing module owns the book's
variables, takes a call with `Accept(t)` (start it, clear the slot) and runs
its in-call steps with `BookStep(t)`. Harness steps leave the book's
variables unchanged and book steps leave the harness's unchanged. `Arrive`, `BarrierOpen`, `WorkStep`, `WorkEnd` and `Join` are the
`std::barrier` and the `std::thread` joins. The 1000 repetitions of a test
are one round: each builds a fresh book and vector. Timing and printing are
left out.

### `MainHashSet` and `MainHashMap` (`Main.cpp`'s `main()`)
`main()` runs `TestAll`, `MeasureOneThread` and `MeasureConcurrentThreads`
for `OrderBookTesting<ConcurrentOrderBook_HashSet>` and then, with a new
tester, for `OrderBookTesting<ConcurrentOrderBook_HashMap>`. The halves
share no state, so each is a composition of its own: `HarnessCore` with an
`INSTANCE` of `HashSetBook` (Strategy B) and of `HashMapBook` (Strategy A),
every harness thread a book thread that may call for any id, with no caller
discipline on its `Add`s. `NewBook` is the book's constructor (empty
containers); `Invoke` starts `Add`, the first step of `ShowTop10`, or
`Call` (`Remove`, `Change`) for the call taken; `BookStep` runs the book's
in-call steps.

### `DobyteMain` (`dobyte.cpp`'s `main()`)
`HarnessCore` composed with an `INSTANCE` of `VectorBook` (Strategy C), with
every harness thread a book thread, every id allowed to every thread and
every thread a scanner: the harness's calls reach the array book with no
caller discipline (in the book runs, `CallerMayAdd` restricts which Adds a
thread makes; the harness's calls are not restricted). `NewBook` is the
constructor: every slot empty, `map_` empty. `dobyte.cpp`'s copy of
`OrderBookTesting` runs each routine once, as `HarnessCore` does.

## 4. Runs

| Run | Config | Expect | What it shows |
|---|---|---|---|
| `topk` | `MC_TopK.cfg` | pass | After every iteration `FindTop10`'s candidate set is exactly `TopRef` of the prefix it has read (`PrefixSelected`: so it holds at most K candidates and returns `TopRef` of the whole vector) for every vector of up to 3 distinct-id orders of one side, K = 2; both comparators are strict total orders on those orders; the harness's own oracle `GetTop10` agrees with `FindTop10` (`OracleAgrees`). |
| `hashmap_owned` | `MC_HashMapBook.cfg` | pass | With one thread per id: no id on both sides when no call runs; Strategy A implements `AbstractBook`, the oracle check of `ShowTop10` included. |
| `hashmap_change_race` | `MC_HashMapBook_shared.cfg` | violation | Two threads changing one id to different sides leave it on both sides after both return. |
| `hashset_owned` | `MC_HashSetBookTop.cfg` | pass | Strategy B, one thread per id, K = 2: no index entry refers to an erased element outside the Remove erasing it (`IndexSound`); at quiescent states every set element is the one its id indexes (`SetIndexed`); a `ShowTop10` that no set insert or erase overlapped, and after which nothing was written, returns `TopRef` of each side (`UndisturbedWalkIsOracle`); `Add`, `Remove` and `Change` implement `AbstractBook` (`MutationsImplementAbstractBook`). |
| `main_hashset_measure` | `MC_MainHashSet.cfg` | violation | `Main.cpp`'s Strategy B half leaves an orphan set element (`SetIndexed`): `MeasureOneThreadAdd` reads `orders[i]` past `orders.size()`, a stale draw of a live id with another count, and `Add` keeps its set insert when the index insert fails. |
| `hashset_top_snapshot` | `MC_HashSetBookSnap.cfg` | violation | With K = 2, a walk concurrent with two Adds returns bids that were never the best two (`BidsWalkIsSnapshot`). |
| `hashset_remove_starves` | `MC_HashSetBook_starve.cfg` | violation | Three threads: two overlapping `ShowTop10` walks keep a `Remove` waiting for ever, even with strong fairness for its erase (`OpsComplete`). |
| `vector_owned` | `MC_VectorBookTop.cfg` | pass | Strategy C, one thread per id, ids below the capacity, one scanning thread: `map_` and the slots agree when no call runs (`MapSlotsAgree`); `Add`/`Remove`/`Change` implement `AbstractBook`; a scan that no write and no store in progress overlapped returns `TopRef` of each side (`UndisturbedScanIsOracle`). |
| `vector_capacity` | `MC_VectorBook_capacity.cfg` | violation | With `Capacity = 2`, `Add` of id 2 maps it in `map_` but its write lands past the slots (`MapSlotsAgree`). |
| `vector_top_toctou` | `MC_VectorBook_toctou.cfg` | violation | `ShowTop10` lists an order no `Add` stored (`ListedWereStored`): an id-0 copy when a `Remove` clears the slot between the id check and the copy, or a torn copy mixing the stored order with the slot's old fields. |
| `harness` | `MC_MainHashMap.cfg` | pass | `Main.cpp`'s Strategy A half: `TestAll`, `MeasureOneThread` and `MeasureConcurrentThreads` against the real hash-map book: every check of `TestAll` succeeds (`TestsPass`), and every routine, barrier and join completes, so `main` returns (`HarnessTerminates`). |
| `dobyte_measure_overwrite` | `MC_DobyteMain.cfg` | violation | `dobyte.cpp`'s `main()` leaves Strategy C with `map_` and the slots disagreeing (`MapSlotsAgree`): in `MeasureOneThreadAdd`'s second loop the harness reads `orders[i]` past `orders.size()`, a stale draw with an id already live on the other side, and `Add` writes that side's slot although `map_.insert` failed. |

Every property of a passing run has a mutant in `PROJECT.json`: a plausible
bug in the definition it names (a dropped reset, a skipped insert, a loop
that starts one late, a barrier that waits for one thread too many) that
TLC finds the property violated under.

Bounds. `topk`: ids 1..4, prices 1.50, 1.99 and 2.00 (equal integer parts
and a larger one, so both halves of the price comparison matter), counts 1
and 2 (so the count tie-break matters), vectors of length up to 3 with
K = 2 (so both the seed loop and the eviction loop run, and eviction both
happens and does not). The literal 10 is the constant K: the algorithm is the
same for every K, and K = 2 with 3 inputs reaches the seed/evict boundary.
Book runs: 2 threads, 2 ids, one price and one count (the ids then rank
the orders; price and count ranking are covered by `topk`), K = 1 so that
`FindTop10` really drops an order when both ids are on one side. Two
threads suffice for every race listed: each needs two actors.
`hashset_owned` uses K = 2 so that a walk reads more than one element;
the refinement hides `ShowTop10`, so it holds for that K too
(`hashset_top_snapshot` shows, with four ids, the fewest for an insert
ahead of and one behind the iterator, that the walk is not a snapshot).
Strategy C runs: `Capacity = 3` covers slots 0..2, so ids 1 and 2 fit and
slot 0 (never an id) is scanned too; `vector_capacity` lowers it to 2 so
that id 2 is the vector's size, the harness's id 100000 against the
default size 100000. One reader thread: the scan is read-only, so a second
scanner adds no interleaving with a writer that one does not, and it
multiplies the state space. `vector_top_toctou` has two counts so that a
store over an empty slot can differ from it in a field other than the id.
`hashset_remove_starves` has three threads: two readers are needed
for the shared lock never to be free.
`harness`: ids 1..3 with one price and one count, `t_count = 2` workers,
K = 1, test sizes 2 and 3 and one measurement size 2 with `half_range = 1`.
Three draws from three ids produce both the duplicate-free and the
duplicate case of `GenerateOrders`, so vector sizes 1..3 all occur, and
with two workers each `Parallel` loop has a thread taking two indices and
one taking one. The literal sizes (1000, 10000, the four
`elements_count`, 500) only lengthen the same loops.
`main_hashset_measure` has the same bounds with two counts, so that a
stale draw of a live id on the same side can differ from it (with one price
and one count it would be the same order, which the set rejects).
`dobyte_measure_overwrite` has the same bounds with `Capacity = 4`, so every
id 1..3 fits the vector and the disagreement cannot come from the capacity
bug that `vector_capacity` shows.

Fairness. `WF` on each thread's in-call steps (`Steps(t)`): a started call is
run by its OS thread, which only ever waits on an accessor that its holder
releases in its next step. Calls themselves are not fair: a thread may stop
calling. No book run with one thread per id checks termination: there no
accessor is contended and no walk can be overlapped for ever, so it would
hold by the shape of the steps; liveness is checked where waiting is real,
in `hashset_remove_starves` and in the harness run. In the harness compositions (`MainHashSet`, `MainHashMap`,
`DobyteMain`) the main thread, the barrier's release, each worker and each
book call and in-call step are weakly fair: `main()` runs its routines straight
through, and each is a thread that runs whenever it is not blocked.

For the starvation run the erase step is given strong fairness
(`SpecStrongErase`), more than the code can count on, so that the
counterexample cannot be a scheduler that merely never runs the remover
while the lock is free.

Deadlock is checked in every book run (threads can always call again);
`topk` and the harness runs disable it because both terminate.

## 5. Findings

See `PROJECT.json` "findings": overlapping `Change`s of one id break the
one-side-per-id invariant that spec.md section 3 states for quiescent
states. (A `ShowTop10` overlapping a `Change` that moves an order from bids
to asks can also list it on both sides; spec.md 5(b) allows the sides to
come from different instants, so this is recorded as a hazard only.)
Strategy B: an `Add` of a live id with new fields returns false but leaves
an unremovable order in the set (spec.md section 7 says the book is left
unchanged); `ShowTop10`'s walk under the shared lock is not a snapshot
(spec.md section 1); overlapping `ShowTop10`s can starve a `Remove` (spec.md
section 5: calls complete or block briefly).
Strategy C: an id equal to the capacity, which the harness's id range
1..1e5 produces against the default size 100000, is written past the
vector and leaves `map_` naming an order no scan sees (spec.md 4.5 and
section 8); the unlocked scan checks a slot's id and copies the slot in two
reads, and the copy races with `Add`'s non-atomic store, so `ShowTop10` can
return an id-0 order or an order mixing the fields of two (for example
id 2 with the old count).
Harness: `GenerateOrders` removes duplicate ids, so `orders.size()` can be
smaller than requested, but the Measure functions loop to
`count + half_range` and read `orders[i]` past the end (TestClass.h:508 and
the seven loops like it; dobyte.cpp:781 in the copy). With libstdc++ the
read returns a stale draw behind `std::unique`, possibly an id already in
the book on the other side; in `dobyte.cpp` that reaches Strategy C's `Add`,
which ignores `map_.insert`'s failure and writes the other side's slot, so
the order can never be removed (`dobyte_measure_overwrite`); in `Main.cpp`
it reaches Strategy B's `Add`, whose set insert outlives the failed index
insert (`main_hashset_measure`). The `Mixed` loop of `TestInsertEraseChangeTop10`
(TestClass.h:275) never runs: its bound is below its start.

## 6. Not modelled

* Two threads on one id in Strategies B and C (shown for A by
  `hashmap_change_race`); C's `Add` over a live id (it ignores
  `map_.insert`'s result and overwrites the slot) is excluded by
  `CallerMayAdd` in `vector_owned` and reached from the harness in
  `dobyte_measure_overwrite`.
* The skip list's internal nodes: `ShowNext` reads the successor of the
  last element read in the set as it is at that step, which is what a
  concurrent skip-list iterator reaches.
* TBB internals (bucket rehashing, skip-list nodes): containers are
  modelled by their contents, each TBB operation as one atomic step.
* `Id`/`Count` overflow: ids and counts are only compared, never computed.
* The harness's timing (`std::chrono`) and all printing.
* Passing runs of `DobyteMain` and `MainHashSet`: the harness reaches the
  duplicate-id `Add` in the first Measure routine, so the books' own
  invariants fail there; `TestsPass` and `HarnessTerminates` are checked
  for the Strategy A half (`harness`).
* `ConcurrentOrderedBookPrototype::Change` (ConcurrentOrderBook_HashSet.h
  lines 82-88): no caller; `ConcurrentOrderBook_HashSet::Change` is
  `Remove` then `Add` of the book.
* The body of `TestInsertEraseChangeTop10`'s second loop (TestClass.h
  278-310): its bound is never above its start, so it never runs and no
  run could fire an action for it.
