---------------------------- MODULE HashSetBook ----------------------------
(***************************************************************************)
(* Strategy B, ConcurrentOrderBook_HashSet (.h in src/include, .cpp in     *)
(* src/src).  Per side a ConcurrentOrderedBookPrototype: order_book_, a    *)
(* tbb::concurrent_set ordered by the side's comparator, beside sh_mutex_; *)
(* and an index, orders_bids_ / orders_asks_, a concurrent_hash_map from   *)
(* id to an iterator into that set.  The iterator is modelled by the value *)
(* it points at: set elements are never modified in place.                 *)
(*                                                                         *)
(* Granularity.  The set insert (shared lock), the unsafe_erase (exclusive *)
(* lock) and each hash-map call are one step.  ShowTop10 holds the shared  *)
(* lock across its whole walk of the set, so the walk is one step per      *)
(* element and the shared holders are a variable, sh_readers.             *)
(* Callers: thread t calls for the ids in Owns[t]; an Add never makes an   *)
(* id live on both sides, and, unless DupFields, an Add of an id live on   *)
(* its side repeats that very order (a retried Add).                       *)
(***************************************************************************)
EXTENDS TopK, Functions

CONSTANTS Threads, Ids, Prices, Counts, Owns, NoThread, DupFields

ASSUME NoThread \notin Threads
ASSUME Owns \in [Threads -> SUBSET Ids]
ASSUME DupFields \in BOOLEAN

Orders == {Order(id, p, c, t) : id \in Ids, p \in Prices, c \in Counts, t \in Types}

IdArg(id) == CHOOSE o \in Orders : o.id = id

Pcs == {"Idle", "AddIdx", "RemFind", "RemSet", "RemIdx", "ChgAdd", "ShowB", "ShowA"}

VARIABLES
    order_book,   \* side -> the elements of bids_/asks_.order_book_
    index,        \* side -> (id -> element): orders_bids_, orders_asks_
    acc,          \* side -> id -> thread holding the index accessor
    sh_readers,   \* side -> threads holding sh_mutex_ shared in ShowTop10
    pc, arg, caller, probe,
    out,          \* the std::list<Order> top10 being filled
    out_b,        \* the bids list, kept while the asks are walked
    top           \* each thread's last ShowTop10 result

vars == <<order_book, index, acc, sh_readers, pc, arg, caller, probe, out, out_b, top>>

Other(side) == IF side = BUY THEN SELL ELSE BUY

NoList == [bids |-> <<>>, asks |-> <<>>]

NoArg == CHOOSE o \in Orders : TRUE

LiveIds(s) == {e.id : e \in order_book[s]}

\* Neither ranks ahead of the other: concurrent_set's notion of a duplicate.
Equivalent(s, a, b) == ~Ahead(s, a, b) /\ ~Ahead(s, b, a)

\* The element the comparator puts first.
First(S, s) == CHOOSE e \in S : \A p \in S \ {e} : Ahead(s, e, p)

Init ==
    /\ order_book = [s \in Types |-> {}]
    /\ index = [s \in Types |-> <<>>]
    /\ acc = [s \in Types |-> [id \in Ids |-> NoThread]]
    /\ sh_readers = [s \in Types |-> {}]
    /\ pc = [t \in Threads |-> "Idle"]
    /\ arg = [t \in Threads |-> NoArg]
    /\ caller = [t \in Threads |-> "Remove"]
    /\ probe = [t \in Threads |-> BUY]
    /\ out = [t \in Threads |-> <<>>]
    /\ out_b = [t \in Threads |-> <<>>]
    /\ top = [t \in Threads |-> NoList]

Finish(t) ==
    /\ pc' = [pc EXCEPT ![t] = "Idle"]
    /\ arg' = [arg EXCEPT ![t] = NoArg]
    /\ caller' = [caller EXCEPT ![t] = "Remove"]
    /\ probe' = [probe EXCEPT ![t] = BUY]

Return(t) ==
    IF caller[t] = "Change"
    THEN /\ pc' = [pc EXCEPT ![t] = "ChgAdd"]
         /\ UNCHANGED <<arg, caller, probe>>
    ELSE Finish(t)

\* res = bids_.Add(order): insert into the set under the shared lock.  On
\* a duplicate the call returns false; otherwise the index insert follows.
AddSet(t, o) ==
    LET s == o.type IN
    /\ IF \E e \in order_book[s] : Equivalent(s, e, o)
       THEN /\ Finish(t)
            /\ UNCHANGED order_book
       ELSE /\ order_book' = [order_book EXCEPT ![s] = @ \cup {o}]
            /\ pc' = [pc EXCEPT ![t] = "AddIdx"]
            /\ arg' = [arg EXCEPT ![t] = o]
            /\ UNCHANGED <<caller, probe>>
    /\ UNCHANGED <<index, acc, sh_readers, out, out_b, top>>

\* What a caller may Add (see the header); a discipline of the callers,
\* not a guard of the code, so Next applies it and Add does not.
CallerMayAdd(t, o) ==
    /\ o.id \in Owns[t]
    /\ o.id \notin LiveIds(Other(o.type))
    /\ DupFields \/ \A e \in order_book[o.type] : e.id = o.id => e = o

Add(t, o) == pc[t] = "Idle" /\ AddSet(t, o)

\* Variant: the index insert after the set insert is left out.
AddIdxSkip(t) ==
    /\ pc[t] = "AddIdx"
    /\ Finish(t)
    /\ UNCHANGED <<order_book, index, acc, sh_readers, out, out_b, top>>

\* success = orders_bids_.insert({id, res.first}): false, and nothing
\* changes, when the id is indexed already.  The set insert is not undone.
AddIdx(t) ==
    LET o == arg[t]  s == o.type IN
    /\ pc[t] = "AddIdx"
    /\ index' = [index EXCEPT ![s] =
                    IF o.id \in DOMAIN @ THEN @ ELSE @ @@ (o.id :> o)]
    /\ Finish(t)
    /\ UNCHANGED <<order_book, acc, sh_readers, out, out_b, top>>

Call(t, o, c) ==
    /\ pc[t] = "Idle" /\ o.id \in Owns[t]
    /\ pc' = [pc EXCEPT ![t] = "RemFind"]
    /\ arg' = [arg EXCEPT ![t] = o]
    /\ caller' = [caller EXCEPT ![t] = c]
    /\ probe' = [probe EXCEPT ![t] = BUY]
    /\ UNCHANGED <<order_book, index, acc, sh_readers, out, out_b, top>>

\* orders_bids_.find(b, id) hits once no other accessor holds the entry.
RemFindHit(t) ==
    LET s == probe[t]  id == arg[t].id IN
    /\ pc[t] = "RemFind"
    /\ id \in DOMAIN index[s]
    /\ acc[s][id] = NoThread
    /\ acc' = [acc EXCEPT ![s][id] = t]
    /\ pc' = [pc EXCEPT ![t] = "RemSet"]
    /\ UNCHANGED <<order_book, index, sh_readers, arg, caller, probe, out, out_b, top>>

\* Variant: a miss in the bids index returns without probing the asks.
RemFindMissBidsOnly(t) ==
    LET s == probe[t]  id == arg[t].id IN
    /\ pc[t] = "RemFind"
    /\ id \notin DOMAIN index[s]
    /\ Return(t)
    /\ UNCHANGED <<order_book, index, acc, sh_readers, out, out_b, top>>

\* find misses: after the bids index probe the asks index; after that
\* Remove returns.
RemFindMiss(t) ==
    LET s == probe[t]  id == arg[t].id IN
    /\ pc[t] = "RemFind"
    /\ id \notin DOMAIN index[s]
    /\ IF s = BUY
       THEN /\ probe' = [probe EXCEPT ![t] = SELL]
            /\ UNCHANGED <<pc, arg, caller>>
       ELSE Return(t)
    /\ UNCHANGED <<order_book, index, acc, sh_readers, out, out_b, top>>

\* bids_.Remove(b->second): lock_guard on sh_mutex_, which waits for every
\* ShowTop10 walk of that side, then unsafe_erase of the indexed element.
RemSet(t) ==
    LET s == probe[t]  id == arg[t].id IN
    /\ pc[t] = "RemSet"
    /\ sh_readers[s] = {}
    /\ order_book' = [order_book EXCEPT ![s] = @ \ {index[s][id]}]
    /\ pc' = [pc EXCEPT ![t] = "RemIdx"]
    /\ UNCHANGED <<index, acc, sh_readers, arg, caller, probe, out, out_b, top>>

\* Variant: releases the accessor without erasing the index entry.
RemIdxKeepEntry(t) ==
    LET s == probe[t]  id == arg[t].id IN
    /\ pc[t] = "RemIdx"
    /\ acc' = [acc EXCEPT ![s][id] = NoThread]
    /\ Return(t)
    /\ UNCHANGED <<order_book, index, sh_readers, out, out_b, top>>

\* orders_bids_.erase(b): the entry goes and the accessor with it.
RemIdx(t) ==
    LET s == probe[t]  id == arg[t].id IN
    /\ pc[t] = "RemIdx"
    /\ index' = [index EXCEPT ![s] = Restrict(@, DOMAIN @ \ {id})]
    /\ acc' = [acc EXCEPT ![s][id] = NoThread]
    /\ Return(t)
    /\ UNCHANGED <<order_book, sh_readers, out, out_b, top>>

\* Change: return Add(std::move(order)).
ChgAdd(t) == pc[t] = "ChgAdd" /\ AddSet(t, arg[t])

\* bids_.ShowTop10(): std::shared_lock on the bids' sh_mutex_.
ShowBegin(t) ==
    /\ pc[t] = "Idle"
    /\ sh_readers' = [sh_readers EXCEPT ![BUY] = @ \cup {t}]
    /\ pc' = [pc EXCEPT ![t] = "ShowB"]
    /\ UNCHANGED <<order_book, index, acc, arg, caller, probe, out, out_b, top>>

ShowSide(t) == IF pc[t] = "ShowB" THEN BUY ELSE SELL

\* The elements ++It can still reach: those behind the last one read.
Unread(t) ==
    LET s == ShowSide(t) IN
    {e \in order_book[ShowSide(t)] : out[t] = <<>> \/ Ahead(s, Last(out[t]), e)}

\* Variant: the loop bound is off by one (counter <= 10).
ShowNextOffByOne(t) ==
    /\ pc[t] \in {"ShowB", "ShowA"}
    /\ Unread(t) # {}
    /\ Len(out[t]) < K
    /\ out' = [out EXCEPT ![t] = Append(@, First(Unread(t), ShowSide(t)))]
    /\ UNCHANGED <<order_book, index, acc, sh_readers, pc, arg, caller, probe, out_b, top>>

\* top10.push_back(*It) with fewer than 10 read, and the loop goes on.
ShowNext(t) ==
    /\ pc[t] \in {"ShowB", "ShowA"}
    /\ Unread(t) # {}
    /\ Len(out[t]) + 1 < K
    /\ out' = [out EXCEPT ![t] = Append(@, First(Unread(t), ShowSide(t)))]
    /\ UNCHANGED <<order_book, index, acc, sh_readers, pc, arg, caller, probe, out_b, top>>

\* Variant: the loop stops at the 10th element without its push_back.
ShowDoneDropLast(t) ==
    LET s == ShowSide(t)
        res == out[t] IN
    /\ pc[t] \in {"ShowB", "ShowA"}
    /\ Unread(t) = {} \/ Len(out[t]) + 1 = K
    /\ out' = [out EXCEPT ![t] = <<>>]
    /\ IF s = BUY
       THEN /\ sh_readers' = [sh_readers EXCEPT ![BUY] = @ \ {t}, ![SELL] = @ \cup {t}]
            /\ out_b' = [out_b EXCEPT ![t] = res]
            /\ pc' = [pc EXCEPT ![t] = "ShowA"]
            /\ UNCHANGED top
       ELSE /\ sh_readers' = [sh_readers EXCEPT ![SELL] = @ \ {t}]
            /\ top' = [top EXCEPT ![t] = [bids |-> out_b[t], asks |-> res]]
            /\ out_b' = [out_b EXCEPT ![t] = <<>>]
            /\ pc' = [pc EXCEPT ![t] = "Idle"]
    /\ UNCHANGED <<order_book, index, acc, arg, caller, probe>>

\* The loop ends, at It == end() or after the 10th push_back, and the lock
\* is released: the bids list is kept and asks_.ShowTop10() starts, or the
\* asks list is done and both are returned.
ShowDone(t) ==
    LET s == ShowSide(t)
        res == IF Unread(t) = {} THEN out[t]
               ELSE Append(out[t], First(Unread(t), s)) IN
    /\ pc[t] \in {"ShowB", "ShowA"}
    /\ Unread(t) = {} \/ Len(out[t]) + 1 = K
    /\ out' = [out EXCEPT ![t] = <<>>]
    /\ IF s = BUY
       THEN /\ sh_readers' = [sh_readers EXCEPT ![BUY] = @ \ {t}, ![SELL] = @ \cup {t}]
            /\ out_b' = [out_b EXCEPT ![t] = res]
            /\ pc' = [pc EXCEPT ![t] = "ShowA"]
            /\ UNCHANGED top
       ELSE /\ sh_readers' = [sh_readers EXCEPT ![SELL] = @ \ {t}]
            /\ top' = [top EXCEPT ![t] = [bids |-> out_b[t], asks |-> res]]
            /\ out_b' = [out_b EXCEPT ![t] = <<>>]
            /\ pc' = [pc EXCEPT ![t] = "Idle"]
    /\ UNCHANGED <<order_book, index, acc, arg, caller, probe>>

Steps(t) ==
    \/ AddIdx(t) \/ RemFindHit(t) \/ RemFindMiss(t) \/ RemSet(t) \/ RemIdx(t)
    \/ ChgAdd(t) \/ ShowNext(t) \/ ShowDone(t)

Next ==
    \E t \in Threads :
        \/ \E o \in Orders : (CallerMayAdd(t, o) /\ Add(t, o)) \/ Call(t, o, "Change")
        \/ \E id \in Ids : Call(t, IdArg(id), "Remove")
        \/ ShowBegin(t)
        \/ Steps(t)

\* As in Strategy A: a started call's steps are taken while they stay
\* enabled; nothing obliges a thread to call again.
Fairness == \A t \in Threads : WF_vars(Steps(t))

Spec == Init /\ [][Next]_vars /\ Fairness

\* A stronger scheduler than the code can rely on: a Remove waiting for
\* sh_mutex_ gets it whenever it is free infinitely often.
SpecStrongErase == Spec /\ \A t \in Threads : SF_vars(RemSet(t))

----------------------------------------------------------------------------
TypeOK ==
    /\ order_book \in [Types -> SUBSET Orders]
    /\ \A s \in Types : \A e \in order_book[s] : e.type = s
    /\ index \in [Types -> UNION {[D -> Orders] : D \in SUBSET Ids}]
    /\ acc \in [Types -> [Ids -> Threads \cup {NoThread}]]
    /\ sh_readers \in [Types -> SUBSET Threads]
    /\ pc \in [Threads -> Pcs]
    /\ arg \in [Threads -> Orders]
    /\ caller \in [Threads -> {"Remove", "Change"}]
    /\ probe \in [Threads -> Types]
    /\ \A t \in Threads : Len(out[t]) < K

Quiescent == \A t \in Threads : pc[t] = "Idle"

\* No dangling iterator (spec.md 4.4): an index entry refers to an element
\* of its side's set under its own id, except inside the Remove that has
\* just erased that element and holds the entry's accessor.
IndexSound ==
    \A s \in Types : \A id \in DOMAIN index[s] :
        \/ index[s][id] \in order_book[s] /\ index[s][id].id = id
        \/ \E t \in Threads : pc[t] = "RemIdx" /\ probe[t] = s /\ arg[t].id = id

\* When no call runs, every element of a set is the one its id indexes:
\* Add's set insert and index insert, and Remove's erase of both, leave
\* no order in a set that Remove(id) could not reach.
SetIndexed ==
    Quiescent =>
        \A s \in Types : \A e \in order_book[s] :
            e.id \in DOMAIN index[s] /\ index[s][e.id] = e


\* Every Remove and Change that has started returns.
OpsComplete == \A t \in Threads : pc[t] # "Idle" ~> pc[t] = "Idle"

(***************************************************************************)
(* Refinement mapping to AbstractBook for Add, Remove and Change.  The     *)
(* book is the contents of the sets; Add takes effect at the set insert,   *)
(* Remove at the unsafe_erase, the index steps stutter.  A ShowTop10 walk  *)
(* reads a side's elements at several instants (MC_HashSetBookSnap), so   *)
(* the mapping hides it: its steps stutter and its result is left out.    *)
(***************************************************************************)
BookOf(s) == [id \in LiveIds(s) |-> CHOOSE e \in order_book[s] : e.id = id]

AbsPc == [t \in Threads |->
            CASE pc[t] \in {"RemFind", "RemSet"}  -> "Remove"
              [] pc[t] = "ChgAdd" \/ (pc[t] = "RemIdx" /\ caller[t] = "Change") -> "ChgAdd"
              [] OTHER -> "Idle"]

AbsArg == [t \in Threads |-> IF AbsPc[t] \in {"Remove", "ChgAdd"} THEN arg[t] ELSE NoArg]

AbsCaller == [t \in Threads |-> IF AbsPc[t] \in {"Remove", "ChgAdd"} THEN caller[t]
                                ELSE "Remove"]

Abs == INSTANCE AbstractBook WITH book <- [s \in Types |-> BookOf(s)],
                                  pc <- AbsPc, arg <- AbsArg, caller <- AbsCaller,
                                  shownBids <- [t \in Threads |-> <<>>],
                                  top <- [t \in Threads |-> NoList]

\* Strategy B's Add, Remove and Change implement the book contract: each
\* takes effect at one step, with one thread per id.
MutationsImplementAbstractBook == Abs!Spec

=============================================================================
