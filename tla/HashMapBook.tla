---------------------------- MODULE HashMapBook ----------------------------
(***************************************************************************)
(* Strategy A, ConcurrentOrderBook_HashMap (.h in src/include, .cpp in     *)
(* src/src): one tbb::concurrent_hash_map from id to Order                 *)
(* per side, storage[BUY] = bids_ and storage[SELL] = asks_, each beside a  *)
(* std::shared_mutex.                                                      *)
(*                                                                         *)
(* Granularity.  Add's insert and Remove's erase run under the side's     *)
(* shared lock, ShowTop10's copy of a side under its exclusive lock, so    *)
(* each is one atomic step and the mutex needs no variable of its own.     *)
(* Remove's accessor, the per-entry write lock taken by find(a, id) and     *)
(* held until erase(a), spans steps: acc[side][id] is its holder.          *)
(* Callers: thread t calls Add, Remove, Change and ShowTop10 for the ids   *)
(* in Owns[t], and Adds an id only when it is not live on the other side  *)
(* (the uniqueness of live ids that spec.md section 3 puts on callers).    *)
(***************************************************************************)
EXTENDS TopK, Functions

CONSTANTS Threads, Ids, Prices, Counts, Owns, NoThread

ASSUME NoThread \notin Threads
ASSUME Owns \in [Threads -> SUBSET Ids]

Orders == {Order(id, p, c, t) : id \in Ids, p \in Prices, c \in Counts, t \in Types}

\* Remove(uint64_t id) carries only an id: one order stands for each id.
IdArg(id) == CHOOSE o \in Orders : o.id = id

Pcs == {"Idle", "RemFind", "RemErase", "ChgAdd", "ShowAsks"}

VARIABLES
    storage,    \* bids_, asks_: side -> (id -> Order)
    acc,        \* side -> id -> thread holding the accessor on that entry
    pc,         \* where each thread is in its current call
    arg,        \* the Order of Change, or IdArg(id) of Remove
    caller,     \* "Remove" or "Change": where the Remove returns to
    probe,      \* the side Remove is probing: bids_ first, then asks_
    copy_b,     \* ShowTop10's copy of the bids, kept across the asks copy
    top         \* each thread's last ShowTop10 result

vars == <<storage, acc, pc, arg, caller, probe, copy_b, top>>

Other(side) == IF side = BUY THEN SELL ELSE BUY

NoList == [bids |-> <<>>, asks |-> <<>>]

\* The locals of a thread between calls (they are dead there).
NoArg == CHOOSE o \in Orders : TRUE

Init ==
    /\ storage = [s \in Types |-> <<>>]
    /\ acc = [s \in Types |-> [id \in Ids |-> NoThread]]
    /\ pc = [t \in Threads |-> "Idle"]
    /\ arg = [t \in Threads |-> NoArg]
    /\ caller = [t \in Threads |-> "Remove"]
    /\ probe = [t \in Threads |-> BUY]
    /\ copy_b = [t \in Threads |-> {}]
    /\ top = [t \in Threads |-> NoList]

\* Variant: inserts into bids_ whatever the order's type.
InsertBidsOnly(o) ==
    storage' = [storage EXCEPT ![BUY] =
                   IF o.id \in DOMAIN @ THEN @ ELSE @ @@ (o.id :> o)]

\* success = bids_.insert({id, order}) (or asks_) under the shared lock:
\* false, and nothing changes, when the id is on that side already.
Insert(o) ==
    storage' = [storage EXCEPT ![o.type] =
                   IF o.id \in DOMAIN @ THEN @ ELSE @ @@ (o.id :> o)]

\* What a caller may Add (see the header); a discipline of the callers,
\* not a guard of the code, so Next applies it and Add does not.
CallerMayAdd(t, o) ==
    o.id \in Owns[t] /\ o.id \notin DOMAIN storage[Other(o.type)]

Add(t, o) ==
    /\ pc[t] = "Idle"
    /\ Insert(o)
    /\ UNCHANGED <<acc, pc, arg, caller, probe, copy_b, top>>

\* Remove(id) and Change(order) are called; Change starts with Remove.
Call(t, o, c) ==
    /\ pc[t] = "Idle" /\ o.id \in Owns[t]
    /\ pc' = [pc EXCEPT ![t] = "RemFind"]
    /\ arg' = [arg EXCEPT ![t] = o]
    /\ caller' = [caller EXCEPT ![t] = c]
    /\ probe' = [probe EXCEPT ![t] = BUY]
    /\ UNCHANGED <<storage, acc, copy_b, top>>

\* The call returns to its caller.
Finish(t) ==
    /\ pc' = [pc EXCEPT ![t] = "Idle"]
    /\ arg' = [arg EXCEPT ![t] = NoArg]
    /\ caller' = [caller EXCEPT ![t] = "Remove"]
    /\ probe' = [probe EXCEPT ![t] = BUY]

\* Remove returns: to Change's Add, or to the caller.
Return(t) ==
    IF caller[t] = "Change"
    THEN /\ pc' = [pc EXCEPT ![t] = "ChgAdd"]
         /\ UNCHANGED <<arg, caller, probe>>
    ELSE Finish(t)

\* find(a, id) finds the entry once no other accessor holds it, and locks it.
RemFindHit(t) ==
    LET s == probe[t]  id == arg[t].id IN
    /\ pc[t] = "RemFind"
    /\ id \in DOMAIN storage[s]
    /\ acc[s][id] = NoThread
    /\ acc' = [acc EXCEPT ![s][id] = t]
    /\ pc' = [pc EXCEPT ![t] = "RemErase"]
    /\ UNCHANGED <<storage, arg, caller, probe, copy_b, top>>

\* Variant: a miss in bids_ returns without probing asks_.
RemFindMissBidsOnly(t) ==
    LET s == probe[t]  id == arg[t].id IN
    /\ pc[t] = "RemFind"
    /\ id \notin DOMAIN storage[s]
    /\ Return(t)
    /\ UNCHANGED <<storage, acc, copy_b, top>>

\* find(a, id) misses: after bids_, a.release() and probe asks_; after
\* asks_, return false.
RemFindMiss(t) ==
    LET s == probe[t]  id == arg[t].id IN
    /\ pc[t] = "RemFind"
    /\ id \notin DOMAIN storage[s]
    /\ IF s = BUY
       THEN /\ probe' = [probe EXCEPT ![t] = SELL]
            /\ UNCHANGED <<pc, arg, caller>>
       ELSE Return(t)
    /\ UNCHANGED <<storage, acc, copy_b, top>>

\* shared_lock on the side, return bids_.erase(a): the entry goes and the
\* accessor is released with it.
RemErase(t) ==
    LET s == probe[t]  id == arg[t].id IN
    /\ pc[t] = "RemErase"
    /\ storage' = [storage EXCEPT ![s] = Restrict(@, DOMAIN @ \ {id})]
    /\ acc' = [acc EXCEPT ![s][id] = NoThread]
    /\ Return(t)
    /\ UNCHANGED <<copy_b, top>>

\* Change: return Add(std::move(order)).
ChgAdd(t) ==
    /\ pc[t] = "ChgAdd"
    /\ Insert(arg[t])
    /\ Finish(t)
    /\ UNCHANGED <<acc, copy_b, top>>

\* ShowTop10: lock_guard on sh_mutex_b, copy every bid into copy_b.
ShowCopyBids(t) ==
    /\ pc[t] = "Idle"
    /\ copy_b' = [copy_b EXCEPT ![t] = Range(storage[BUY])]
    /\ pc' = [pc EXCEPT ![t] = "ShowAsks"]
    /\ UNCHANGED <<storage, acc, arg, caller, probe, top>>

\* Variant: ranks the bids as they are now instead of the copy_b taken
\* under sh_mutex_b.
ShowCopyAsksRereadBids(t) ==
    /\ pc[t] = "ShowAsks"
    /\ top' = [top EXCEPT ![t] =
                 [bids |-> FindTop10(SetToSeq(Range(storage[BUY])), BUY),
                  asks |-> FindTop10(SetToSeq(Range(storage[SELL])), SELL)]]
    /\ copy_b' = [copy_b EXCEPT ![t] = {}]
    /\ pc' = [pc EXCEPT ![t] = "Idle"]
    /\ UNCHANGED <<storage, acc, arg, caller, probe>>

\* lock_guard on sh_mutex_a, copy the asks, then FindTop10 on both copies.
ShowCopyAsks(t) ==
    /\ pc[t] = "ShowAsks"
    /\ top' = [top EXCEPT ![t] =
                 [bids |-> FindTop10(SetToSeq(copy_b[t]), BUY),
                  asks |-> FindTop10(SetToSeq(Range(storage[SELL])), SELL)]]
    /\ copy_b' = [copy_b EXCEPT ![t] = {}]
    /\ pc' = [pc EXCEPT ![t] = "Idle"]
    /\ UNCHANGED <<storage, acc, arg, caller, probe>>

\* The steps of a call in progress, as opposed to the calls themselves.
Steps(t) ==
    RemFindHit(t) \/ RemFindMiss(t) \/ RemErase(t) \/ ChgAdd(t) \/ ShowCopyAsks(t)

Next ==
    \E t \in Threads :
        \/ \E o \in Orders : (CallerMayAdd(t, o) /\ Add(t, o)) \/ Call(t, o, "Change")
        \/ \E id \in Ids : Call(t, IdArg(id), "Remove")
        \/ ShowCopyBids(t)
        \/ Steps(t)

\* Threads are OS threads that never block except on the accessor: once a
\* call has started each of its steps is eventually taken when it stays
\* possible.  Nothing obliges a thread to make another call.
Fairness == \A t \in Threads : WF_vars(Steps(t))

Spec == Init /\ [][Next]_vars /\ Fairness

----------------------------------------------------------------------------
TypeOK ==
    /\ storage \in [Types -> UNION {[D -> Orders] : D \in SUBSET Ids}]
    /\ \A s \in Types : \A id \in DOMAIN storage[s] :
           storage[s][id].id = id /\ storage[s][id].type = s
    /\ acc \in [Types -> [Ids -> Threads \cup {NoThread}]]
    /\ pc \in [Threads -> Pcs]
    /\ arg \in [Threads -> Orders]
    /\ caller \in [Threads -> {"Remove", "Change"}]
    /\ probe \in [Threads -> Types]
    /\ copy_b \in [Threads -> SUBSET Orders]

Quiescent == \A t \in Threads : pc[t] = "Idle"

\* Whenever no call is in progress, no id is live as both a bid and an ask
\* (spec.md section 3): Remove's probe of bids_ then asks_, followed by
\* Change's Add, never leaves an order behind on the side it left.
QuiescentOneSide ==
    Quiescent => DOMAIN storage[BUY] \cap DOMAIN storage[SELL] = {}

\* The refinement mapping to AbstractBook: Remove's find and erase steps
\* are one abstract Remove, and FindTop10 of the bids copy is the abstract
\* best K of the bids at the copy.
AbsPc == [t \in Threads |-> IF pc[t] \in {"RemFind", "RemErase"} THEN "Remove"
                            ELSE pc[t]]

AbsShownBids == [t \in Threads |-> IF pc[t] = "ShowAsks"
                                  THEN FindTop10(SetToSeq(copy_b[t]), BUY)
                                  ELSE <<>>]

Abs == INSTANCE AbstractBook WITH book <- storage, pc <- AbsPc,
                                  shownBids <- AbsShownBids

\* Strategy A implements the book contract: each Remove takes effect at one
\* step, and ShowTop10 returns the oracle's best K of each side as it was
\* when that side was copied.
ImplementsAbstractBook == Abs!Spec

=============================================================================
