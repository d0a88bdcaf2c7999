----------------------------- MODULE VectorBook -----------------------------
(***************************************************************************)
(* Strategy C, ConcurrentOrderBook_VectorFixSize (src/src/dobyte.cpp): per *)
(* side a tbb::concurrent_vector<Order> of Capacity slots, slot i holding  *)
(* the order with id i or an order with id 0 (empty), and map_, a          *)
(* concurrent_hash_map from id to side.  No mutex: ShowTop10 reads the     *)
(* slots while Add and Remove write them.                                  *)
(*                                                                         *)
(* Granularity.  Each hash-map call is one step.  Add's slot store        *)
(* bids_[id] = std::move(order) is a member-wise copy of a non-atomic      *)
(* Order: it starts (AddSlot) and completes (AddStore) in two steps, and a *)
(* scan reading the slot in between reads each field old or new (the data *)
(* race's outcomes).  Remove's store of the id field is one step.  The     *)
(* ShowTop10 scan reads a slot's id (the check) and then the whole slot    *)
(* (the copy) in two steps, as the loop does.  A slot index outside        *)
(* 0..Capacity-1 is written past size(): the scan, which stops at end(),  *)
(* never sees it (the modelled outcome of that undefined write).           *)
(* Callers: as in HashSetBook (Owns, DupFields).                           *)
(***************************************************************************)
EXTENDS TopK, Functions

CONSTANTS Threads, Ids, Prices, Counts, Owns, NoThread, DupFields, Capacity,
          Readers     \* the threads that call ShowTop10

ASSUME NoThread \notin Threads
ASSUME Owns \in [Threads -> SUBSET Ids]
ASSUME DupFields \in BOOLEAN
ASSUME Readers \subseteq Threads
ASSUME Capacity \in Nat /\ Ids \subseteq Nat \ {0}

Orders == {Order(id, p, c, t) : id \in Ids, p \in Prices, c \in Counts, t \in Types}

IdArg(id) == CHOOSE o \in Orders : o.id = id

\* The vector's indices, 0 .. size() - 1.
Slots == 0 .. Capacity - 1

\* Order(): id 0; its other fields are never read while the id is 0.
EmptyOrder(s) == Order(0, CHOOSE p \in Prices : TRUE, CHOOSE c \in Counts : TRUE, s)

SlotValues(s) == {EmptyOrder(s)} \cup
                 {Order(id, p, c, s) : id \in Ids \cup {0}, p \in Prices, c \in Counts}

Pcs == {"Idle", "AddSlot", "AddStore", "RemFind", "RemClear", "RemErase", "ChgAdd",
        "ChkB", "CpyB", "ChkA", "CpyA"}

VARIABLES
    slots,      \* side -> slot -> Order: bids_, asks_
    map,        \* id -> side: map_
    acc,        \* id -> thread holding map_'s accessor on that entry
    pc, arg, caller,
    pos,        \* the scan's iterator, as a slot index
    copy,       \* the vector being copied, copy_b then copy_a
    copy_b,     \* the bids copy, kept while the asks are scanned
    top

vars == <<slots, map, acc, pc, arg, caller, pos, copy, copy_b, top>>

Other(side) == IF side = BUY THEN SELL ELSE BUY

NoList == [bids |-> <<>>, asks |-> <<>>]

NoArg == CHOOSE o \in Orders : TRUE

LiveSlots(s) == {i \in Slots : slots[s][i].id # 0}

LiveOrders(s) == {slots[s][i] : i \in LiveSlots(s)}

Init ==
    /\ slots = [s \in Types |-> [i \in Slots |-> EmptyOrder(s)]]
    /\ map = <<>>
    /\ acc = [id \in Ids |-> NoThread]
    /\ pc = [t \in Threads |-> "Idle"]
    /\ arg = [t \in Threads |-> NoArg]
    /\ caller = [t \in Threads |-> "Remove"]
    /\ pos = [t \in Threads |-> 0]
    /\ copy = [t \in Threads |-> <<>>]
    /\ copy_b = [t \in Threads |-> <<>>]
    /\ top = [t \in Threads |-> NoList]

Finish(t) ==
    /\ pc' = [pc EXCEPT ![t] = "Idle"]
    /\ arg' = [arg EXCEPT ![t] = NoArg]
    /\ caller' = [caller EXCEPT ![t] = "Remove"]

\* Variant: Change returns after its Remove without adding the order.
ReturnSkipAdd(t) == Finish(t)

\* Remove returns: to Change's Add, or to the caller.
Return(t) ==
    IF caller[t] = "Change"
    THEN pc' = [pc EXCEPT ![t] = "ChgAdd"] /\ UNCHANGED <<arg, caller>>
    ELSE Finish(t)

CallerMayAdd(t, o) ==
    /\ o.id \in Owns[t]
    /\ o.id \notin {slots[Other(o.type)][i].id : i \in Slots}
    /\ DupFields \/ \A i \in LiveSlots(o.type) : i = o.id => slots[o.type][i] = o

\* Variant: the id is never entered in the map.
MapInsertSkip(o) == map' = map

\* map_.insert({id, order.type_}): a no-op, whose result Add ignores,
\* when the id is mapped already.
MapInsert(o) == map' = IF o.id \in DOMAIN map THEN map ELSE map @@ (o.id :> o.type)

Add(t, o) ==
    /\ pc[t] = "Idle"
    /\ MapInsert(o)
    /\ pc' = [pc EXCEPT ![t] = "AddSlot"]
    /\ arg' = [arg EXCEPT ![t] = o]
    /\ caller' = [caller EXCEPT ![t] = "Add"]
    /\ UNCHANGED <<slots, acc, pos, copy, copy_b, top>>

\* Change: Add(std::move(order)) after the Remove.
ChgAdd(t) ==
    /\ pc[t] = "ChgAdd"
    /\ MapInsert(arg[t])
    /\ pc' = [pc EXCEPT ![t] = "AddSlot"]
    /\ UNCHANGED <<slots, acc, arg, caller, pos, copy, copy_b, top>>

\* bids_[id] = std::move(order) (or asks_), whatever map_.insert returned:
\* the store starts.
AddSlot(t) ==
    /\ pc[t] = "AddSlot"
    /\ pc' = [pc EXCEPT ![t] = "AddStore"]
    /\ UNCHANGED <<slots, map, acc, arg, caller, pos, copy, copy_b, top>>

\* Variant: ids are stored one slot lower, as if they were 1-based.
AddStoreShifted(t) ==
    LET o == arg[t] IN
    /\ pc[t] = "AddStore"
    /\ slots' = IF o.id - 1 \in Slots THEN [slots EXCEPT ![o.type][o.id - 1] = o] ELSE slots
    /\ Finish(t)
    /\ UNCHANGED <<map, acc, pos, copy, copy_b, top>>

\* The store completes; no bounds check.
AddStore(t) ==
    LET o == arg[t] IN
    /\ pc[t] = "AddStore"
    /\ slots' = IF o.id \in Slots THEN [slots EXCEPT ![o.type][o.id] = o] ELSE slots
    /\ Finish(t)
    /\ UNCHANGED <<map, acc, pos, copy, copy_b, top>>

\* The orders a read of slot i of side s can return: the slot, or, while
\* Adds' stores into it are under way, each field from any of the values.
ReadSlot(s, i) ==
    LET V == {slots[s][i]} \cup
             {arg[u] : u \in {u \in Threads : pc[u] = "AddStore" /\ arg[u].type = s
                                              /\ arg[u].id = i}}
    IN  {Order(a.id, b.price, c.count, s) : a, b, c \in V}

Call(t, o, c) ==
    /\ pc[t] = "Idle" /\ o.id \in Owns[t]
    /\ pc' = [pc EXCEPT ![t] = "RemFind"]
    /\ arg' = [arg EXCEPT ![t] = o]
    /\ caller' = [caller EXCEPT ![t] = c]
    /\ UNCHANGED <<slots, map, acc, pos, copy, copy_b, top>>

\* map_.find(a, id) hits once no other accessor holds the entry.
RemFindHit(t) ==
    LET id == arg[t].id IN
    /\ pc[t] = "RemFind"
    /\ id \in DOMAIN map /\ acc[id] = NoThread
    /\ acc' = [acc EXCEPT ![id] = t]
    /\ pc' = [pc EXCEPT ![t] = "RemClear"]
    /\ UNCHANGED <<slots, map, arg, caller, pos, copy, copy_b, top>>

\* if(!map_.find(a, id)) return;
RemFindMiss(t) ==
    /\ pc[t] = "RemFind"
    /\ arg[t].id \notin DOMAIN map
    /\ Return(t)
    /\ UNCHANGED <<slots, map, acc, pos, copy, copy_b, top>>

\* bids_[id_s].id_.val_ = 0 on the side a->second names (or asks_).
RemClear(t) ==
    LET id == arg[t].id IN
    /\ pc[t] = "RemClear"
    /\ slots' = IF id \in Slots THEN [slots EXCEPT ![map[id]][id].id = 0] ELSE slots
    /\ pc' = [pc EXCEPT ![t] = "RemErase"]
    /\ UNCHANGED <<map, acc, arg, caller, pos, copy, copy_b, top>>

\* map_.erase(a): the entry goes and the accessor is released.
RemErase(t) ==
    /\ pc[t] = "RemErase"
    /\ map' = Restrict(map, DOMAIN map \ {arg[t].id})
    /\ acc' = [acc EXCEPT ![arg[t].id] = NoThread]
    /\ Return(t)
    /\ UNCHANGED <<slots, pos, copy, copy_b, top>>

\* The side a scanning thread is reading.
ScanSide(t) == IF pc[t] \in {"ChkB", "CpyB"} THEN BUY ELSE SELL

\* ShowTop10 starts with the bids: It = bids_.begin().
ShowBegin(t) ==
    /\ pc[t] = "Idle" /\ t \in Readers
    /\ pc' = [pc EXCEPT ![t] = "ChkB"]
    /\ pos' = [pos EXCEPT ![t] = 0]
    /\ copy' = [copy EXCEPT ![t] = <<>>]
    /\ UNCHANGED <<slots, map, acc, arg, caller, copy_b, top>>

\* if(It->id_.val_ != 0): a live-looking slot is copied in the next step,
\* an empty one is passed over.
ScanCheck(t) ==
    LET s == ScanSide(t)  i == pos[t] IN
    /\ pc[t] \in {"ChkB", "ChkA"}
    /\ i < Capacity
    /\ \E v \in ReadSlot(s, i) :
         IF v.id # 0
         THEN pc' = [pc EXCEPT ![t] = IF s = BUY THEN "CpyB" ELSE "CpyA"]
              /\ UNCHANGED pos
         ELSE pos' = [pos EXCEPT ![t] = i + 1] /\ UNCHANGED pc
    /\ UNCHANGED <<slots, map, acc, arg, caller, copy, copy_b, top>>

\* copy_b.push_back(*It), reading the slot again, then ++It.
ScanCopy(t) ==
    LET s == ScanSide(t)  i == pos[t] IN
    /\ pc[t] \in {"CpyB", "CpyA"}
    /\ \E v \in ReadSlot(s, i) : copy' = [copy EXCEPT ![t] = Append(@, v)]
    /\ pos' = [pos EXCEPT ![t] = i + 1]
    /\ pc' = [pc EXCEPT ![t] = IF s = BUY THEN "ChkB" ELSE "ChkA"]
    /\ UNCHANGED <<slots, map, acc, arg, caller, copy_b, top>>

\* Variant: the asks are appended to the bids copy instead of a fresh one.
ScanEndSharedCopy(t) ==
    /\ pc[t] \in {"ChkB", "ChkA"}
    /\ pos[t] = Capacity
    /\ IF pc[t] = "ChkB"
       THEN /\ copy_b' = [copy_b EXCEPT ![t] = copy[t]]
            /\ pc' = [pc EXCEPT ![t] = "ChkA"]
            /\ pos' = [pos EXCEPT ![t] = 0]
            /\ UNCHANGED <<copy, top>>
       ELSE /\ top' = [top EXCEPT ![t] = [bids |-> FindTop10(copy_b[t], BUY),
                                          asks |-> FindTop10(copy[t], SELL)]]
            /\ copy' = [copy EXCEPT ![t] = <<>>]
            /\ copy_b' = [copy_b EXCEPT ![t] = <<>>]
            /\ pc' = [pc EXCEPT ![t] = "Idle"]
            /\ UNCHANGED pos
    /\ UNCHANGED <<slots, map, acc, arg, caller>>

\* It == end(): after the bids the asks are scanned into copy_a; after the
\* asks, FindTop10<greater> of copy_b and FindTop10<less> of copy_a.
ScanEnd(t) ==
    /\ pc[t] \in {"ChkB", "ChkA"}
    /\ pos[t] = Capacity
    /\ IF pc[t] = "ChkB"
       THEN /\ copy_b' = [copy_b EXCEPT ![t] = copy[t]]
            /\ copy' = [copy EXCEPT ![t] = <<>>]
            /\ pc' = [pc EXCEPT ![t] = "ChkA"]
            /\ pos' = [pos EXCEPT ![t] = 0]
            /\ UNCHANGED top
       ELSE /\ top' = [top EXCEPT ![t] = [bids |-> FindTop10(copy_b[t], BUY),
                                          asks |-> FindTop10(copy[t], SELL)]]
            /\ copy' = [copy EXCEPT ![t] = <<>>]
            /\ copy_b' = [copy_b EXCEPT ![t] = <<>>]
            /\ pc' = [pc EXCEPT ![t] = "Idle"]
            /\ pos' = [pos EXCEPT ![t] = 0]
    /\ UNCHANGED <<slots, map, acc, arg, caller>>

Steps(t) ==
    \/ AddSlot(t) \/ AddStore(t) \/ ChgAdd(t) \/ RemFindHit(t) \/ RemFindMiss(t) \/ RemClear(t)
    \/ RemErase(t) \/ ScanCheck(t) \/ ScanCopy(t) \/ ScanEnd(t)

Next ==
    \E t \in Threads :
        \/ \E o \in Orders : (CallerMayAdd(t, o) /\ Add(t, o)) \/ Call(t, o, "Change")
        \/ \E id \in Ids : Call(t, IdArg(id), "Remove")
        \/ ShowBegin(t)
        \/ Steps(t)

\* A started call's steps are taken while they stay enabled.
Fairness == \A t \in Threads : WF_vars(Steps(t))

Spec == Init /\ [][Next]_vars /\ Fairness

----------------------------------------------------------------------------
TypeOK ==
    /\ \A s \in Types : slots[s] \in [Slots -> SlotValues(s)]
    /\ \A s \in Types : \A i \in Slots : slots[s][i].id \in {0, i}
    /\ map \in UNION {[D -> Types] : D \in SUBSET Ids}
    /\ acc \in [Ids -> Threads \cup {NoThread}]
    /\ pc \in [Threads -> Pcs]
    /\ caller \in [Threads -> {"Add", "Remove", "Change"}]
    /\ pos \in [Threads -> 0 .. Capacity]

Quiescent == \A t \in Threads : pc[t] = "Idle"

\* When no call runs, map_ and the slots agree: an id is mapped exactly
\* when its slot on the mapped side is live, and no slot on the other side
\* holds it.  Remove(id) can then find every order ShowTop10 lists.
MapSlotsAgree ==
    Quiescent =>
        /\ \A s \in Types : \A i \in LiveSlots(s) : i \in DOMAIN map /\ map[i] = s
        /\ \A id \in DOMAIN map : id \in LiveSlots(map[id])

(***************************************************************************)
(* Refinement mapping to AbstractBook for Add, Remove and Change: the book *)
(* is the live slots; Add takes effect when its store completes, Remove   *)
(* at the clearing of the id.  ShowTop10 is not a snapshot (no lock), so  *)
(* the mapping hides it: its steps stutter and its result is left out.    *)
(***************************************************************************)
BookOf(s) == [i \in LiveSlots(s) |-> slots[s][i]]

AbsPc == [t \in Threads |->
            CASE pc[t] \in {"RemFind", "RemClear"} -> "Remove"
              [] pc[t] \in {"RemErase", "AddSlot", "AddStore"} /\ caller[t] = "Change" -> "ChgAdd"
              [] pc[t] = "ChgAdd" -> "ChgAdd"
              [] OTHER -> "Idle"]

AbsArg == [t \in Threads |-> IF AbsPc[t] \in {"Remove", "ChgAdd"} THEN arg[t] ELSE NoArg]

AbsCaller == [t \in Threads |-> IF AbsPc[t] \in {"Remove", "ChgAdd"} THEN caller[t]
                                ELSE "Remove"]

AbsBook == INSTANCE AbstractBook WITH book <- [s \in Types |-> BookOf(s)],
                                      pc <- AbsPc, arg <- AbsArg, caller <- AbsCaller,
                                      shownBids <- [t \in Threads |-> <<>>],
                                      top <- [t \in Threads |-> NoList]

\* Strategy C's Add, Remove and Change implement the book contract: each
\* takes effect at one step, with one thread per id.
MutationsImplementAbstractBook == AbsBook!Spec

====
