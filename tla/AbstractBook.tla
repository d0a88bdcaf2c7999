---------------------------- MODULE AbstractBook ----------------------------
(***************************************************************************)
(* What every book strategy promises its callers (spec.md sections 4-6):   *)
(* two id-keyed sides; Add inserts unless the id is on that side already  *)
(* (the other side is not checked, spec.md 4.3);                          *)
(* Remove takes effect at one instant and drops the id from the first side *)
(* holding it, bids before asks; Change is a Remove followed, in a later  *)
(* step, by an Add; ShowTop10 lists the best K of the bids as they are at *)
(* one instant and the best K of the asks as they are at a later one.     *)
(***************************************************************************)
EXTENDS TopK, Functions

CONSTANTS Threads, Ids, Orders, Owns

\* The Idle thread's calls; the states between the steps of a call.
AbsPcs == {"Idle", "Remove", "ChgAdd", "ShowAsks"}

VARIABLES book, pc, arg, caller, shownBids, top

Live(id) == id \in DOMAIN book[BUY] \cup DOMAIN book[SELL]

NoList == [bids |-> <<>>, asks |-> <<>>]

NoArg == CHOOSE o \in Orders : TRUE

Finish(t) ==
    /\ pc' = [pc EXCEPT ![t] = "Idle"]
    /\ arg' = [arg EXCEPT ![t] = NoArg]
    /\ caller' = [caller EXCEPT ![t] = "Remove"]

Init ==
    /\ book = [s \in Types |-> <<>>]
    /\ pc = [t \in Threads |-> "Idle"]
    /\ arg = [t \in Threads |-> NoArg]
    /\ caller = [t \in Threads |-> "Remove"]
    /\ shownBids = [t \in Threads |-> <<>>]
    /\ top = [t \in Threads |-> NoList]

Insert(o) ==
    book' = [book EXCEPT ![o.type] =
                IF o.id \in DOMAIN @ THEN @ ELSE @ @@ (o.id :> o)]

Add(t, o) ==
    /\ pc[t] = "Idle" /\ o.id \in Owns[t]
    /\ Insert(o)
    /\ UNCHANGED <<pc, arg, caller, shownBids, top>>

Call(t, o, c) ==
    /\ pc[t] = "Idle" /\ o.id \in Owns[t]
    /\ pc' = [pc EXCEPT ![t] = "Remove"]
    /\ arg' = [arg EXCEPT ![t] = o]
    /\ caller' = [caller EXCEPT ![t] = c]
    /\ UNCHANGED <<book, shownBids, top>>

Drop(side, id) == [book EXCEPT ![side] = Restrict(@, DOMAIN @ \ {id})]

RemoveEffect(t) ==
    LET id == arg[t].id IN
    /\ pc[t] = "Remove"
    /\ book' = CASE id \in DOMAIN book[BUY]  -> Drop(BUY, id)
                 [] id \in DOMAIN book[SELL] -> Drop(SELL, id)
                 [] OTHER                    -> book
    /\ IF caller[t] = "Change"
       THEN pc' = [pc EXCEPT ![t] = "ChgAdd"] /\ UNCHANGED <<arg, caller>>
       ELSE Finish(t)
    /\ UNCHANGED <<shownBids, top>>

ChangeAdd(t) ==
    /\ pc[t] = "ChgAdd"
    /\ Insert(arg[t])
    /\ Finish(t)
    /\ UNCHANGED <<shownBids, top>>

ShowBids(t) ==
    /\ pc[t] = "Idle"
    /\ shownBids' = [shownBids EXCEPT ![t] = TopRef(Range(book[BUY]), BUY)]
    /\ pc' = [pc EXCEPT ![t] = "ShowAsks"]
    /\ UNCHANGED <<book, arg, caller, top>>

ShowAsks(t) ==
    /\ pc[t] = "ShowAsks"
    /\ top' = [top EXCEPT ![t] = [bids |-> shownBids[t],
                                  asks |-> TopRef(Range(book[SELL]), SELL)]]
    /\ shownBids' = [shownBids EXCEPT ![t] = <<>>]
    /\ pc' = [pc EXCEPT ![t] = "Idle"]
    /\ UNCHANGED <<book, arg, caller>>

Next ==
    \E t \in Threads :
        \/ \E o \in Orders : Add(t, o) \/ Call(t, o, "Remove") \/ Call(t, o, "Change")
        \/ RemoveEffect(t) \/ ChangeAdd(t) \/ ShowBids(t) \/ ShowAsks(t)

Spec == Init /\ [][Next]_<<book, pc, arg, caller, shownBids, top>>

=============================================================================
