----------------------------- MODULE OrderValue -----------------------------
(***************************************************************************)
(* The order value model of src/include/Order.h and src/src/Order.cpp:     *)
(* Id, Price, Count, Type and Order, and the two ranking comparators       *)
(* operator< (std::less<Order>, asks) and operator> (std::greater<Order>,   *)
(* bids).  Pure operators, no state.                                       *)
(***************************************************************************)
EXTENDS Naturals

\* enum Type { SELL = 0, BUY = 1 }
SELL == "SELL"
BUY  == "BUY"
Types == {SELL, BUY}

\* Price(int_p, frac_p) throws "Invalid fractional part." when frac_p > 99,
\* so every Price value that exists has its fractional part in 0..99.
PriceValid(int_p, frac_p) == frac_p <= 99

Price(int_p, frac_p) == [integer_part |-> int_p, fractional_part |-> frac_p]

\* Id and Count wrap an unsigned value (Id's default val_ is 0, the empty
\* slot's id); the order comparators use their operator> only.
IdGreater(l, r) == l > r
CountGreater(l, r) == l > r

\* operator==(Price, Price)
PriceEq(l, r) ==
    l.integer_part = r.integer_part /\ l.fractional_part = r.fractional_part

\* operator<(Price, Price): integer part first, then fractional part.
PriceLess(l, r) ==
    \/ l.integer_part < r.integer_part
    \/ /\ l.integer_part = r.integer_part
       /\ l.fractional_part < r.fractional_part

\* operator>(Price, Price)
PriceGreater(l, r) ==
    \/ l.integer_part > r.integer_part
    \/ /\ l.integer_part = r.integer_part
       /\ l.fractional_part > r.fractional_part

Order(id, price, count, type) ==
    [id |-> id, price |-> price, count |-> count, type |-> type]

\* operator==(Order, Order): price, count and id; the side is not compared.
OrderEq(l, r) == PriceEq(l.price, r.price) /\ l.count = r.count /\ l.id = r.id

\* Variant: an equal count also ranks ahead.
TieAheadOrEqual(l, r) ==
    \/ l.count >= r.count
    \/ l.count = r.count /\ l.id > r.id

\* The tie-break shared by both comparators: on equal prices the larger
\* count ranks ahead, then the larger id.
TieAhead(l, r) ==
    \/ CountGreater(l.count, r.count)
    \/ l.count = r.count /\ IdGreater(l.id, r.id)

\* operator<(Order, Order) = std::less<Order>, the ask-side ranking.
Less(l, r) ==
    \/ PriceLess(l.price, r.price)
    \/ PriceEq(l.price, r.price) /\ TieAhead(l, r)

\* operator>(Order, Order) = std::greater<Order>, the bid-side ranking.  It
\* reuses TieAhead unchanged instead of inverting it.
Greater(l, r) ==
    \/ PriceGreater(l.price, r.price)
    \/ PriceEq(l.price, r.price) /\ TieAhead(l, r)

\* The comparator a side's containers are ordered by.
Ahead(side, l, r) == IF side = BUY THEN Greater(l, r) ELSE Less(l, r)

=============================================================================
